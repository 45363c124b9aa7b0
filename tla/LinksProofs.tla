----------------------------- MODULE LinksProofs ----------------------------
(***************************************************************************)
(* Proofs about the links, for any nodes, targets, networks, numbers of    *)
(* connections and of failures: types, that both ends of a link agree on   *)
(* whether it is redundant, and that a node uses one link to a peer.       *)
(***************************************************************************)
EXTENDS Links, SequenceTheorems, FiniteSetTheorems, TLAPS

Ends == [st: [Side -> EndState], q: [Side -> Seq(Frame)]]

\* The end s of c is not the redundant one, and its far end is of its network.
Kept(c, s) == ~Redundant(c, s) /\ NetId[Owner(c, s)] = NetId[Far(c, s)]

\* What the two ends r of connection c satisfy: the dialler's end is there
\* from the start; once it is over the acceptor's end has the end of the stream
\* to read; an end is ready only if the link is to be kept, and is dropped as
\* a duplicate only if it is redundant.
EndsInv(c, r) ==
    /\ r \in Ends
    /\ r.st["dial"] # "absent"
    /\ Over(r.st["dial"]) /\ ~Over(r.st["acc"]) =>
          Len(r.q["acc"]) >= 1 /\ r.q["acc"][Len(r.q["acc"])] = "EOF"
    /\ \A s \in Side : /\ r.st[s] = "ready" => Kept(c, s)
                       /\ r.st[s] = "dup" => Redundant(c, s)

\* A node has at most one entry that is not dead for a target it dials.
OneEntry ==
    \A c, d \in Conn :
        c[1] = d[1] /\ c[2] = d[2] /\ Live(c, "dial") /\ Live(d, "dial") => c = d

LinksInv ==
    /\ conn \in [Conn -> Ends] /\ alive \in [Node -> BOOLEAN] /\ faults \in Nat
    /\ \A c \in Conn : EndsInv(c, conn[c])
    /\ OneEntry

\* A connection is a dialler, one of its targets, which is another node and
\* not port 0, and a slot.
LEMMA ConnIs ==
    ASSUME NEW c \in Conn
    PROVE  /\ c[1] \in Node /\ c[2] \in Node /\ c[3] \in Slot /\ c = <<c[1], c[2], c[3]>>
           /\ c[1] \in Nat /\ c[2] \in Nat /\ c[1] # c[2] /\ c[2] # 0
<1>1. c \in Node \X Node \X Slot /\ c[2] \in Targets[c[1]] BY DEF Conn
<1>2. c[1] \in Node /\ c[2] \in Node /\ c[3] \in Slot /\ c = <<c[1], c[2], c[3]>> BY <1>1
<1>3. c[1] # c[2] /\ c[2] # 0 BY <1>1, <1>2, TargetsAssumption
<1>4. c[1] \in Nat /\ c[2] \in Nat BY <1>2, PortAssumption
<1> QED BY <1>2, <1>3, <1>4

\* What each side finds redundant, in terms of the two ports.
LEMMA RedundantIs ==
    ASSUME NEW c \in Conn
    PROVE  /\ Redundant(c, "dial") <=> ~(c[1] < c[2])
           /\ Redundant(c, "acc") <=> c[2] < c[1]
<1>1. /\ Owner(c, "dial") = c[1] /\ Far(c, "dial") = c[2]
      /\ Owner(c, "acc") = c[2] /\ Far(c, "acc") = c[1]
  BY DEF Owner, Far, Other
<1>2. Redundant(c, "dial") <=> c[2] # 0 /\ ~(c[1] < c[2]) BY <1>1 DEF Redundant
<1>3. Redundant(c, "acc") <=> c[1] # 0 /\ c[2] < c[1] BY <1>1 DEF Redundant
<1> QED BY <1>2, <1>3, ConnIs

\* A link that one side finds redundant is redundant for the other: the lower
\* port is the dialler or not, whoever looks.
LEMMA RedundantOnBothSides ==
    ASSUME NEW c \in Conn, NEW s \in Side, Redundant(c, s)
    PROVE  Redundant(c, Other(s))
BY RedundantIs, ConnIs DEF Side, Other

\* The links that a node keeps with a peer are dialled by the same one of the
\* two.
LEMMA KeptIsFromLower ==
    ASSUME NEW c \in Conn, NEW s \in Side, Kept(c, s)
    PROVE  c[1] < c[2]
<1>1. ~Redundant(c, s) BY DEF Kept
<1> QED BY <1>1, RedundantIs, ConnIs DEF Side

\* A step that changes one connection to r, and makes no second live entry.
LEMMA OneConnInv ==
    ASSUME LinksInv, NEW c \in Conn, NEW r, conn' = [conn EXCEPT ![c] = r], EndsInv(c, r),
           Over(r.st["dial"]) \/ Live(c, "dial") \/ ~HaveEntry(c[1], c[2]),
           alive' \in [Node -> BOOLEAN], faults' \in Nat
    PROVE  LinksInv'
<1>1. conn' \in [Conn -> Ends] BY DEF LinksInv, EndsInv
<1>2. conn'[c] = r /\ \A d \in Conn \ {c} : conn'[d] = conn[d] BY DEF LinksInv
<1>3. \A d \in Conn : EndsInv(d, conn'[d]) BY <1>2 DEF LinksInv
<1>4. OneEntry'
  <2> SUFFICES ASSUME NEW d \in Conn, NEW e \in Conn, d[1] = e[1], d[2] = e[2],
                      Live(d, "dial")', Live(e, "dial")'
               PROVE  d = e
    BY DEF OneEntry
  <2>1. \A x \in Conn : x # c => (Live(x, "dial")' <=> Live(x, "dial")) BY <1>2 DEF Live
  <2>2. ~Over(r.st["dial"]) \/ ~Live(c, "dial")' BY <1>2 DEF Live, Over
  <2>3. ASSUME ~HaveEntry(c[1], c[2]), NEW x \in Conn, x[1] = c[1], x[2] = c[2]
        PROVE  ~Live(x, "dial")
    <3>1. x = <<c[1], c[2], x[3]>> /\ x[3] \in Slot BY <2>3, ConnIs
    <3> QED BY <2>3, <3>1 DEF HaveEntry
  <2>4. CASE d # c /\ e # c BY <2>1, <2>4 DEF OneEntry, LinksInv
  <2>5. CASE d = c /\ e # c BY <2>1, <2>2, <2>3, <2>5 DEF OneEntry, LinksInv
  <2>6. CASE e = c /\ d # c BY <2>1, <2>2, <2>3, <2>6 DEF OneEntry, LinksInv
  <2> QED BY <2>4, <2>5, <2>6
<1> QED BY <1>1, <1>3, <1>4 DEF LinksInv

\* NoConn is a connection that is over at both ends.
LEMMA NoConnInv ==
    ASSUME NEW c \in Conn
    PROVE  EndsInv(c, NoConn) /\ Over(NoConn.st["dial"])
<1>1. /\ NoConn.st = [s \in Side |-> "closed"] /\ NoConn.q = [s \in Side |-> << >>]
      /\ NoConn.st \in [Side -> EndState] /\ NoConn.q \in [Side -> Seq(Frame)]
      /\ NoConn = [st |-> NoConn.st, q |-> NoConn.q]
  BY DEF NoConn, EndState
<1>2. NoConn \in Ends BY <1>1 DEF Ends
<1>3. "dial" \in Side /\ "acc" \in Side BY DEF Side
<1> QED BY <1>1, <1>2, <1>3 DEF EndsInv, Over

\* The parts of the record of a connection.
LEMMA EndsFacts ==
    ASSUME NEW c \in Conn, NEW r, EndsInv(c, r)
    PROVE  /\ r.st \in [Side -> EndState] /\ r.q \in [Side -> Seq(Frame)]
           /\ r = [st |-> r.st, q |-> r.q]
           /\ r.st["dial"] \in EndState /\ r.st["acc"] \in EndState
           /\ r.q["dial"] \in Seq(Frame) /\ r.q["acc"] \in Seq(Frame)
           /\ \A s \in Side : r.st[s] \in EndState /\ r.q[s] \in Seq(Frame)
           /\ "dial" \in Side /\ "acc" \in Side
BY DEF EndsInv, Ends, Side

\* A connection of which both parts are set.
LEMMA BothParts ==
    ASSUME NEW c \in Conn, NEW r, EndsInv(c, r), NEW st, NEW q
    PROVE  [r EXCEPT !.st = st, !.q = q] = [st |-> st, q |-> q]
<1>1. ASSUME NEW t, t = [r EXCEPT !.st = st, !.q = q] PROVE t = [st |-> st, q |-> q]
  <2>1. r \in Ends BY DEF EndsInv
  <2> QED BY <1>1, <2>1 DEF Ends
<1> QED BY <1>1

\* A record with the two parts of a connection that satisfies their facts.
LEMMA MakeEnds ==
    ASSUME NEW c \in Conn,
           NEW st \in [Side -> EndState], NEW q \in [Side -> Seq(Frame)],
           st["dial"] # "absent",
           Over(st["dial"]) /\ ~Over(st["acc"]) =>
               Len(q["acc"]) >= 1 /\ q["acc"][Len(q["acc"])] = "EOF",
           \A s \in Side : (st[s] = "ready" => Kept(c, s)) /\ (st[s] = "dup" => Redundant(c, s))
    PROVE  EndsInv(c, [st |-> st, q |-> q])
<1>1. [st |-> st, q |-> q] \in Ends BY DEF Ends
<1> QED BY <1>1 DEF EndsInv

\* A new entry of the dialler, for a target for which it has none.
LEMMA DialInv ==
    ASSUME LinksInv, NEW n \in Node, NEW t \in Node, Dial(n, t)
    PROVE  LinksInv'
<1>1. PICK k \in Slot :
        /\ conn[<<n, t, k>>] = NoConn
        /\ conn' = [conn EXCEPT ![<<n, t, k>>].st =
                       [s \in Side |-> IF s = "dial" THEN "connecting" ELSE "absent"]]
  BY DEF Dial
<1> DEFINE c == <<n, t, k>>
           st == [s \in Side |-> IF s = "dial" THEN "connecting" ELSE "absent"]
           q == [s \in Side |-> << >>]
<1>2. c \in Conn /\ c[1] = n /\ c[2] = t BY DEF Conn, Dial
<1>3. conn' = [conn EXCEPT ![c] = [st |-> st, q |-> q]]
  <2>1. conn' = [conn EXCEPT ![c] = [NoConn EXCEPT !.st = st]] BY <1>1, <1>2 DEF LinksInv
  <2>2. [NoConn EXCEPT !.st = st] = [st |-> st, q |-> q] BY DEF NoConn
  <2> QED BY <2>1, <2>2
<1>4. EndsInv(c, [st |-> st, q |-> q])
  <2>1. st \in [Side -> EndState] /\ q \in [Side -> Seq(Frame)] BY DEF EndState
  <2>2. st["dial"] = "connecting" /\ st["acc"] = "absent" BY DEF Side
  <2> HIDE DEF c, q, st
  <2>3. \A s \in Side : st[s] \in {"connecting", "absent"} BY DEF st
  <2> QED BY <1>2, <2>1, <2>2, <2>3, MakeEnds DEF Over
<1>5. ~HaveEntry(c[1], c[2]) BY <1>2 DEF Dial
<1>6. alive' \in [Node -> BOOLEAN] /\ faults' \in Nat BY DEF Dial, LinksInv
<1> HIDE DEF c, st, q
<1> QED BY <1>2, <1>3, <1>4, <1>5, <1>6, OneConnInv

\* The dialler's socket is connected and its HELLO queued.
LEMMA EstablishedInv ==
    ASSUME LinksInv, NEW c \in Conn, Established(c)
    PROVE  LinksInv'
<1> DEFINE st == [conn[c].st EXCEPT !["dial"] = "open"]
           q == [conn[c].q EXCEPT !["acc"] = Append(conn[c].q["acc"], "HELLO")]
<1>1. EndsInv(c, conn[c]) BY DEF LinksInv
<1>2. conn' = [conn EXCEPT ![c] = [st |-> st, q |-> q]]
  <2>1. conn' = [conn EXCEPT ![c] = [conn[c] EXCEPT !.st = st, !.q = q]] BY DEF Established, LinksInv
  <2> HIDE DEF st, q
  <2>2. [conn[c] EXCEPT !.st = st, !.q = q] = [st |-> st, q |-> q] BY <1>1, BothParts
  <2> QED BY <2>1, <2>2
<1>3. EndsInv(c, [st |-> st, q |-> q])
  <2>1. st \in [Side -> EndState] BY <1>1, EndsFacts DEF EndState
  <2>2. q \in [Side -> Seq(Frame)] BY <1>1, EndsFacts DEF Frame
  <2>3. st["dial"] = "open" /\ \A s \in Side : s # "dial" => st[s] = conn[c].st[s]
    BY <1>1, EndsFacts
  <2> HIDE DEF st, q
  <2> QED BY <1>1, <2>1, <2>2, <2>3, MakeEnds, ZenonT(40) DEF Over, EndsInv
<1>4. Live(c, "dial") BY DEF Established, Live
<1>5. alive' \in [Node -> BOOLEAN] /\ faults' \in Nat BY DEF Established, LinksInv
<1> HIDE DEF st, q
<1> QED BY <1>2, <1>3, <1>4, <1>5, OneConnInv

\* Nobody listens: the entry is erased.
LEMMA RefusedInv ==
    ASSUME LinksInv, NEW c \in Conn, Refused(c)
    PROVE  LinksInv'
<1>1. alive' \in [Node -> BOOLEAN] /\ faults' \in Nat BY DEF Refused, LinksInv
<1> QED BY <1>1, NoConnInv, OneConnInv DEF Refused

\* The acceptor's entry, made before or after the dialler's end is over.
LEMMA AcceptInv ==
    ASSUME LinksInv, NEW c \in Conn, Accept(c)
    PROVE  LinksInv'
<1> DEFINE st == [conn[c].st EXCEPT !["acc"] = "open"]
           q == [conn[c].q EXCEPT !["dial"] = IF Over(conn[c].st["dial"]) THEN conn[c].q["dial"]
                                              ELSE Append(conn[c].q["dial"], "HELLO")]
<1>1. EndsInv(c, conn[c]) BY DEF LinksInv
<1>2. conn' = [conn EXCEPT ![c] = [st |-> st, q |-> q]]
  <2>1. conn' = [conn EXCEPT ![c] = [conn[c] EXCEPT !.st = st, !.q = q]] BY DEF Accept, LinksInv
  <2> HIDE DEF st, q
  <2>2. [conn[c] EXCEPT !.st = st, !.q = q] = [st |-> st, q |-> q] BY <1>1, BothParts
  <2> QED BY <2>1, <2>2
<1>3. EndsInv(c, [st |-> st, q |-> q])
  <2>1. st \in [Side -> EndState] BY <1>1, EndsFacts DEF EndState
  <2>2. q \in [Side -> Seq(Frame)] BY <1>1, EndsFacts DEF Frame
  <2>3. st["acc"] = "open" /\ \A s \in Side : s # "acc" => st[s] = conn[c].st[s]
    BY <1>1, EndsFacts
  <2>4. q["acc"] = conn[c].q["acc"] BY <1>1, EndsFacts
  <2>5. st["dial"] = conn[c].st["dial"] BY <1>1, <2>3, EndsFacts
  <2>6. ~Over(conn[c].st["acc"]) BY DEF Accept, Over
  <2> HIDE DEF st, q
  <2> QED BY <1>1, <2>1, <2>2, <2>3, <2>4, <2>5, <2>6, MakeEnds, ZenonT(40) DEF EndsInv
<1>4. Over(st["dial"]) \/ Live(c, "dial")
  BY <1>1, EndsFacts DEF Live, Over, EndState, EndsInv
<1>5. alive' \in [Node -> BOOLEAN] /\ faults' \in Nat BY DEF Accept, LinksInv
<1> HIDE DEF st, q
<1> QED BY <1>2, <1>3, <1>4, <1>5, OneConnInv

\* A sequence that ends in the end of the stream.
LEMMA EofAppended ==
    ASSUME NEW q \in Seq(Frame)
    PROVE  /\ Append(q, "EOF") \in Seq(Frame)
           /\ Len(Append(q, "EOF")) >= 1
           /\ Append(q, "EOF")[Len(Append(q, "EOF"))] = "EOF"
BY DEF Frame

\* Reading a HELLO leaves the end of the stream where it was.
LEMMA EofStays ==
    ASSUME NEW q \in Seq(Frame), q # << >>, Head(q) = "HELLO"
    PROVE  /\ Tail(q) \in Seq(Frame)
           /\ q[Len(q)] = "EOF" => Len(Tail(q)) >= 1 /\ Tail(q)[Len(Tail(q))] = "EOF"
<1>1. /\ Tail(q) \in Seq(Frame) /\ Len(Tail(q)) = Len(q) - 1 /\ Len(q) \in Nat /\ Len(q) >= 1
      /\ \A i \in 1 .. Len(Tail(q)) : Tail(q)[i] = q[i + 1]
  OBVIOUS
<1>2. Head(q) = q[1] OBVIOUS
<1>3. ASSUME q[Len(q)] = "EOF" PROVE Len(q) # 1 BY <1>2, <1>3
<1> QED BY <1>1, <1>3

\* Closing an end tells the other end, or ends the connection.
LEMMA CloseInv ==
    ASSUME LinksInv, NEW c \in Conn, NEW s \in Side, NEW final \in {"closed", "dup"},
           final = "dup" => Redundant(c, s), Live(c, s), Close(c, s, final), UNCHANGED <<alive, faults>>
    PROVE  LinksInv'
<1> DEFINE st == [conn[c].st EXCEPT ![s] = final]
<1>1. EndsInv(c, conn[c]) BY DEF LinksInv
<1>2. alive' \in [Node -> BOOLEAN] /\ faults' \in Nat BY DEF LinksInv
<1>3. CASE Over(st[Other(s)])
  <2>1. conn' = [conn EXCEPT ![c] = NoConn] BY <1>3 DEF Close
  <2> QED BY <1>2, <2>1, NoConnInv, OneConnInv
<1>4. CASE ~Over(st[Other(s)])
  <2>1. PICK q \in {conn[c].q[Other(s)]} \cup (IF Len(conn[c].q[s]) > 1 THEN {<< >>} ELSE {}) :
          conn' = [conn EXCEPT ![c] = [st |-> st,
                      q |-> [x \in Side |-> IF x = s THEN << >> ELSE Append(q, "EOF")]]]
    BY <1>4, Zenon DEF Close
  <2> DEFINE qq == [x \in Side |-> IF x = s THEN << >> ELSE Append(q, "EOF")]
  <2>2. Other(s) \in Side BY DEF Side, Other
  <2>3. q \in Seq(Frame)
    <3>1. conn[c].q[Other(s)] \in Seq(Frame) BY <1>1, <2>2, EndsFacts
    <3>2. q = conn[c].q[Other(s)] \/ q = << >> OBVIOUS
    <3>3. << >> \in Seq(Frame) OBVIOUS
    <3> QED BY <3>1, <3>2, <3>3, Zenon
  <2>4. st \in [Side -> EndState] BY <1>1, EndsFacts DEF EndState
  <2>5. qq \in [Side -> Seq(Frame)] BY <2>3, EofAppended
  <2>6. st[s] = final /\ \A x \in Side : x # s => st[x] = conn[c].st[x]
    BY <1>1, EndsFacts
  <2>7. s # "acc" => qq["acc"] = Append(q, "EOF") BY DEF Side
  <2>8. s = "dial" \/ s = "acc" BY DEF Side
  <2>9. "dial" \in Side /\ "acc" \in Side BY DEF Side
  <2> HIDE DEF st, qq
  <2>10. st["dial"] # "absent" BY <1>1, <2>6, <2>8, <2>9 DEF EndsInv
  <2>11. Over(st["dial"]) /\ ~Over(st["acc"]) => s # "acc" BY <2>6 DEF Over
  <2>12. \A x \in Side : (st[x] = "ready" => Kept(c, x)) /\ (st[x] = "dup" => Redundant(c, x))
    BY <1>1, <2>6 DEF EndsInv
  <2>13. EndsInv(c, [st |-> st, q |-> qq])
    BY <2>3, <2>4, <2>5, <2>7, <2>10, <2>11, <2>12, EofAppended, MakeEnds
  <2>14. Over(st["dial"]) \/ Live(c, "dial")
    BY <1>1, <2>6, <2>8, <2>9, <2>10, EndsFacts DEF Live, Over, EndState, EndsInv
  <2>15. conn' = [conn EXCEPT ![c] = [st |-> st, q |-> qq]] BY <2>1 DEF qq
  <2> QED BY <1>2, <2>13, <2>14, <2>15, OneConnInv
<1> QED BY <1>3, <1>4

\* A frame is read: the HELLO that decides, or one that ends the connection.
LEMMA ReadInv ==
    ASSUME LinksInv, NEW c \in Conn, NEW s \in Side, Read(c, s)
    PROVE  LinksInv'
<1> DEFINE f == Head(conn[c].q[s])
           foreign == NetId[Owner(c, s)] # NetId[Far(c, s)]
<1>1. EndsInv(c, conn[c]) BY DEF LinksInv
<1>2. UNCHANGED <<alive, faults>> /\ Live(c, s) /\ conn[c].q[s] # << >> BY DEF Read, Live
<1>3. CASE Close(c, s, "closed") BY <1>2, <1>3, CloseInv
<1>4. CASE Redundant(c, s) /\ Close(c, s, "dup") BY <1>2, <1>4, CloseInv
<1>5. CASE /\ f = "HELLO" /\ ~foreign /\ ~Redundant(c, s)
           /\ conn' = [conn EXCEPT ![c].st[s] = "ready", ![c].q[s] = Tail(@)]
  <2> DEFINE st == [conn[c].st EXCEPT ![s] = "ready"]
             q == [conn[c].q EXCEPT ![s] = Tail(conn[c].q[s])]
  <2>1. conn' = [conn EXCEPT ![c] = [st |-> st, q |-> q]]
    <3>1. conn' = [conn EXCEPT ![c] = [conn[c] EXCEPT !.st = st, !.q = q]] BY <1>5 DEF LinksInv
    <3> HIDE DEF st, q
    <3>2. [conn[c] EXCEPT !.st = st, !.q = q] = [st |-> st, q |-> q] BY <1>1, BothParts
    <3> QED BY <3>1, <3>2
  <2>2. Kept(c, s) BY <1>5 DEF Kept
  <2>3. conn[c].q[s] \in Seq(Frame) BY <1>1, EndsFacts
  <2>4. st \in [Side -> EndState] BY <1>1, EndsFacts DEF EndState
  <2>5. q \in [Side -> Seq(Frame)] BY <1>1, <1>2, <1>5, <2>3, EndsFacts, EofStays
  <2>6. st[s] = "ready" /\ \A x \in Side : x # s => st[x] = conn[c].st[x] BY <1>1, EndsFacts
  <2>7. q[s] = Tail(conn[c].q[s]) /\ \A x \in Side : x # s => q[x] = conn[c].q[x]
    BY <1>1, EndsFacts
  <2>8. (s = "dial" \/ s = "acc") /\ "dial" \in Side /\ "acc" \in Side BY DEF Side
  <2> HIDE DEF st, q
  <2>9. st["dial"] # "absent" BY <1>1, <2>6, <2>8 DEF EndsInv
  <2>10. ASSUME Over(st["dial"]), ~Over(st["acc"])
         PROVE  Len(q["acc"]) >= 1 /\ q["acc"][Len(q["acc"])] = "EOF"
    <3>1. s = "acc" /\ st["dial"] = conn[c].st["dial"] BY <2>6, <2>8, <2>10 DEF Over
    <3>2. ~Over(conn[c].st["acc"]) BY <1>2, <3>1 DEF Live, Over
    <3>3. conn[c].q[s][Len(conn[c].q[s])] = "EOF" BY <1>1, <2>10, <3>1, <3>2 DEF EndsInv
    <3> QED BY <1>2, <1>5, <2>3, <2>7, <3>1, <3>3, EofStays
  <2>11. \A x \in Side : (st[x] = "ready" => Kept(c, x)) /\ (st[x] = "dup" => Redundant(c, x))
    BY <1>1, <2>2, <2>6 DEF EndsInv
  <2>12. EndsInv(c, [st |-> st, q |-> q]) BY <2>4, <2>5, <2>9, <2>10, <2>11, MakeEnds
  <2>13. Over(st["dial"]) \/ Live(c, "dial")
    BY <1>1, <1>2, <2>6, <2>8, EndsFacts DEF Live, Over, EndState, EndsInv
  <2>14. alive' \in [Node -> BOOLEAN] /\ faults' \in Nat BY <1>2 DEF LinksInv
  <2> QED BY <2>1, <2>12, <2>13, <2>14, OneConnInv
<1> QED BY <1>3, <1>4, <1>5 DEF Read

\* A step that changes what is under way on a link whose dialler's end is
\* there.
LEMMA QueuesInv ==
    ASSUME LinksInv, NEW c \in Conn, NEW q \in [Side -> Seq(Frame)],
           conn' = [conn EXCEPT ![c].q = q], Live(c, "dial"), faults' \in Nat, UNCHANGED alive
    PROVE  LinksInv'
<1> DEFINE st == conn[c].st
<1>1. EndsInv(c, conn[c]) BY DEF LinksInv
<1>2. conn' = [conn EXCEPT ![c] = [st |-> st, q |-> q]]
  <2>1. conn' = [conn EXCEPT ![c] = [conn[c] EXCEPT !.q = q]] BY DEF LinksInv
  <2>2. ASSUME NEW t, t = [conn[c] EXCEPT !.q = q] PROVE t = [st |-> st, q |-> q]
    <3>1. conn[c] \in Ends BY <1>1 DEF EndsInv
    <3> QED BY <2>2, <3>1 DEF Ends
  <2> QED BY <2>1, <2>2
<1>3. ~Over(st["dial"]) BY DEF Live, Over
<1>4. st \in [Side -> EndState] BY <1>1, EndsFacts
<1>5. EndsInv(c, [st |-> st, q |-> q])
  BY <1>1, <1>3, <1>4, MakeEnds DEF EndsInv
<1>6. alive' \in [Node -> BOOLEAN] BY DEF LinksInv
<1> QED BY <1>2, <1>5, <1>6, OneConnInv

\* A frame that is too long is under way.
LEMMA SendBigInv ==
    ASSUME LinksInv, NEW c \in Conn, NEW s \in Side, SendBig(c, s)
    PROVE  LinksInv'
<1> DEFINE q == [conn[c].q EXCEPT ![Other(s)] = Append(conn[c].q[Other(s)], "BIG")]
<1>1. EndsInv(c, conn[c]) BY DEF LinksInv
<1>2. conn' = [conn EXCEPT ![c].q = q] BY DEF SendBig, LinksInv
<1>3. q \in [Side -> Seq(Frame)]
  <2>1. Other(s) \in Side BY DEF Side, Other
  <2>2. Append(conn[c].q[Other(s)], "BIG") \in Seq(Frame) BY <1>1, <2>1, EndsFacts DEF Frame
  <2> QED BY <1>1, <2>2, EndsFacts
<1>4. Live(c, "dial")
  BY <1>1, EndsFacts DEF SendBig, Live, Over, EndState, EndsInv, Side, Other
<1>5. faults' \in Nat /\ UNCHANGED alive BY DEF SendBig, LinksInv
<1> HIDE DEF q
<1> QED BY <1>2, <1>3, <1>4, <1>5, QueuesInv

\* A connection breaks.
LEMMA BreaksInv ==
    ASSUME LinksInv, NEW c \in Conn, Breaks(c)
    PROVE  LinksInv'
<1>1. EndsInv(c, conn[c]) BY DEF LinksInv
<1>2. PICK k \in 0 .. Len(conn[c].q["dial"]), l \in 0 .. Len(conn[c].q["acc"]) :
        conn' = [conn EXCEPT ![c].q = [s \in Side |->
                    SubSeq(@[s], 1, IF s = "dial" THEN k ELSE l) \o <<"EOF">>]]
  BY DEF Breaks
<1> DEFINE q == [s \in Side |-> SubSeq(conn[c].q[s], 1, IF s = "dial" THEN k ELSE l) \o <<"EOF">>]
<1>3. conn' = [conn EXCEPT ![c].q = q] BY <1>2 DEF LinksInv
<1>4. q \in [Side -> Seq(Frame)]
  <2> SUFFICES ASSUME NEW s \in Side
               PROVE  SubSeq(conn[c].q[s], 1, IF s = "dial" THEN k ELSE l) \o <<"EOF">> \in Seq(Frame)
    OBVIOUS
  <2>1. conn[c].q[s] \in Seq(Frame) BY <1>1, EndsFacts
  <2>2. (IF s = "dial" THEN k ELSE l) \in 0 .. Len(conn[c].q[s]) BY DEF Side
  <2> DEFINE m == IF s = "dial" THEN k ELSE l
  <2> HIDE DEF m
  <2>3. SubSeq(conn[c].q[s], 1, m) \in Seq(Frame)
    BY <2>1, <2>2, SubSeqProperties DEF m
  <2>4. <<"EOF">> \in Seq(Frame) BY DEF Frame
  <2> QED BY <2>3, <2>4, ConcatProperties DEF m
<1>5. Live(c, "dial") BY DEF Breaks, Live
<1>6. faults' \in Nat /\ UNCHANGED alive BY DEF Breaks, LinksInv
<1> HIDE DEF q
<1> QED BY <1>3, <1>4, <1>5, <1>6, QueuesInv

\* A process ends: its ends are over, and the other ends will read so.
LEMMA StopInv ==
    ASSUME LinksInv, NEW n \in Node, Stop(n)
    PROVE  LinksInv'
<1>1. ASSUME NEW c \in Conn
      PROVE  EndsInv(c, conn'[c]) /\ (Live(c, "dial")' => Live(c, "dial"))
  <2> DEFINE s == IF c[1] = n THEN "dial" ELSE "acc"
             far == conn[c].st[Other(s)]
             st == [x \in Side |-> IF x = s THEN "closed" ELSE far]
             q == [x \in Side |-> IF x = s THEN << >> ELSE Append(conn[c].q[x], "EOF")]
  <2>1. EndsInv(c, conn[c]) BY DEF LinksInv
  <2>2. CASE n \notin {c[1], c[2]}
    <3>1. conn'[c] = conn[c] BY <2>2 DEF Stop
    <3> QED BY <2>1, <3>1 DEF Live
  <2>3. CASE n \in {c[1], c[2]} /\ (Over(far) \/ (s = "acc" /\ far = "connecting"))
    <3>1. conn'[c] = NoConn BY <2>3 DEF Stop
    <3> QED BY <3>1, NoConnInv DEF Live, Over
  <2>4. CASE n \in {c[1], c[2]} /\ ~(Over(far) \/ (s = "acc" /\ far = "connecting"))
    <3>1. conn'[c] = [st |-> st, q |-> q] BY <2>4, Zenon DEF Stop
    <3>2. s \in Side /\ Other(s) \in Side BY DEF Side, Other
    <3>3. far \in EndState BY <2>1, <3>2, EndsFacts
    <3>4. st \in [Side -> EndState] BY <3>3 DEF EndState
    <3>5. q \in [Side -> Seq(Frame)]
      <4>1. \A x \in Side : Append(conn[c].q[x], "EOF") \in Seq(Frame)
        BY <2>1, EndsFacts, EofAppended
      <4> HIDE DEF s
      <4> QED BY <4>1
    <3>6. s = "dial" \/ s = "acc" OBVIOUS
    <3>7. \A x \in Side : st[x] = IF x = s THEN "closed" ELSE conn[c].st[x]
      BY DEF Side, Other
    <3>8. "dial" \in Side /\ "acc" \in Side BY DEF Side
    <3>9. s # "acc" => q["acc"] = Append(conn[c].q["acc"], "EOF") BY <3>8
    <3> HIDE DEF s, far, st, q
    <3>10. st["dial"] # "absent" BY <2>1, <3>7, <3>8 DEF EndsInv
    <3>11. \A x \in Side : (st[x] = "ready" => Kept(c, x)) /\ (st[x] = "dup" => Redundant(c, x))
      BY <2>1, <3>7 DEF EndsInv
    <3>12. ASSUME Over(st["dial"]), ~Over(st["acc"])
           PROVE  Len(q["acc"]) >= 1 /\ q["acc"][Len(q["acc"])] = "EOF"
      <4>1. s # "acc" BY <3>7, <3>8, <3>12 DEF Over
      <4> QED BY <4>1, <2>1, <3>9, EndsFacts, EofAppended
    <3>13. EndsInv(c, [st |-> st, q |-> q]) BY <3>4, <3>5, <3>10, <3>11, <3>12, MakeEnds
    <3>14. st["dial"] \in {"connecting", "open", "ready"} => st["dial"] = conn[c].st["dial"]
      BY <3>7, <3>8
    <3> QED BY <3>1, <3>13, <3>14 DEF Live
  <2> QED BY <2>2, <2>3, <2>4
<1>2. conn' \in [Conn -> Ends]
  <2>1. conn' = [c \in Conn |-> conn'[c]] BY DEF Stop
  <2>2. \A c \in Conn : conn'[c] \in Ends BY <1>1 DEF EndsInv
  <2> QED BY <2>1, <2>2
<1>3. OneEntry' BY <1>1 DEF OneEntry, LinksInv
<1>4. alive' \in [Node -> BOOLEAN] /\ faults' \in Nat BY DEF Stop, LinksInv
<1> QED BY <1>1, <1>2, <1>3, <1>4 DEF LinksInv

\* No step leaves the invariant of the links.
LEMMA NextInv ==
    LinksInv /\ [Next]_vars => LinksInv'
<1> SUFFICES ASSUME LinksInv, [Next]_vars PROVE LinksInv' OBVIOUS
<1>1. ASSUME NEW n \in Node, NEW t \in Node, Dial(n, t) PROVE LinksInv' BY <1>1, DialInv
<1>2. ASSUME NEW c \in Conn, Established(c) \/ Refused(c) \/ Accept(c) \/ Breaks(c)
      PROVE  LinksInv'
  BY <1>2, EstablishedInv, RefusedInv, AcceptInv, BreaksInv
<1>3. ASSUME NEW c \in Conn, NEW s \in Side, Read(c, s) \/ SendBig(c, s) PROVE LinksInv'
  BY <1>3, ReadInv, SendBigInv
<1>4. ASSUME NEW n \in Node, Stop(n) PROVE LinksInv' BY <1>4, StopInv
<1>5. ASSUME NEW n \in Node, Start(n) PROVE LinksInv'
  BY <1>5 DEF Start, LinksInv, OneEntry, Live
<1>6. CASE UNCHANGED vars BY <1>6 DEF vars, LinksInv, OneEntry, Live
<1> QED BY <1>1, <1>2, <1>3, <1>4, <1>5, <1>6 DEF Next

\* The inductive invariant of the links: what an end has found out about the
\* link, the end of the stream that a closed dialler leaves, and one live entry
\* for a target.
THEOREM LinksInvHolds == Spec => []LinksInv
<1>1. Init => LinksInv
  <2> SUFFICES ASSUME Init PROVE LinksInv OBVIOUS
  <2>1. \A c \in Conn : EndsInv(c, NoConn) /\ ~(NoConn.st["dial"] \in {"connecting", "open", "ready"})
    BY NoConnInv DEF Over
  <2>2. \A c \in Conn : conn[c] = NoConn BY DEF Init
  <2>3. conn \in [Conn -> Ends] BY <2>1 DEF Init, EndsInv
  <2>4. OneEntry BY <2>1, <2>2 DEF OneEntry, Live
  <2> QED BY <2>1, <2>2, <2>3, <2>4 DEF LinksInv, Init
<1> QED BY <1>1, NextInv, PTL DEF Spec

\* A link that one end has dropped with dedup_drop is never in use at the other.
THEOREM AgreeTheorem == Spec => []BothSidesAgree
<1>1. LinksInv => BothSidesAgree
  <2> SUFFICES ASSUME LinksInv, NEW c \in Conn, NEW s \in Side, conn[c].st[s] = "dup"
               PROVE  conn[c].st[Other(s)] # "ready"
    BY DEF BothSidesAgree
  <2>1. EndsInv(c, conn[c]) BY DEF LinksInv
  <2>2. Redundant(c, Other(s)) BY <2>1, RedundantOnBothSides DEF EndsInv
  <2>3. Other(s) \in Side BY DEF Side, Other
  <2> QED BY <2>1, <2>2, <2>3 DEF EndsInv, Kept
<1> QED BY <1>1, LinksInvHolds, PTL

\* The dialler's entry of a link in use is live, at whichever end it is used.
LEMMA InUseIsDialled ==
    ASSUME LinksInv, NEW n \in Node, NEW p \in Node, NEW c \in InUse(n, p)
    PROVE  /\ c \in Conn /\ Live(c, "dial") /\ c[1] < c[2]
           /\ \/ c[1] = n /\ c[2] = p
              \/ c[1] = p /\ c[2] = n
<1>1. PICK s \in Side :
        /\ Owner(c, s) = n /\ Far(c, s) = p
        /\ conn[c].st[s] = "ready" /\ conn[c].q[s] = << >>
  BY DEF InUse
<1>2. c \in Conn BY DEF InUse
<1>3. EndsInv(c, conn[c]) BY <1>2 DEF LinksInv
<1>4. c[1] < c[2] BY <1>1, <1>2, <1>3, KeptIsFromLower DEF EndsInv
<1>5. \/ c[1] = n /\ c[2] = p
      \/ c[1] = p /\ c[2] = n
  BY <1>1 DEF Owner, Far, Other, Side
<1>6. Live(c, "dial")
  <2>1. CASE s = "dial" BY <1>1, <2>1 DEF Live
  <2>2. CASE s = "acc"
    <3>1. ~Over(conn[c].st["acc"]) /\ Len(conn[c].q["acc"]) = 0 BY <1>1, <2>2 DEF Over
    <3>2. ~Over(conn[c].st["dial"]) BY <1>3, <3>1 DEF EndsInv
    <3> QED BY <1>2, <1>3, <3>2, EndsFacts DEF EndsInv, Over, Live, EndState
  <2> QED BY <2>1, <2>2 DEF Side
<1> QED BY <1>2, <1>4, <1>5, <1>6

\* A node uses one link to a peer.
UseOne == \A n, p \in Node : \A c, d \in InUse(n, p) : c = d

\* Both would be dialled by the lower port, which has one live entry.
LEMMA UseOneInv == LinksInv => UseOne
<1> SUFFICES ASSUME LinksInv, NEW n \in Node, NEW p \in Node,
                    NEW c \in InUse(n, p), NEW d \in InUse(n, p)
             PROVE  c = d
  BY DEF UseOne
<1>1. /\ c \in Conn /\ d \in Conn /\ c[1] < c[2] /\ d[1] < d[2]
      /\ Live(c, "dial") /\ Live(d, "dial")
      /\ (c[1] = n /\ c[2] = p) \/ (c[1] = p /\ c[2] = n)
      /\ (d[1] = n /\ d[2] = p) \/ (d[1] = p /\ d[2] = n)
  BY InUseIsDialled
<1>2. c[1] = d[1] /\ c[2] = d[2]
  <2>1. n \in Nat /\ p \in Nat BY PortAssumption
  <2> QED BY <1>1, <2>1
<1> QED BY <1>1, <1>2 DEF LinksInv, OneEntry

\* A node never uses two links to the same peer, whatever was dialled,
\* accepted, broken and restarted.
THEOREM OneLinkTheorem == Spec => []OneLinkPerPair
<1>1. LinksInv => OneLinkPerPair
  <2> SUFFICES ASSUME LinksInv, NEW n \in Node, NEW p \in Node
               PROVE  Cardinality(InUse(n, p)) <= 1
    BY DEF OneLinkPerPair
  <2>1. CASE InUse(n, p) = {} BY <2>1, FS_EmptySet
  <2>2. CASE InUse(n, p) # {}
    <3>1. PICK c : c \in InUse(n, p) BY <2>2
    <3>2. InUse(n, p) = {c} BY <3>1, UseOneInv DEF UseOne
    <3> QED BY <3>2, FS_Singleton
  <2> QED BY <2>1, <2>2
<1> QED BY <1>1, LinksInvHolds, PTL

\* A link with both ends ready and nothing under way: no step but a failure
\* concerns it.
LEMMA IdleLinkStays ==
    ASSUME LinksInv, [Next]_vars, faults' = faults, NEW c \in Conn,
           \A s \in Side : conn[c].st[s] = "ready" /\ conn[c].q[s] = << >>
    PROVE  conn'[c] = conn[c]
<1>0. "dial" \in Side /\ "acc" \in Side /\ conn \in [Conn -> Ends] /\ faults \in Nat
  BY DEF Side, LinksInv
<1>1. ASSUME NEW n \in Node, NEW t \in Node, Dial(n, t) PROVE conn'[c] = conn[c]
  <2>1. PICK k \in Slot : /\ conn[<<n, t, k>>] = NoConn
                          /\ conn' = [conn EXCEPT ![<<n, t, k>>].st =
                                         [s \in Side |-> IF s = "dial" THEN "connecting" ELSE "absent"]]
    BY <1>1 DEF Dial
  <2>2. c # <<n, t, k>> BY <1>0, <2>1 DEF NoConn
  <2> QED BY <1>0, <2>1, <2>2
<1>2. ASSUME NEW d \in Conn, Established(d) \/ Refused(d) \/ Accept(d) PROVE conn'[c] = conn[c]
  <2>1. d # c BY <1>0, <1>2 DEF Established, Refused, Accept
  <2> QED BY <1>0, <1>2, <2>1 DEF Established, Refused, Accept
<1>3. ASSUME NEW d \in Conn, NEW s \in Side, Read(d, s) PROVE conn'[c] = conn[c]
  <2>1. d # c BY <1>3 DEF Read
  <2>2. ASSUME NEW final, Close(d, s, final) PROVE conn'[c] = conn[c]
    BY <1>0, <2>1, <2>2 DEF Close
  <2> QED BY <1>0, <1>3, <2>1, <2>2 DEF Read
<1>4. ASSUME NEW d \in Conn, Breaks(d) PROVE FALSE
  BY <1>0, <1>4 DEF Breaks
<1>5. ASSUME NEW d \in Conn, NEW s \in Side, SendBig(d, s) PROVE FALSE
  BY <1>0, <1>5 DEF SendBig
<1>6. ASSUME NEW n \in Node, Stop(n) PROVE FALSE
  BY <1>0, <1>6 DEF Stop
<1>7. CASE UNCHANGED vars \/ \E n \in Node : Start(n)
  BY <1>7 DEF vars, Start
<1> QED BY <1>1, <1>2, <1>3, <1>4, <1>5, <1>6, <1>7 DEF Next

\* The link that a pair uses is lost only through a failure: whatever is
\* dialled, greeted and dropped beside it leaves it in use on both sides.
THEOREM LinkKeptTheorem == Spec => LinkKept
<1>1. ASSUME LinksInv, UseOne', [Next]_vars
      PROVE  [\A n, p \in Node : Linked(n, p) => Linked(n, p)' \/ faults' # faults]_vars
  <2> SUFFICES ASSUME NEW n \in Node, NEW p \in Node, Linked(n, p), faults' = faults
               PROVE  Linked(n, p)'
    OBVIOUS
  <2>1. PICK c : c \in InUse(n, p) /\ c \in InUse(p, n)
    <3>1. InUse(n, p) \cap InUse(p, n) # {} BY FS_EmptySet DEF Linked
    <3> QED BY <3>1
  <2>2. PICK s \in Side :
          /\ Owner(c, s) = n /\ Far(c, s) = p
          /\ conn[c].st[s] = "ready" /\ conn[c].q[s] = << >>
    BY <2>1 DEF InUse
  <2>3. PICK x \in Side :
          /\ Owner(c, x) = p /\ Far(c, x) = n
          /\ conn[c].st[x] = "ready" /\ conn[c].q[x] = << >>
    BY <2>1 DEF InUse
  <2>4. c \in Conn /\ c[1] < c[2] BY <1>1, <2>1, InUseIsDialled
  <2>5. c[1] \in Nat /\ c[2] \in Nat BY <2>4, ConnIs, PortAssumption
  <2>6. s # x BY <2>2, <2>3, <2>4, <2>5 DEF Owner, Far, Other, Side
  <2>7. \A y \in Side : conn[c].st[y] = "ready" /\ conn[c].q[y] = << >>
    BY <2>2, <2>3, <2>6 DEF Side
  <2>8. conn'[c] = conn[c] BY <1>1, <2>4, <2>7, IdleLinkStays
  <2>9. c \in InUse(n, p)' /\ c \in InUse(p, n)' BY <2>2, <2>3, <2>4, <2>8 DEF InUse
  <2>10. InUse(n, p)' \cap InUse(p, n)' = {c} BY <1>1, <2>9 DEF UseOne
  <2> QED BY <2>10, FS_Singleton DEF Linked
<1> QED BY <1>1, UseOneInv, LinksInvHolds, PTL DEF Spec, LinkKept

=============================================================================
