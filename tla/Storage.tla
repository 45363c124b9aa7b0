------------------------------- MODULE Storage ------------------------------
(***************************************************************************)
(* How a node keeps its chain in SQLite: append and db_insert,             *)
(* try_replace's transaction, db_truncate_from and Chain::init of          *)
(* src/core.h, over the statements of src/sqlite_shim.h.  A block is       *)
(* written by several statements; each is a step of its own, after which   *)
(* the process or the machine may stop.  No step of the node looks at the  *)
(* outcome of a statement, so one that fails is simply missing.            *)
(*                                                                         *)
(* Blocks are the nodes of a fixed tree (module BlockTree): what other     *)
(* nodes mine.  SQLite is modelled by its contract: WAL journal,           *)
(* synchronous=NORMAL, one connection.                                     *)
(***************************************************************************)
EXTENDS BlockTree, Bags, SequencesExt

CONSTANTS
    Tree,        \* the blocks there are besides genesis
    TxCount,     \* transactions in each of them
    MaxStops,    \* bound of the model: crashes, power failures and clocks set back in all
    MaxErrors    \* bound of the model: failing statements in all

ASSUME TreeAssumption == Tree \in Seq([parent: Nat, height: Nat])
ASSUME StorageBoundsAssumption ==
    TxCount \in Nat /\ MaxStops \in Nat /\ MaxErrors \in Nat

VARIABLES
    running,  \* the process is up
    mem,      \* Chain::blocks
    before,   \* Chain::blocks before the operation whose statements are run
    todo,     \* the statements that operation has still to run
    disk,     \* the committed tables: blocks by height, and the rows of txs
    view,     \* the tables as the connection sees them
    open,     \* a transaction is open
    past,     \* committed tables that a power failure may bring back
    had,      \* every chain the node has had
    stops,    \* crashes, power failures and clocks set back so far
    errors,   \* failed statements so far
    dirty     \* one of them since the process was started

vars == <<running, mem, before, todo, disk, view, open, past, had, stops, errors, dirty>>

---------------------------------------------------------------------------
(* Statements *)

Stmt(op) == [op |-> op, height |-> 0, block |-> Genesis, idx |-> 0]
Begin == Stmt("begin")
Commit == Stmt("commit")

\* Mutant of DbTruncate: the rows of txs are left.
DbTruncateBlocks(h) == <<[Stmt("del_blocks") EXCEPT !.height = h]>>

\* db_truncate_from.
DbTruncate(h) == <<[Stmt("del_blocks") EXCEPT !.height = h],
                   [Stmt("del_txs") EXCEPT !.height = h]>>

\* db_insert: the row of the block, then one row for each transaction.
DbInsert(h, b) ==
    <<[Stmt("ins_block") EXCEPT !.height = h, !.block = b]>>
    \o [i \in 1 .. IF b = Genesis THEN 0 ELSE TxCount |->
           [Stmt("ins_tx") EXCEPT !.height = h, !.block = b, !.idx = i - 1]]

TxRow(s) == <<s.height, s.idx, s.block>>

\* What a statement makes of the tables.
Effect(db, s) ==
    CASE s.op = "ins_block" ->
            [db EXCEPT !.blocks = [h \in DOMAIN @ \cup {s.height} |->
                                      IF h = s.height THEN s.block ELSE @[h]]]
      [] s.op = "ins_tx" -> [db EXCEPT !.txs = @ (+) SetToBag({TxRow(s)})]
      [] s.op = "del_blocks" ->
            [db EXCEPT !.blocks = [h \in {g \in DOMAIN @ : g < s.height} |-> @[h]]]
      [] s.op = "del_txs" ->
            [db EXCEPT !.txs = [r \in {q \in DOMAIN @ : q[1] < s.height} |-> @[r]]]
      [] OTHER -> db

---------------------------------------------------------------------------
(* Loading *)

\* SELECT raw FROM blocks ORDER BY height: the i-th row is the one with i - 1
\* rows below it.
Raws(db) ==
    LET hs == DOMAIN db.blocks
        below(h) == {g \in hs : g < h}
    IN  [i \in 1 .. Cardinality(hs) |->
            db.blocks[CHOOSE h \in hs : Cardinality(below(h)) = i - 1]]

\* Mutant of Loaded: the hash of the parent is not compared.
LoadedByHeight(db) ==
    LET raws == Raws(db)
        ok(k) == \A i \in 1 .. k : HeightOf(Tree, raws[i]) = i - 1
        good == CHOOSE k \in 0 .. Len(raws) : ok(k) /\ (k < Len(raws) => ~ok(k + 1))
    IN  SubSeq(raws, 1, good)

\* The blocks that Chain::init connects, up to the first that is refused.
Loaded(db) ==
    LET raws == Raws(db)
        ok(k) == k = 0 \/ IsPath(Tree, SubSeq(raws, 1, k))
        good == CHOOSE k \in 0 .. Len(raws) : ok(k) /\ (k < Len(raws) => ~ok(k + 1))
    IN  SubSeq(raws, 1, good)

---------------------------------------------------------------------------
NoTables == [blocks |-> << >>, txs |-> EmptyBag]

Init ==
    /\ running = FALSE
    /\ mem = << >> /\ before = << >> /\ todo = << >>
    /\ disk = NoTables /\ view = NoTables /\ open = FALSE
    /\ past = {} /\ had = {}
    /\ stops = 0 /\ errors = 0 /\ dirty = FALSE

\* Mutant of InitStatements: what did not load is left in the tables.
InitStatementsKeep(db, good) ==
    IF good = 0 THEN DbInsert(0, Genesis) ELSE << >>

\* What Chain::init writes when the first `good' rows connect: the others are
\* removed, and genesis starts an empty chain.
InitStatements(db, good) ==
    (IF good < Len(Raws(db)) THEN <<Begin>> \o DbTruncate(good) \o <<Commit>> ELSE << >>)
    \o (IF good = 0 THEN DbInsert(0, Genesis) ELSE << >>)

\* node_run up to and with Chain::init, which connects the first `good' rows;
\* the statements follow.
StartWith(good) ==
    LET c == IF good = 0 THEN <<Genesis>> ELSE SubSeq(Raws(disk), 1, good)
    IN  /\ ~running
        /\ running' = TRUE
        /\ mem' = c
        /\ before' = Loaded(disk)
        /\ todo' = InitStatements(disk, good)
        /\ had' = had \cup {c}
        /\ dirty' = FALSE
        /\ UNCHANGED <<disk, view, open, past, errors>>

Start == StartWith(Len(Loaded(disk))) /\ UNCHANGED stops

\* The clock was set back: a block above genesis is now too far in the
\* future, and is refused with all that follow.
StartClockBack ==
    /\ stops < MaxStops
    /\ stops' = stops + 1
    /\ \E good \in 1 .. Len(Loaded(disk)) - 1 : StartWith(good)

\* connect_block with its append.
Connect(b) ==
    /\ running /\ todo = << >>
    /\ ChildOf(Tree, b, Tip(mem))
    /\ mem' = Append(mem, b)
    /\ before' = mem
    /\ todo' = DbInsert(Len(mem), b)
    /\ had' = had \cup {mem'}
    /\ UNCHANGED <<running, disk, view, open, past, stops, errors, dirty>>

\* The length of the common prefix.
Fork(c, d) ==
    CHOOSE k \in 0 .. Len(c) :
        /\ k <= Len(d) /\ SubSeq(c, 1, k) = SubSeq(d, 1, k)
        /\ k < Len(c) /\ k < Len(d) => c[k + 1] # d[k + 1]

\* The rows of c from height h on.
InsertFrom(c, h) == FlattenSeq([i \in 1 .. Len(c) - h |-> DbInsert(h + i - 1, c[h + i])])

\* Mutant of ReplaceStatements: without the transaction.
ReplaceStatementsBare(c, cand) ==
    DbTruncate(Fork(c, cand)) \o InsertFrom(cand, Fork(c, cand))

\* What try_replace writes when cand takes the place of c.
ReplaceStatements(c, cand) ==
    <<Begin>> \o DbTruncate(Fork(c, cand)) \o InsertFrom(cand, Fork(c, cand)) \o <<Commit>>

\* try_replace.
TryReplace(cand) ==
    /\ running /\ todo = << >>
    /\ IsPath(Tree, cand) /\ Len(cand) > Len(mem)
    /\ mem' = cand
    /\ before' = mem
    /\ todo' = ReplaceStatements(mem, cand)
    /\ had' = had \cup {cand}
    /\ UNCHANGED <<running, disk, view, open, past, stops, errors, dirty>>

\* Mutant of Execute: only COMMIT commits.
ExecuteNoAutocommit ==
    /\ todo # << >>
    /\ todo' = Tail(todo)
    /\ LET s == Head(todo)
       IN  /\ view' = Effect(view, s)
           /\ open' = IF s.op = "begin" THEN TRUE ELSE open /\ s.op # "commit"
           /\ disk' = IF open /\ s.op = "commit" THEN view' ELSE disk
    /\ UNCHANGED <<running, mem, before, past, had, stops, errors, dirty>>

\* The next statement succeeds.  Outside a transaction it commits at once.
\* A BEGIN in an open transaction and a COMMIT without one change nothing.
Execute ==
    /\ todo # << >>
    /\ todo' = Tail(todo)
    /\ LET s == Head(todo)
           commits == IF s.op = "commit" THEN open ELSE ~open /\ s.op # "begin"
       IN  /\ view' = Effect(view, s)
           /\ open' = IF s.op = "begin" THEN TRUE ELSE open /\ s.op # "commit"
           /\ disk' = IF commits THEN view' ELSE disk
           /\ past' = IF commits THEN past \cup {disk} ELSE past
    /\ UNCHANGED <<running, mem, before, had, stops, errors, dirty>>

\* It fails (locked, disk full): an open transaction stays, or SQLite rolls
\* it back.
ExecuteFails ==
    /\ todo # << >> /\ errors < MaxErrors
    /\ todo' = Tail(todo)
    /\ errors' = errors + 1
    /\ dirty' = TRUE
    /\ \/ UNCHANGED <<view, open>>
       \/ open /\ view' = disk /\ open' = FALSE
    /\ UNCHANGED <<running, mem, before, disk, past, had, stops>>

\* The process ends, killed or not, at any point.
Stop ==
    /\ running /\ stops < MaxStops
    /\ running' = FALSE
    /\ mem' = << >> /\ before' = << >> /\ todo' = << >>
    /\ open' = FALSE
    /\ stops' = stops + 1
    /\ UNCHANGED <<had, errors, dirty>>

\* What is committed stays.
Crash == Stop /\ view' = disk /\ UNCHANGED <<disk, past>>

\* synchronous=NORMAL: commits since the last checkpoint may be rolled back.
PowerFails == Stop /\ disk' \in past /\ view' = disk' /\ past' = {}

\* SQLite writes the WAL back to the database file.
Checkpoint ==
    /\ past # {}
    /\ past' = {}
    /\ UNCHANGED <<running, mem, before, todo, disk, view, open, had, stops, errors, dirty>>

\* Chains of the tree.
Paths == {c \in UNION {[1 .. n -> 0 .. Len(Tree)] : n \in 1 .. Len(Tree) + 1} : IsPath(Tree, c)}

Next ==
    \/ Start \/ StartClockBack
    \/ \E b \in DOMAIN Tree : Connect(b)
    \/ \E cand \in Paths : TryReplace(cand)
    \/ Execute \/ ExecuteFails
    \/ Crash \/ PowerFails \/ Checkpoint

Spec == Init /\ [][Next]_vars

---------------------------------------------------------------------------
(* Properties *)

\* Types; and outside a transaction the connection sees what is committed.
TypeOK ==
    /\ ~open => view = disk
    /\ running \in BOOLEAN /\ open \in BOOLEAN /\ dirty \in BOOLEAN
    /\ {mem, before} \subseteq Seq(Nat) /\ had \subseteq Seq(Nat)
    /\ \A db \in past \cup {disk, view} :
          /\ db.blocks \in [DOMAIN db.blocks -> Nat] /\ DOMAIN db.blocks \subseteq Nat
          /\ IsABag(db.txs)
    /\ stops \in Nat /\ errors \in Nat

\* A crash is atomic: wherever it strikes, the chain that loads is the one
\* before or the one after the operation under way, a reorganisation of any
\* depth included; never a shorter one, never a mixture.
CrashAtomic ==
    running /\ ~dirty => Loaded(disk) \in {before, mem}

\* "On reload the node detects the broken hash-link": whatever statements
\* were lost, crashes and power failures included, what loads is a prefix of
\* a chain that the node has had.
LoadsOwnHistory ==
    \A db \in past \cup {disk} :
        Loaded(db) # << >> => \E c \in had : IsPrefix(Loaded(db), c)

\* Between operations the blocks table is the chain, row for row, also after
\* earlier errors once the node has been started again.
TableIsChain ==
    running /\ todo = << >> /\ ~dirty =>
        disk.blocks = [h \in 0 .. Len(mem) - 1 |-> mem[h + 1]]

\* Between operations no row of txs belongs to a branch that was left, and
\* none is there twice.
NoStaleTxRow ==
    running /\ todo = << >> /\ errors = 0 =>
        \A r \in DOMAIN disk.txs :
            r[1] + 1 \in DOMAIN mem /\ mem[r[1] + 1] = r[3] /\ disk.txs[r] = 1

\* "The ledger is crash-safe and queryable with any SQLite client": between
\* operations the txs table has every transaction of the chain.
TxRowsComplete ==
    running /\ todo = << >> /\ errors = 0 =>
        \A h \in 1 .. Len(mem) - 1 : \A i \in 0 .. TxCount - 1 :
            BagIn(<<h, i, mem[h + 1]>>, disk.txs)

=============================================================================
