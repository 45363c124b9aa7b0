------------------------------- MODULE Mempool ------------------------------
(***************************************************************************)
(* class Mempool of src/core.h as operators on a pool [m, ids]: m maps a   *)
(* key <<sender, nonce>> to a transaction, ids is the set of pooled txids. *)
(***************************************************************************)
EXTENDS Ledger, FiniteSets

CONSTANTS
    MaxPool,      \* 10000: Mempool::add answers "mempool full"
    NonceWindow,  \* 16: how far ahead of the account a nonce may be
    MaxCollect    \* 1000: the default maxn of Mempool::collect

ASSUME PoolLimitsAssumption ==
    MaxPool \in Nat /\ NonceWindow \in Nat /\ MaxCollect \in Nat

\* What collect takes fits in a block with its coinbase (1000 of 5000).
ASSUME CollectAssumption == MaxCollect < MaxBlockTxs

EmptyPool == [m |-> << >>, ids |-> {}]
Key(t) == <<t.from, t.nonce>>

\* Mempool::add returns "".
CanAdd(pool, t, st) ==
    /\ t.type # "coinbase"
    /\ Cardinality(DOMAIN pool.m) < MaxPool
    /\ TxId(t) \notin pool.ids
    /\ WellFormed(t)
    /\ t.nonce \in st[t.from].nonce .. st[t.from].nonce + NonceWindow
    /\ t.type = "transfer" /\ t.nonce = st[t.from].nonce
          => st[t.from].balance >= t.amount
    /\ Key(t) \notin DOMAIN pool.m

Added(pool, t) ==
    [m   |-> [k \in DOMAIN pool.m \cup {Key(t)} |-> IF k = Key(t) THEN t ELSE pool.m[k]],
     ids |-> pool.ids \cup {TxId(t)}]

\* Mutants of Purged: off by one, either way; ids is not cleaned.
PurgedEager(pool, st) ==
    LET gone == {k \in DOMAIN pool.m : k[2] <= st[k[1]].nonce}
    IN  [m   |-> [k \in DOMAIN pool.m \ gone |-> pool.m[k]],
         ids |-> pool.ids \ {TxId(pool.m[k]) : k \in gone}]
PurgedLate(pool, st) ==
    LET gone == {k \in DOMAIN pool.m : k[2] + 1 < st[k[1]].nonce}
    IN  [m   |-> [k \in DOMAIN pool.m \ gone |-> pool.m[k]],
         ids |-> pool.ids \ {TxId(pool.m[k]) : k \in gone}]
PurgedKeepsIds(pool, st) ==
    LET gone == {k \in DOMAIN pool.m : k[2] < st[k[1]].nonce}
    IN  [m   |-> [k \in DOMAIN pool.m \ gone |-> pool.m[k]], ids |-> pool.ids]

\* Mempool::purge: drop what the chain has consumed.
Purged(pool, st) ==
    LET gone == {k \in DOMAIN pool.m : k[2] < st[k[1]].nonce}
    IN  [m   |-> [k \in DOMAIN pool.m \ gone |-> pool.m[k]],
         ids |-> pool.ids \ {TxId(pool.m[k]) : k \in gone}]

\* The order of std::map over keys.
KeyLess(j, k) == j[1] < k[1] \/ (j[1] = k[1] /\ j[2] < k[2])
LeastKey(K) == CHOOSE k \in K : \A j \in K \ {k} : KeyLess(k, j)

\* The keys whose transaction apply_tx accepts on st, not as first.
Applicable(pool, st, height) ==
    {k \in DOMAIN pool.m : TxOk(st, pool.m[k], height, FALSE)}

\* The next one Mempool::collect takes: the first applicable key after the
\* last one taken or else, in the next pass over the pool, the first at all.
NextKey(pool, s, height) ==
    LET K == Applicable(pool, s.st, height)
        later == {k \in K : KeyLess(s.last, k)}
    IN  LeastKey(IF later # {} THEN later ELSE K)

CollectStep(pool, s, height) ==
    IF Applicable(pool, s.st, height) = {} THEN s
    ELSE LET k == NextKey(pool, s, height)
         IN  [out  |-> Append(s.out, pool.m[k]),
              st   |-> AfterTx(s.st, pool.m[k]),
              last |-> k]

\* Mempool::collect: passes over the pool in key order, each taking what
\* applies to the copy, until a pass takes nothing or maxn are taken.
CollectLoop(pool, base, height) ==
    LET loop[i \in 0 .. MaxCollect] ==
            IF i = 0 THEN [out |-> << >>, st |-> base, last |-> <<-1, 0>>]
            ELSE CollectStep(pool, loop[i - 1], height)
    IN  loop

Collect(pool, base, height) == CollectLoop(pool, base, height)[MaxCollect].out

=============================================================================
