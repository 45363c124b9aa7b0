------------------------------ MODULE Queries -------------------------------
(***************************************************************************)
(* What clients of a node are told: the answers of handle_rpc in           *)
(* src/node_impl.h to /tx and /records, read under the same mutex as the   *)
(* actions of module Node, at any moment of a transaction's life: pending, *)
(* confirmed, overtaken by a conflicting one, or dropped with its branch.  *)
(***************************************************************************)
EXTENDS Node, SequencesExt

CONSTANT MaxFeed   \* 500: the largest limit of /records

ASSUME MaxFeedAssumption == MaxFeed \in Nat

---------------------------------------------------------------------------
(* GET /tx *)

TxStatus(t) ==
    CASE TxId(t) \in DOMAIN chain.txidx -> "confirmed"
      [] \E k \in DOMAIN pool.m : TxId(pool.m[k]) = TxId(t) -> "pending"
      [] OTHER -> "not found"

\* The confirmations that /tx reports of a confirmed transaction.
Confirmations(t) == Height(chain) - chain.txidx[TxId(t)][1] + 1

---------------------------------------------------------------------------
(* GET /records: the notes feed *)

\* A note of one of the senders asked for: all, or the one of addr=.
Wanted(t, senders) == t.type = "record" /\ t.from \in senders

\* Pending notes, in the order of the pool's map.
PendingNotes(senders) ==
    LET keys == SetToSortSeq({k \in DOMAIN pool.m : Wanted(pool.m[k], senders)}, KeyLess)
    IN  [i \in DOMAIN keys |-> [tx |-> pool.m[keys[i]], height |-> 0]]

\* Confirmed notes, from the tip down and from the last of a block to its first.
ConfirmedNotes(senders) ==
    LET notes(h) == LET ts == SelectSeq(chain.blocks[h].txs, LAMBDA t : Wanted(t, senders))
                    IN  [i \in DOMAIN ts |-> [tx |-> ts[i], height |-> h - 1]]
    IN  Reverse(FlattenSeq([h \in DOMAIN chain.blocks |-> notes(h)]))

\* Mutant of Records: the limit applies to pending and to confirmed notes
\* separately.
RecordsTwoLimits(limit, senders) ==
    LET most == IF limit = 0 \/ limit > MaxFeed THEN MaxFeed ELSE limit
        cut(s) == SubSeq(s, 1, IF Len(s) < most THEN Len(s) ELSE most)
    IN  cut(PendingNotes(senders)) \o cut(ConfirmedNotes(senders))

Records(limit, senders) ==
    LET most == IF limit = 0 \/ limit > MaxFeed THEN MaxFeed ELSE limit
        all == PendingNotes(senders) \o ConfirmedNotes(senders)
    IN  SubSeq(all, 1, IF Len(all) < most THEN Len(all) ELSE most)

---------------------------------------------------------------------------
(* Properties *)

\* "Tx not found (it may have been dropped in a reorg; resubmit)": a node
\* forgets a transaction it has reported only then.  A confirmed one is
\* dropped only by a chain that leaves its block out; a pending one only when
\* another transaction has consumed its nonce, whatever was reorganised.
LostOnlyInReorg ==
    [][\A t \in Wire :
          TxStatus(t)' = "not found" =>
              /\ TxStatus(t) = "confirmed" => ~IsPrefix(chain.blocks, chain'.blocks)
              /\ TxStatus(t) = "pending" => chain'.st[t.from].nonce > t.nonce]_vars

\* The notes feed never exceeds its limit, never shows a note twice, never one that /tx does not know
\* in the same state, and leaves one out only when the limit is reached.
FeedExact ==
    \A limit \in 0 .. MaxFeed + 1, senders \in {Addr} \cup {{a} : a \in Addr} :
        LET feed == Records(limit, senders)
            known == {pool.m[k] : k \in DOMAIN pool.m}
                     \cup UNION {Range(chain.blocks[h].txs) : h \in DOMAIN chain.blocks}
        IN  /\ Len(feed) <= MaxFeed /\ (limit > 0 => Len(feed) <= limit)
            /\ \A i, j \in DOMAIN feed : TxId(feed[i].tx) = TxId(feed[j].tx) => i = j
            /\ \A i \in DOMAIN feed :
                  IF feed[i].height = 0 THEN TxStatus(feed[i].tx) = "pending"
                  ELSE /\ TxStatus(feed[i].tx) = "confirmed"
                       /\ Confirmations(feed[i].tx) = Height(chain) - feed[i].height + 1
            /\ Len(feed) < MaxFeed /\ (limit > 0 => Len(feed) < limit) =>
                  {t \in known : Wanted(t, senders)} = {feed[i].tx : i \in DOMAIN feed}

=============================================================================
