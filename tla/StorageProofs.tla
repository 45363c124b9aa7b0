--------------------------- MODULE StorageProofs ----------------------------
(***************************************************************************)
(* The tables of a node, for any tree of blocks, any number of             *)
(* transactions in a block and of crashes, power failures, clocks set back *)
(* and failing statements.  Whatever was lost, a row is of a chain that    *)
(* the node has had, at its height there, so what loads is a prefix of     *)
(* that chain.  As long as no statement fails, what the statements yet to  *)
(* run make of the tables is known row by row, which gives that a crash is *)
(* atomic and that the tables are the chain between operations.            *)
(***************************************************************************)
EXTENDS Storage, Loops, SequenceTheorems, FiniteSetTheorems

---------------------------------------------------------------------------
(* Paths of the tree *)

\* The block at position i of a path has height i - 1.
LEMMA PathAt ==
    ASSUME NEW c \in Seq(Nat), IsPath(Tree, c), NEW k \in 1 .. Len(c)
    PROVE  HeightOf(Tree, c[k]) = k - 1 /\ c[k] \in Nat
<1>. DEFINE n == Len(c) - 1
            H == {i \in Nat : i <= n => HeightOf(Tree, c[i + 1]) = i}
<1>1. Len(c) \in Nat \ {0} /\ n \in Nat
  BY EmptySeq DEF IsPath
<1>2. 0 \in H
  BY <1>1 DEF IsPath, HeightOf
<1>3. ASSUME NEW i \in 1 .. n, i - 1 \in H PROVE i \in H
  <2>1. i + 1 \in 2 .. Len(c) /\ i \in Nat /\ i - 1 \in Nat /\ i - 1 <= n
    BY <1>1
  <2>2. ChildOf(Tree, c[i + 1], c[(i + 1) - 1])
    BY <2>1 DEF IsPath
  <2>3. HeightOf(Tree, c[i]) = i - 1
    BY <1>3, <2>1
  <2>4. Tree[c[i + 1]].height = i /\ c[i + 1] \in DOMAIN Tree
    BY <2>1, <2>2, <2>3 DEF ChildOf
  <2>5. c[i + 1] # 0
    BY <2>4, TreeAssumption
  <2>. QED BY <2>1, <2>4, <2>5 DEF HeightOf, Genesis
<1>. HIDE DEF H
<1>4. H \in SUBSET Nat
  BY DEF H
<1>5. 0 .. n \subseteq H
  BY <1>1, <1>2, <1>3, <1>4, UpTo
<1>6. k - 1 \in H
  BY <1>1, <1>5
<1>. QED BY <1>1, <1>6 DEF H

\* Two paths through the same block are the same up to it.
LEMMA PathUnique ==
    ASSUME NEW c \in Seq(Nat), IsPath(Tree, c), NEW d \in Seq(Nat), IsPath(Tree, d),
           NEW i \in Nat, i \in 1 .. Len(c), i \in 1 .. Len(d), c[i] = d[i]
    PROVE  \A k \in 1 .. i : c[k] = d[k]
<1>1. i \in 1 .. Len(c) /\ i \in 1 .. Len(d) /\ c[i] = d[i]
  OBVIOUS
<1>. DEFINE H == {m \in Nat : m <= i - 1 => c[i - m] = d[i - m]}
<1>2. 0 \in H
  BY <1>1
<1>3. ASSUME NEW m \in 1 .. i - 1, m - 1 \in H PROVE m \in H
  <2>1. c[i - (m - 1)] = d[i - (m - 1)] /\ i - (m - 1) \in 2 .. Len(c)
        /\ i - (m - 1) \in 2 .. Len(d)
    BY <1>1, <1>3
  <2>2. i - m = (i - (m - 1)) - 1
    OBVIOUS
  <2>3. Tree[c[i - (m - 1)]].parent = c[i - m] /\ Tree[d[i - (m - 1)]].parent = d[i - m]
    BY <2>1, <2>2 DEF IsPath, ChildOf
  <2>. QED BY <2>1, <2>3
<1>. HIDE DEF H
<1>4. H \in SUBSET Nat
  BY DEF H
<1>5. 0 .. i - 1 \subseteq H
  <2>. DEFINE n == i - 1
  <2>1. n \in Nat
    BY LenProperties
  <2>2. \A m \in 1 .. n : m - 1 \in H => m \in H
    BY <1>3
  <2>. HIDE DEF n
  <2>3. 0 .. n \subseteq H
    BY <1>2, <1>4, <2>1, <2>2, UpTo
  <2>. QED BY <2>3 DEF n
<1>6. ASSUME NEW k \in 1 .. i PROVE c[k] = d[k]
  <2>1. i \in Nat /\ k \in Nat /\ i - k \in 0 .. i - 1 /\ i - (i - k) = k
    BY LenProperties
  <2>2. i - k \in H
    BY <1>5, <2>1
  <2>. QED BY <2>1, <2>2 DEF H
<1>. QED BY <1>6

\* A path up to some block is one, and so is one with a child of its tip.
LEMMA PathPrefix ==
    ASSUME NEW c \in Seq(Nat), IsPath(Tree, c), NEW k \in 1 .. Len(c)
    PROVE  SubSeq(c, 1, k) \in Seq(Nat) /\ IsPath(Tree, SubSeq(c, 1, k))
<1>. DEFINE d == SubSeq(c, 1, k)
<1>1. d \in Seq(Nat) /\ Len(d) = k /\ \A i \in 1 .. k : d[i] = c[i]
  BY SubSeqProperties
<1>. HIDE DEF d
<1>2. d # << >>
  BY <1>1, EmptySeq
<1>3. ASSUME NEW i \in 2 .. Len(d) PROVE ChildOf(Tree, d[i], d[i - 1])
  <2>1. i \in 2 .. Len(c) /\ d[i] = c[i] /\ d[i - 1] = c[i - 1]
    BY <1>1, SMTT(30)
  <2>. QED BY <2>1 DEF IsPath
<1>4. d[1] = Genesis
  BY <1>1 DEF IsPath
<1>5. IsPath(Tree, d)
  BY <1>2, <1>3, <1>4 DEF IsPath
<1>. QED BY <1>1, <1>5 DEF d

LEMMA PathAppend ==
    ASSUME NEW c \in Seq(Nat), IsPath(Tree, c), NEW b \in Nat, ChildOf(Tree, b, Tip(c))
    PROVE  IsPath(Tree, Append(c, b))
<1>. DEFINE d == Append(c, b)
<1>1. /\ d \in Seq(Nat) /\ d # << >> /\ Len(d) = Len(c) + 1
      /\ d[Len(c) + 1] = b
      /\ \A i \in 1 .. Len(c) : d[i] = c[i]
  BY AppendProperties
<1>2. Len(c) \in Nat \ {0} /\ 1 \in 1 .. Len(c)
  BY EmptySeq DEF IsPath
<1>. HIDE DEF d
<1>3. ASSUME NEW i \in 2 .. Len(d) PROVE ChildOf(Tree, d[i], d[i - 1])
  <2>1. CASE i = Len(c) + 1
    BY <1>1, <1>2, <2>1 DEF Tip
  <2>2. CASE i # Len(c) + 1
    <3>1. i \in 2 .. Len(c) /\ i \in 1 .. Len(c) /\ i - 1 \in 1 .. Len(c)
      BY <1>1, <1>2, <2>2
    <3>2. d[i] = c[i] /\ d[i - 1] = c[i - 1]
      BY <1>1, <3>1
    <3>. QED BY <3>1, <3>2 DEF IsPath
  <2>. QED BY <2>1, <2>2
<1>4. d[1] = Genesis
  BY <1>1, <1>2 DEF IsPath
<1>. QED BY <1>1, <1>3, <1>4 DEF IsPath, d

---------------------------------------------------------------------------
(* Rows in the order of their heights *)

\* A finite set of naturals has a member with k others below it, for each k
\* there is room for.
LEMMA Ranks ==
    ASSUME NEW D \in SUBSET Nat, IsFiniteSet(D), NEW k \in 0 .. Cardinality(D) - 1
    PROVE  \E h \in D : Cardinality({g \in D : g < h}) = k
<1>. DEFINE below(h) == {g \in D : g < h}
            r == [h \in D |-> Cardinality(below(h))]
            n == Cardinality(D)
<1>1. n \in Nat /\ n > 0
  BY FS_CardinalityType
<1>2. ASSUME NEW h \in D PROVE r[h] \in 0 .. n - 1 /\ IsFiniteSet(below(h))
  <2>1. below(h) \in SUBSET (D \ {h}) /\ below(h) \in SUBSET D
    OBVIOUS
  <2>2. IsFiniteSet(D \ {h}) /\ Cardinality(D \ {h}) = n - 1
    BY FS_RemoveElement
  <2>3. IsFiniteSet(below(h)) /\ Cardinality(below(h)) <= n - 1 /\ Cardinality(below(h)) \in Nat
    BY <2>1, <2>2, FS_Subset, FS_CardinalityType
  <2>. QED BY <1>1, <2>3
<1>3. ASSUME NEW g \in D, NEW h \in D, g < h PROVE r[g] < r[h]
  <2>1. below(g) \in SUBSET (below(h) \ {g}) /\ g \in below(h)
    <3>1. ASSUME NEW x \in below(g) PROVE x \in below(h) /\ x # g
      BY <1>3
    <3>. QED BY <1>3, <3>1
  <2>2. IsFiniteSet(below(h)) /\ IsFiniteSet(below(g))
    BY <1>2
  <2>3. IsFiniteSet(below(h) \ {g}) /\ Cardinality(below(h) \ {g}) = Cardinality(below(h)) - 1
    BY <2>1, <2>2, FS_RemoveElement
  <2>4. Cardinality(below(g)) <= Cardinality(below(h)) - 1
    BY <2>1, <2>3, FS_Subset
  <2>5. r[g] \in Nat /\ r[h] \in Nat /\ r[g] = Cardinality(below(g)) /\ r[h] = Cardinality(below(h))
    BY <1>2
  <2>. QED BY <2>4, <2>5
<1>. HIDE DEF r, below
<1>4. r \in [D -> 0 .. n - 1]
  BY <1>2 DEF r
<1>5. ASSUME NEW g \in D, NEW h \in D, r[g] = r[h] PROVE g = h
  <2>1. g < h \/ g > h \/ g = h
    OBVIOUS
  <2>2. r[g] \in Nat /\ r[h] \in Nat
    BY <1>4
  <2>. QED BY <1>3, <1>5, <2>1, <2>2
<1>6. r \in Injection(D, 0 .. n - 1)
  BY <1>4, <1>5 DEF Injection, IsInjective
<1>7. IsFiniteSet(0 .. n - 1) /\ Cardinality(0 .. n - 1) = n
  BY <1>1, FS_Interval
<1>8. r \in Surjection(D, 0 .. n - 1)
  BY <1>6, <1>7, FS_Injection
<1>9. PICK h \in D : r[h] = k
  BY <1>8 DEF Surjection
<1>. QED BY <1>9 DEF r, below

---------------------------------------------------------------------------
(* Tables *)

Statement ==
    [op: {"begin", "commit", "ins_block", "ins_tx", "del_blocks", "del_txs"},
     height: Nat, block: Nat, idx: Nat]
BlockTable == UNION {[D -> Nat] : D \in {E \in SUBSET Nat : IsFiniteSet(E)}}
TxTable == UNION {[R -> Nat \ {0}] : R \in SUBSET (Nat \X Nat \X Nat)}
Tables == [blocks: BlockTable, txs: TxTable]

\* The blocks table of chain c, and the row at height h of a blocks table.
Table(c) == [h \in 0 .. Len(c) - 1 |-> c[h + 1]]
RowAt(f, h) == IF h \in DOMAIN f THEN {f[h]} ELSE {}

LEMMA TablesAre ==
    ASSUME NEW db \in Tables
    PROVE  /\ db.blocks \in [DOMAIN db.blocks -> Nat]
           /\ DOMAIN db.blocks \in SUBSET Nat /\ IsFiniteSet(DOMAIN db.blocks)
           /\ db.txs \in [DOMAIN db.txs -> Nat \ {0}]
           /\ DOMAIN db.txs \in SUBSET (Nat \X Nat \X Nat)
<1>1. db.blocks \in BlockTable /\ db.txs \in TxTable
  BY DEF Tables
<1>2. PICK D \in {E \in SUBSET Nat : IsFiniteSet(E)} : db.blocks \in [D -> Nat]
  BY <1>1 DEF BlockTable
<1>3. PICK R \in SUBSET (Nat \X Nat \X Nat) : db.txs \in [R -> Nat \ {0}]
  BY <1>1 DEF TxTable
<1>4. DOMAIN db.blocks = D /\ DOMAIN db.txs = R
  BY <1>2, <1>3
<1>. QED BY <1>2, <1>3, <1>4

LEMMA BlockTableIs ==
    ASSUME NEW f, NEW D \in SUBSET Nat, IsFiniteSet(D), f \in [D -> Nat]
    PROVE  f \in BlockTable
BY DEF BlockTable

LEMMA TableIs ==
    ASSUME NEW c \in Seq(Nat)
    PROVE  /\ Table(c) \in BlockTable
           /\ DOMAIN Table(c) = 0 .. Len(c) - 1
           /\ \A h \in 0 .. Len(c) - 1 : Table(c)[h] = c[h + 1]
<1>. DEFINE D == 0 .. Len(c) - 1
<1>1. Len(c) \in Nat /\ \A h \in D : c[h + 1] \in Nat
  BY LenProperties
<1>2. IsFiniteSet(D) /\ D \in SUBSET Nat
  BY <1>1, FS_Interval
<1>3. Table(c) \in [D -> Nat]
  BY <1>1 DEF Table
<1>4. Table(c) \in BlockTable
  BY <1>2, <1>3, BlockTableIs
<1>. QED BY <1>4 DEF Table

\* The rows in order: the i-th has i - 1 below it.
LEMMA RawsAre ==
    ASSUME NEW db \in Tables
    PROVE  /\ Raws(db) \in Seq(Nat)
           /\ Len(Raws(db)) = Cardinality(DOMAIN db.blocks)
           /\ \A i \in 1 .. Len(Raws(db)) :
                 \E h \in DOMAIN db.blocks :
                     /\ Raws(db)[i] = db.blocks[h]
                     /\ Cardinality({g \in DOMAIN db.blocks : g < h}) = i - 1
<1>. DEFINE D == DOMAIN db.blocks
            n == Cardinality(D)
            below(h) == {g \in D : g < h}
            at(i) == CHOOSE h \in D : Cardinality(below(h)) = i - 1
            raws == [i \in 1 .. n |-> db.blocks[at(i)]]
<1>1. D \in SUBSET Nat /\ IsFiniteSet(D) /\ db.blocks \in [D -> Nat] /\ n \in Nat
  BY TablesAre, FS_CardinalityType
<1>2. ASSUME NEW i \in 1 .. n PROVE at(i) \in D /\ Cardinality(below(at(i))) = i - 1
  <2>1. i - 1 \in 0 .. n - 1
    BY <1>1
  <2>2. \E h \in D : Cardinality(below(h)) = i - 1
    BY <1>1, <2>1, Ranks
  <2>. QED BY <2>2
<1>3. Raws(db) = raws
  BY DEF Raws
<1>. HIDE DEF at, below
<1>4. \A i \in 1 .. n : db.blocks[at(i)] \in Nat
  BY <1>1, <1>2
<1>5. raws \in [1 .. n -> Nat]
  BY <1>4
<1>6. raws \in Seq(Nat) /\ Len(raws) = n
  BY <1>1, <1>5
<1>7. ASSUME NEW i \in 1 .. n
      PROVE  \E h \in D : raws[i] = db.blocks[h] /\ Cardinality(below(h)) = i - 1
  BY <1>2
<1>8. \A i \in 1 .. Len(raws) :
         \E h \in D : raws[i] = db.blocks[h] /\ Cardinality({g \in D : g < h}) = i - 1
  BY <1>6, <1>7 DEF below
<1>. QED BY <1>3, <1>6, <1>8

\* What loads: the longest run of rows that connect.
LEMMA LoadedIs ==
    ASSUME NEW db \in Tables
    PROVE  \E k \in 0 .. Len(Raws(db)) :
              /\ Loaded(db) = SubSeq(Raws(db), 1, k)
              /\ Loaded(db) \in Seq(Nat) /\ Len(Loaded(db)) = k
              /\ \A i \in 1 .. k : Loaded(db)[i] = Raws(db)[i]
              /\ k = 0 \/ IsPath(Tree, SubSeq(Raws(db), 1, k))
              /\ k < Len(Raws(db)) => ~IsPath(Tree, SubSeq(Raws(db), 1, k + 1))
<1>. DEFINE raws == Raws(db)
            n == Len(raws)
            ok(k) == k = 0 \/ IsPath(Tree, SubSeq(raws, 1, k))
            stop(k) == ok(k) /\ (k < n => ~ok(k + 1))
            good == CHOOSE k \in 0 .. n : stop(k)
<1>1. raws \in Seq(Nat) /\ n \in Nat
  BY RawsAre, LenProperties
<1>2. \E k \in 0 .. n : stop(k)
  <2>. SUFFICES ASSUME \A k \in 0 .. n : ~stop(k) PROVE FALSE
    OBVIOUS
  <2>. DEFINE H == {k \in Nat : k <= n => ok(k)}
  <2>. HIDE DEF ok
  <2>1. 0 \in H
    BY DEF ok
  <2>2. ASSUME NEW k \in 1 .. n, k - 1 \in H PROVE k \in H
    <3>1. k - 1 \in 0 .. n /\ k - 1 < n /\ (k - 1) + 1 = k /\ k \in Nat
      BY <1>1
    <3>2. ok(k - 1)
      BY <2>2, <3>1
    <3>3. ~stop(k - 1)
      BY <3>1
    <3>. QED BY <3>1, <3>2, <3>3
  <2>. HIDE DEF H
  <2>3. H \in SUBSET Nat
    BY DEF H
  <2>4. 0 .. n \subseteq H
    BY <1>1, <2>1, <2>2, <2>3, UpTo
  <2>5. ok(n)
    BY <1>1, <2>4 DEF H
  <2>6. stop(n)
    BY <1>1, <2>5
  <2>. QED BY <1>1, <2>6
<1>3. good \in 0 .. n /\ stop(good)
  BY <1>2
<1>4. Loaded(db) = SubSeq(raws, 1, good)
  BY DEF Loaded
<1>. HIDE DEF good
<1>5. /\ SubSeq(raws, 1, good) \in Seq(Nat) /\ Len(SubSeq(raws, 1, good)) = good
      /\ \A i \in 1 .. good : SubSeq(raws, 1, good)[i] = raws[i]
  <2>1. good \in Int /\ \A i \in 1 .. good : raws[i] \in Nat
    BY <1>1, <1>3
  <2>. QED BY <1>1, <1>3, <2>1, SubSeqProperties
<1>6. good < n => good + 1 # 0
  BY <1>1, <1>3
<1>. HIDE DEF raws
<1>. QED BY <1>3, <1>4, <1>5, <1>6 DEF raws

\* The row at each height is a block of that height.
AtHeight(db) == \A h \in DOMAIN db.blocks : HeightOf(Tree, db.blocks[h]) = h

\* Then rows that connect are those of the heights 0, 1, ...
LEMMA LoadedRows ==
    ASSUME NEW db \in Tables, AtHeight(db), NEW k \in 1 .. Len(Raws(db)),
           IsPath(Tree, SubSeq(Raws(db), 1, k))
    PROVE  /\ \A i \in 1 .. k : i - 1 \in DOMAIN db.blocks /\ db.blocks[i - 1] = Raws(db)[i]
           /\ k = Len(Raws(db)) => DOMAIN db.blocks = 0 .. k - 1
<1>. DEFINE raws == Raws(db)
            D == DOMAIN db.blocks
            c == SubSeq(raws, 1, k)
<1>a. /\ raws \in Seq(Nat) /\ Len(raws) = Cardinality(D)
      /\ \A i \in 1 .. Len(raws) : \E h \in D : raws[i] = db.blocks[h]
  BY RawsAre
<1>1. /\ raws \in Seq(Nat) /\ Len(raws) \in Nat /\ k \in Nat
      /\ Len(raws) = Cardinality(D)
      /\ \A i \in 1 .. Len(raws) : \E h \in D : raws[i] = db.blocks[h]
  BY <1>a, LenProperties
<1>2. c \in Seq(Nat) /\ Len(c) = k /\ \A i \in 1 .. k : c[i] = raws[i]
  BY <1>1, SubSeqProperties
<1>. HIDE DEF c
<1>3. ASSUME NEW i \in 1 .. k PROVE i - 1 \in D /\ db.blocks[i - 1] = raws[i]
  <2>1. PICK h \in D : raws[i] = db.blocks[h]
    BY <1>1
  <2>2. HeightOf(Tree, c[i]) = i - 1
    BY <1>2, PathAt DEF c
  <2>3. HeightOf(Tree, db.blocks[h]) = h
    BY DEF AtHeight
  <2>. QED BY <1>2, <2>1, <2>2, <2>3
<1>4. ASSUME k = Len(raws) PROVE D = 0 .. k - 1
  <2>1. IsFiniteSet(D) /\ 0 .. k - 1 \in SUBSET D
    <3>1. IsFiniteSet(D)
      BY TablesAre
    <3>2. ASSUME NEW h \in 0 .. k - 1 PROVE h \in D
      <4>1. h + 1 \in 1 .. k /\ (h + 1) - 1 = h
        BY <1>1
      <4>. QED BY <1>3, <4>1
    <3>. QED BY <3>1, <3>2
  <2>2. Cardinality(0 .. k - 1) = k
    BY <1>1, FS_Interval
  <2>. QED BY <1>1, <1>4, <2>1, <2>2, FS_Subset
<1>. QED BY <1>3, <1>4

LEMMA UpToCardinality ==
    ASSUME NEW n \in Nat
    PROVE  Cardinality(0 .. n - 1) = n
<1>. DEFINE m == n - 1
<1>1. 0 \in Int /\ m \in Int /\ (IF 0 > m THEN 0 ELSE m - 0 + 1) = n
  OBVIOUS
<1>. HIDE DEF m
<1>2. Cardinality(0 .. m) = IF 0 > m THEN 0 ELSE m - 0 + 1
  BY <1>1, FS_Interval
<1>. QED BY <1>1, <1>2 DEF m

\* The table of a chain loads as that chain.
LEMMA TableLoads ==
    ASSUME NEW db \in Tables, NEW c \in Seq(Nat), c = << >> \/ IsPath(Tree, c),
           db.blocks = Table(c)
    PROVE  Raws(db) = c /\ Loaded(db) = c
<1>. DEFINE n == Len(c)
            D == DOMAIN db.blocks
            raws == Raws(db)
<1>1. n \in Nat /\ D = 0 .. n - 1 /\ \A h \in D : db.blocks[h] = c[h + 1]
  BY TableIs, LenProperties
<1>2. Cardinality(D) = n
  BY <1>1, UpToCardinality
<1>3. raws \in Seq(Nat) /\ Len(raws) = n
  BY <1>2, RawsAre
<1>4. ASSUME NEW i \in 1 .. n PROVE raws[i] = c[i]
  <2>1. PICK h \in D : raws[i] = db.blocks[h] /\ Cardinality({g \in D : g < h}) = i - 1
    BY <1>3, RawsAre
  <2>2. {g \in D : g < h} = 0 .. h - 1 /\ h \in Nat
    BY <1>1
  <2>3. Cardinality(0 .. h - 1) = h
    BY <2>2, UpToCardinality
  <2>4. h = i - 1
    BY <2>1, <2>2, <2>3
  <2>5. h + 1 = i /\ db.blocks[h] = c[h + 1]
    BY <1>1, <2>4
  <2>. QED BY <2>1, <2>5
<1>5. raws = c
  BY <1>3, <1>4, SeqEqual
<1>6. PICK k \in 0 .. n : /\ Loaded(db) = SubSeq(c, 1, k)
                          /\ k < n => ~IsPath(Tree, SubSeq(c, 1, k + 1))
  BY <1>3, <1>5, LoadedIs
<1>7. k = n
  <2>. SUFFICES ASSUME k < n PROVE FALSE
    BY <1>1
  <2>1. k + 1 \in 1 .. Len(c) /\ c # << >>
    BY <1>1, EmptySeq
  <2>. QED BY <1>6, <2>1, PathPrefix
<1>. QED BY <1>5, <1>6, <1>7, SubSeqFull

---------------------------------------------------------------------------
(* Statements *)

\* What each kind of statement makes of the tables.
LEMMA InsBlockEffect ==
    ASSUME NEW db \in Tables, NEW s \in Statement, s.op = "ins_block"
    PROVE  Effect(db, s) =
              [blocks |-> [h \in DOMAIN db.blocks \cup {s.height} |->
                              IF h = s.height THEN s.block ELSE db.blocks[h]],
               txs |-> db.txs]
BY DEF Effect, Tables

LEMMA InsTxEffect ==
    ASSUME NEW db \in Tables, NEW s \in Statement, s.op = "ins_tx"
    PROVE  Effect(db, s) = [blocks |-> db.blocks, txs |-> db.txs (+) SetToBag({TxRow(s)})]
BY DEF Effect, Tables

LEMMA DelBlocksEffect ==
    ASSUME NEW db \in Tables, NEW s \in Statement, s.op = "del_blocks"
    PROVE  Effect(db, s) =
              [blocks |-> [h \in {g \in DOMAIN db.blocks : g < s.height} |-> db.blocks[h]],
               txs |-> db.txs]
BY DEF Effect, Tables

LEMMA DelTxsEffect ==
    ASSUME NEW db \in Tables, NEW s \in Statement, s.op = "del_txs"
    PROVE  Effect(db, s) =
              [blocks |-> db.blocks,
               txs |-> [r \in {q \in DOMAIN db.txs : q[1] < s.height} |-> db.txs[r]]]
BY DEF Effect, Tables

LEMMA NoEffect ==
    ASSUME NEW db, NEW s \in Statement, s.op \in {"begin", "commit"}
    PROVE  Effect(db, s) = db
BY DEF Effect

\* One more row of txs.
LEMMA OneMoreRow ==
    ASSUME NEW txs \in TxTable, NEW r \in Nat \X Nat \X Nat
    PROVE  /\ txs (+) SetToBag({r}) \in TxTable
           /\ DOMAIN (txs (+) SetToBag({r})) = DOMAIN txs \cup {r}
           /\ \A q \in DOMAIN txs \cup {r} :
                 (txs (+) SetToBag({r}))[q] = (IF q \in DOMAIN txs THEN txs[q] ELSE 0)
                                              + (IF q = r THEN 1 ELSE 0)
<1>. DEFINE new == txs (+) SetToBag({r})
            D == DOMAIN txs \cup {r}
<1>1. PICK R \in SUBSET (Nat \X Nat \X Nat) : txs \in [R -> Nat \ {0}]
  BY DEF TxTable
<1>2. new = [q \in D |-> (IF q \in DOMAIN txs THEN txs[q] ELSE 0)
                         + (IF q \in {r} THEN 1 ELSE 0)]
  BY DEF SetToBag, (+)
<1>3. D \in SUBSET (Nat \X Nat \X Nat) /\ DOMAIN new = D
  BY <1>1, <1>2
<1>4. \A q \in D : new[q] = (IF q \in DOMAIN txs THEN txs[q] ELSE 0) + (IF q = r THEN 1 ELSE 0)
  BY <1>2
<1>5. \A q \in D : new[q] \in Nat \ {0}
  BY <1>1, <1>4
<1>6. new \in [D -> Nat \ {0}]
  BY <1>2, <1>3, <1>5
<1>. QED BY <1>3, <1>4, <1>6 DEF TxTable

LEMMA EffectType ==
    ASSUME NEW db \in Tables, NEW s \in Statement
    PROVE  Effect(db, s) \in Tables
<1>. DEFINE D == DOMAIN db.blocks
<1>1. /\ db.blocks \in [D -> Nat] /\ D \in SUBSET Nat /\ IsFiniteSet(D)
      /\ db.txs \in [DOMAIN db.txs -> Nat \ {0}] /\ DOMAIN db.txs \in SUBSET (Nat \X Nat \X Nat)
  BY TablesAre
<1>2. db.blocks \in BlockTable /\ db.txs \in TxTable
  BY DEF Tables
<1>3. s.height \in Nat /\ s.block \in Nat /\ s.idx \in Nat
  BY DEF Statement
<1>4. CASE s.op = "ins_block"
  <2>. DEFINE f == [h \in D \cup {s.height} |-> IF h = s.height THEN s.block ELSE db.blocks[h]]
  <2>1. f \in [D \cup {s.height} -> Nat] /\ D \cup {s.height} \in SUBSET Nat
    BY <1>1, <1>3
  <2>2. IsFiniteSet(D \cup {s.height})
    BY <1>1, FS_AddElement
  <2>3. f \in BlockTable
    BY <2>1, <2>2, BlockTableIs
  <2>4. Effect(db, s) = [blocks |-> f, txs |-> db.txs]
    BY <1>4, InsBlockEffect, Zenon
  <2>. HIDE DEF f
  <2>. QED BY <1>2, <2>3, <2>4 DEF Tables
<1>5. CASE s.op = "del_blocks"
  <2>. DEFINE E == {g \in D : g < s.height}
              f == [h \in E |-> db.blocks[h]]
  <2>1. f \in [E -> Nat] /\ E \in SUBSET Nat /\ E \in SUBSET D
    BY <1>1
  <2>2. IsFiniteSet(E)
    BY <1>1, <2>1, FS_Subset
  <2>3. f \in BlockTable
    BY <2>1, <2>2, BlockTableIs
  <2>4. Effect(db, s) = [blocks |-> f, txs |-> db.txs]
    BY <1>5, DelBlocksEffect, Zenon
  <2>. HIDE DEF f
  <2>. QED BY <1>2, <2>3, <2>4 DEF Tables
<1>6. CASE s.op = "ins_tx"
  <2>1. TxRow(s) \in Nat \X Nat \X Nat
    BY <1>3 DEF TxRow
  <2>. DEFINE f == db.txs (+) SetToBag({TxRow(s)})
  <2>2. f \in TxTable
    BY <1>2, <2>1, OneMoreRow
  <2>3. Effect(db, s) = [blocks |-> db.blocks, txs |-> f]
    BY <1>6, InsTxEffect
  <2>. HIDE DEF f
  <2>. QED BY <1>2, <2>2, <2>3 DEF Tables
<1>7. CASE s.op = "del_txs"
  <2>. DEFINE R == {q \in DOMAIN db.txs : q[1] < s.height}
              f == [r \in R |-> db.txs[r]]
  <2>1. f \in [R -> Nat \ {0}] /\ R \in SUBSET (Nat \X Nat \X Nat)
    BY <1>1
  <2>2. f \in TxTable
    BY <2>1 DEF TxTable
  <2>3. Effect(db, s) = [blocks |-> db.blocks, txs |-> f]
    BY <1>7, DelTxsEffect, Zenon
  <2>. HIDE DEF f
  <2>. QED BY <1>2, <2>2, <2>3 DEF Tables
<1>8. CASE s.op \in {"begin", "commit"}
  BY <1>8, NoEffect
<1>. QED BY <1>4, <1>5, <1>6, <1>7, <1>8 DEF Statement

\* Statement s writes or deletes the row at height h, and what is there then.
Touches(s, h) ==
    \/ s.op = "del_blocks" /\ h >= s.height
    \/ s.op = "ins_block" /\ h = s.height
RowAfter(s) == IF s.op = "ins_block" THEN {s.block} ELSE {}

LEMMA EffectRow ==
    ASSUME NEW db \in Tables, NEW s \in Statement, NEW h \in Nat
    PROVE  RowAt(Effect(db, s).blocks, h) =
              IF Touches(s, h) THEN RowAfter(s) ELSE RowAt(db.blocks, h)
<1>. DEFINE D == DOMAIN db.blocks
<1>1. D \in SUBSET Nat /\ s.height \in Nat
  BY TablesAre DEF Statement
<1>. DEFINE new == Effect(db, s).blocks
<1>2. CASE s.op = "ins_block"
  <2>1. new = [g \in D \cup {s.height} |-> IF g = s.height THEN s.block ELSE db.blocks[g]]
    BY <1>2, InsBlockEffect
  <2>. HIDE DEF new
  <2>2. RowAt(new, h) = IF h = s.height THEN {s.block} ELSE RowAt(db.blocks, h)
    BY <2>1 DEF RowAt
  <2>3. (Touches(s, h) <=> h = s.height) /\ RowAfter(s) = {s.block}
    BY <1>2 DEF Touches, RowAfter
  <2>. QED BY <2>2, <2>3 DEF new
<1>3. CASE s.op = "del_blocks"
  <2>1. new = [g \in {g \in D : g < s.height} |-> db.blocks[g]]
    BY <1>3, DelBlocksEffect
  <2>. HIDE DEF new
  <2>2. RowAt(new, h) = IF h >= s.height THEN {} ELSE RowAt(db.blocks, h)
    BY <1>1, <2>1 DEF RowAt
  <2>3. (Touches(s, h) <=> h >= s.height) /\ RowAfter(s) = {}
    BY <1>3 DEF Touches, RowAfter
  <2>. QED BY <2>2, <2>3 DEF new
<1>4. CASE s.op = "ins_tx"
  <2>. DEFINE f == db.txs (+) SetToBag({TxRow(s)})
  <2>a. Effect(db, s) = [blocks |-> db.blocks, txs |-> f]
    BY <1>4, InsTxEffect
  <2>. HIDE DEF f
  <2>1. new = db.blocks
    BY <2>a
  <2>2. ~Touches(s, h)
    BY <1>4 DEF Touches
  <2>. QED BY <2>1, <2>2
<1>5. CASE s.op = "del_txs"
  <2>. DEFINE f == [r \in {q \in DOMAIN db.txs : q[1] < s.height} |-> db.txs[r]]
  <2>a. Effect(db, s) = [blocks |-> db.blocks, txs |-> f]
    BY <1>5, DelTxsEffect, Zenon
  <2>. HIDE DEF f
  <2>1. new = db.blocks
    BY <2>a
  <2>2. ~Touches(s, h)
    BY <1>5 DEF Touches
  <2>. QED BY <2>1, <2>2
<1>6. CASE s.op \in {"begin", "commit"}
  BY <1>6, NoEffect DEF RowAt, Touches, RowAfter
<1>. QED BY <1>2, <1>3, <1>4, <1>5, <1>6 DEF Statement

\* Tables with the same row at every height are the same.
LEMMA SameRows ==
    ASSUME NEW f \in BlockTable, NEW g \in BlockTable, \A h \in Nat : RowAt(f, h) = RowAt(g, h)
    PROVE  f = g
<1>1. PICK D \in SUBSET Nat : f \in [D -> Nat]
  BY DEF BlockTable
<1>2. PICK E \in SUBSET Nat : g \in [E -> Nat]
  BY DEF BlockTable
<1>3. ASSUME NEW h \in Nat PROVE h \in D <=> h \in E
  BY <1>1, <1>2 DEF RowAt
<1>4. ASSUME NEW h \in D PROVE f[h] = g[h]
  <2>1. h \in Nat /\ h \in E
    BY <1>3
  <2>2. RowAt(f, h) = {f[h]} /\ RowAt(g, h) = {g[h]}
    BY <1>1, <1>2, <2>1 DEF RowAt
  <2>. QED BY <2>1, <2>2
<1>5. D = E
  BY <1>3, Zenon
<1>6. f \in [D -> Nat] /\ g \in [D -> Nat]
  BY <1>1, <1>2, <1>5
<1>7. f = [h \in D |-> f[h]] /\ g = [h \in D |-> g[h]]
  BY <1>6
<1>. QED BY <1>4, <1>7, Zenon

\* From position i on what is made of the row at h is `row'.
Makes(s, i, h, row) == \A j \in i .. Len(s) : Touches(s[j], h) => RowAfter(s[j]) = row

\* When the statements s have been run on the table f the row at h is `row'.
Settles(s, f, h, row) ==
    \/ RowAt(f, h) = row /\ Makes(s, 1, h, row)
    \/ \E i \in DOMAIN s : Touches(s[i], h) /\ Makes(s, i, h, row)

\* That stays so when the next of them is run.
LEMMA SettlesStep ==
    ASSUME NEW s \in Seq(Statement), s # << >>, NEW db \in Tables, NEW h \in Nat, NEW row,
           Settles(s, db.blocks, h, row)
    PROVE  Settles(Tail(s), Effect(db, Head(s)).blocks, h, row)
<1>. DEFINE t == Tail(s)
            new == Effect(db, Head(s)).blocks
<1>1. /\ Head(s) \in Statement /\ Head(s) = s[1] /\ t \in Seq(Statement)
      /\ Len(t) = Len(s) - 1 /\ Len(s) \in Nat \ {0} /\ Len(t) \in Nat
      /\ \A i \in 1 .. Len(t) : t[i] = s[i + 1]
      /\ DOMAIN s = 1 .. Len(s) /\ DOMAIN t = 1 .. Len(t)
  BY HeadTailProperties, EmptySeq, LenProperties
<1>2. RowAt(new, h) = IF Touches(s[1], h) THEN RowAfter(s[1]) ELSE RowAt(db.blocks, h)
  BY <1>1, EffectRow
<1>. HIDE DEF new, t
<1>3. ASSUME NEW i \in 1 .. Len(s), Makes(s, i, h, row), i > 1
      PROVE  Makes(t, i - 1, h, row)
  <2>1. ASSUME NEW j \in i - 1 .. Len(t), Touches(t[j], h) PROVE RowAfter(t[j]) = row
    <3>1. j + 1 \in i .. Len(s) /\ j \in 1 .. Len(t)
      BY <1>1, <1>3
    <3>2. t[j] = s[j + 1]
      BY <1>1, <3>1
    <3>. QED BY <1>3, <2>1, <3>1, <3>2 DEF Makes
  <2>. QED BY <2>1 DEF Makes
<1>4. ASSUME Makes(s, 1, h, row) PROVE Makes(t, 1, h, row)
  <2>1. ASSUME NEW j \in 1 .. Len(t), Touches(t[j], h) PROVE RowAfter(t[j]) = row
    <3>1. j + 1 \in 1 .. Len(s)
      BY <1>1
    <3>2. t[j] = s[j + 1]
      BY <1>1
    <3>. QED BY <1>4, <2>1, <3>1, <3>2 DEF Makes
  <2>. QED BY <2>1 DEF Makes
<1>5. 1 \in 1 .. Len(s)
  BY <1>1
<1>6. CASE RowAt(db.blocks, h) = row /\ Makes(s, 1, h, row)
  <2>1. RowAt(new, h) = row
    BY <1>2, <1>5, <1>6 DEF Makes
  <2>. QED BY <1>4, <1>6, <2>1 DEF Settles, t, new
<1>7. ASSUME NEW i \in DOMAIN s, Touches(s[i], h), Makes(s, i, h, row)
      PROVE  Settles(t, new, h, row)
  <2>1. CASE i = 1
    <3>1. RowAt(new, h) = row
      BY <1>2, <1>5, <1>7, <2>1 DEF Makes
    <3>. QED BY <1>4, <1>7, <2>1, <3>1 DEF Settles
  <2>2. CASE i # 1
    <3>1. i - 1 \in DOMAIN t /\ i \in 1 .. Len(s) /\ i > 1 /\ t[i - 1] = s[(i - 1) + 1]
          /\ (i - 1) + 1 = i
      BY <1>1, <2>2
    <3>2. Makes(t, i - 1, h, row)
      BY <1>3, <1>7, <3>1
    <3>3. Touches(t[i - 1], h)
      BY <1>7, <3>1
    <3>. QED BY <3>1, <3>2, <3>3 DEF Settles
  <2>. QED BY <2>1, <2>2
<1>. QED BY <1>6, <1>7 DEF Settles, t, new

---------------------------------------------------------------------------
(* The statements of the operations *)

LEMMA FlattenIs ==
    ASSUME NEW S, NEW q \in Seq(Seq(S))
    PROVE  \E g \in [0 .. Len(q) -> Seq(S)] :
              /\ g[0] = << >>
              /\ \A i \in 1 .. Len(q) : g[i] = g[i - 1] \o q[i]
              /\ FlattenSeq(q) = g[Len(q)]
<1>. DEFINE n == Len(q)
            T == Seq(S)
            f == [x \in T \X (1 .. n) |-> x[1] \o q[x[2]]]
            F(l) == [i \in 1 .. n |-> IF i = 1 THEN q[i] ELSE l[i - 1] \o q[i]]
            L == CHOOSE x : x = F(x)
<1>1. n \in Nat /\ << >> \in T /\ \A i \in 1 .. n : q[i] \in T
  BY LenProperties, EmptySeq
<1>2. ASSUME NEW x \in T \X (1 .. n) PROVE x[1] \o q[x[2]] \in T
  <2>1. x[1] \in T /\ q[x[2]] \in T
    BY <1>1
  <2>. QED BY <2>1, ConcatProperties
<1>3. f \in [T \X (1 .. n) -> T]
  BY <1>2
<1>4. FlattenSeq(q) = IF n = 0 THEN q ELSE L[n]
  BY Zenon DEF FlattenSeq
<1>. HIDE DEF T, f, L
<1>5. PICK g \in [0 .. n -> T] : IsLoop(g, << >>, n, f)
  BY <1>1, <1>3, LoopExists
<1>6. ASSUME NEW i \in 1 .. n PROVE g[i] = g[i - 1] \o q[i] /\ g[i - 1] \in T
  <2>1. i - 1 \in 0 .. n
    BY <1>1
  <2>2. <<g[i - 1], i>> \in T \X (1 .. n) /\ g[i - 1] \in T
    BY <2>1
  <2>3. g[i] = f[<<g[i - 1], i>>]
    BY <1>5 DEF IsLoop
  <2>4. f[<<g[i - 1], i>>] = g[i - 1] \o q[i]
    BY <2>2 DEF f
  <2>. QED BY <2>2, <2>3, <2>4
<1>7. g[0] = << >>
  BY <1>5 DEF IsLoop
<1>8. CASE n = 0
  <2>1. q = << >>
    BY <1>8, EmptySeq
  <2>. QED BY <1>4, <1>6, <1>7, <1>8, <2>1 DEF T
<1>9. CASE n # 0
  <2>. DEFINE h == [i \in 1 .. n |-> g[i]]
  <2>a. 1 \in 1 .. n /\ 1 - 1 = 0
    BY <1>1, <1>9
  <2>b. g[1] = << >> \o q[1] /\ q[1] \in T
    BY <1>1, <1>6, <1>7, <2>a
  <2>c. g[1] = q[1]
    BY <2>b, ConcatEmptySeq DEF T
  <2>1. ASSUME NEW i \in 1 .. n PROVE h[i] = F(h)[i]
    <3>1. CASE i = 1
      BY <2>c, <3>1
    <3>2. CASE i # 1
      <4>1. i - 1 \in 1 .. n
        BY <1>1, <3>2
      <4>. QED BY <1>6, <3>2, <4>1
    <3>. QED BY <3>1, <3>2
  <2>2. h = F(h)
    <3>1. h = [i \in 1 .. n |-> h[i]] /\ F(h) = [i \in 1 .. n |-> F(h)[i]]
      OBVIOUS
    <3>. HIDE DEF F, h
    <3>. QED BY <2>1, <3>1, Zenon
  <2>3. L = F(L)
    <3>1. \E x : x = F(x)
      BY <2>2, Zenon
    <3>. HIDE DEF F
    <3>. QED BY <3>1, Zenon DEF L
  <2>4. \A i \in 1 .. n : L[i] = IF i = 1 THEN q[i] ELSE L[i - 1] \o q[i]
    BY <2>3
  <2>. DEFINE H == {i \in Nat : i <= n /\ i # 0 => L[i] = g[i]}
  <2>5. 0 \in H
    OBVIOUS
  <2>6. ASSUME NEW i \in 1 .. n, i - 1 \in H PROVE i \in H
    <3>1. CASE i = 1
      BY <2>4, <2>c, <3>1
    <3>2. CASE i # 1
      <4>1. L[i - 1] = g[i - 1]
        BY <1>1, <2>6, <3>2
      <4>a. i \in Nat
        BY <1>1
      <4>2. L[i] = L[i - 1] \o q[i]
        BY <2>4, <3>2, Zenon
      <4>3. g[i] = g[i - 1] \o q[i]
        BY <1>6
      <4>. QED BY <4>1, <4>2, <4>3, <4>a, Zenon
    <3>. QED BY <3>1, <3>2
  <2>. HIDE DEF H
  <2>7. H \in SUBSET Nat
    BY DEF H
  <2>8. 0 .. n \subseteq H
    BY <1>1, <2>5, <2>6, <2>7, UpTo
  <2>9. n \in H
    BY <1>1, <2>8
  <2>10. L[n] = g[n]
    BY <1>9, <2>9 DEF H
  <2>. QED BY <1>4, <1>6, <1>7, <1>9, <2>10 DEF T
<1>. QED BY <1>8, <1>9

\* Statements whose fields are given one after the other.
LEMMA TwoFields ==
    ASSUME NEW o, NEW h, NEW b, NEW z
    PROVE  [[op |-> o, height |-> z, block |-> z, idx |-> z] EXCEPT !.height = h, !.block = b]
              = [op |-> o, height |-> h, block |-> b, idx |-> z]
<1>. DEFINE r == [op |-> o, height |-> z, block |-> z, idx |-> z]
<1>1. [r EXCEPT !.height = h, !.block = b] = [[r EXCEPT !.height = h] EXCEPT !.block = b]
  BY Zenon
<1>2. [r EXCEPT !.height = h] = [op |-> o, height |-> h, block |-> z, idx |-> z]
  OBVIOUS
<1>3. [[op |-> o, height |-> h, block |-> z, idx |-> z] EXCEPT !.block = b]
         = [op |-> o, height |-> h, block |-> b, idx |-> z]
  OBVIOUS
<1>. QED BY <1>1, <1>2, <1>3, Zenon

InsBlock(h, b) == [op |-> "ins_block", height |-> h, block |-> b, idx |-> 0]

\* db_insert: the row of the block, then those of its transactions.
LEMMA InsertIs ==
    ASSUME NEW h \in Nat, NEW b \in Nat
    PROVE  /\ DbInsert(h, b) \in Seq(Statement)
           /\ DbInsert(h, b) # << >> /\ Len(DbInsert(h, b)) \in Nat \ {0}
           /\ DbInsert(h, b)[1] = InsBlock(h, b)
           /\ b = Genesis => DbInsert(h, b) = <<InsBlock(h, b)>>
           /\ \A i \in 2 .. Len(DbInsert(h, b)) :
                 /\ DbInsert(h, b)[i].op = "ins_tx" /\ DbInsert(h, b)[i].height = h
                 /\ DbInsert(h, b)[i].block = b /\ DbInsert(h, b)[i].idx = i - 2
                 /\ b # Genesis
<1>. DEFINE n == IF b = Genesis THEN 0 ELSE TxCount
            one == <<[Stmt("ins_block") EXCEPT !.height = h, !.block = b]>>
            row(i) == [Stmt("ins_tx") EXCEPT !.height = h, !.block = b, !.idx = i - 1]
            rows == [i \in 1 .. n |-> row(i)]
            s == one \o rows
<1>1. n \in Nat
  BY StorageBoundsAssumption
<1>2. one = <<InsBlock(h, b)>> /\ InsBlock(h, b) \in Statement
  <2>1. one = <<InsBlock(h, b)>>
    BY TwoFields, Zenon DEF Stmt, InsBlock, Genesis
  <2>2. InsBlock(h, b) \in Statement
    BY DEF InsBlock, Statement
  <2>. QED BY <2>1, <2>2
<1>3. ASSUME NEW i \in 1 .. n
      PROVE  /\ row(i) = [op |-> "ins_tx", height |-> h, block |-> b, idx |-> i - 1]
             /\ row(i) \in Statement
  <2>1. row(i) = [op |-> "ins_tx", height |-> h, block |-> b, idx |-> i - 1]
    <3>. DEFINE j == i - 1
    <3>. HIDE DEF j
    <3>1. [Stmt("ins_tx") EXCEPT !.height = h, !.block = b, !.idx = j]
             = [[Stmt("ins_tx") EXCEPT !.height = h, !.block = b] EXCEPT !.idx = j]
      BY Zenon
    <3>2. [Stmt("ins_tx") EXCEPT !.height = h, !.block = b]
             = [op |-> "ins_tx", height |-> h, block |-> b, idx |-> 0]
      BY TwoFields, Zenon DEF Stmt, Genesis
    <3>3. [[op |-> "ins_tx", height |-> h, block |-> b, idx |-> 0] EXCEPT !.idx = j]
             = [op |-> "ins_tx", height |-> h, block |-> b, idx |-> j]
      OBVIOUS
    <3>. QED BY <3>1, <3>2, <3>3, Zenon DEF j
  <2>2. i - 1 \in Nat
    BY <1>1
  <2>. HIDE DEF row
  <2>. QED BY <2>1, <2>2 DEF Statement
<1>4. DbInsert(h, b) = s
  BY DEF DbInsert
<1>. HIDE DEF row, one, n
<1>5. rows \in Seq(Statement) /\ Len(rows) = n /\ \A i \in 1 .. n : rows[i] = row(i)
  BY <1>1, <1>3
<1>. HIDE DEF rows
<1>6. one \in Seq(Statement) /\ Len(one) = 1 /\ one[1] = InsBlock(h, b)
  BY <1>2
<1>7. /\ s \in Seq(Statement) /\ Len(s) = 1 + n
      /\ \A i \in 1 .. 1 + n : s[i] = IF i <= 1 THEN one[i] ELSE rows[i - 1]
  <2>1. /\ one \o rows \in Seq(Statement) /\ Len(one \o rows) = Len(one) + Len(rows)
        /\ \A i \in 1 .. Len(one) + Len(rows) :
              (one \o rows)[i] = IF i <= Len(one) THEN one[i] ELSE rows[i - Len(one)]
    BY <1>5, <1>6, ConcatProperties
  <2>. HIDE DEF s
  <2>. QED BY <1>5, <1>6, <2>1, Zenon DEF s
<1>. HIDE DEF s
<1>8. s[1] = InsBlock(h, b) /\ s # << >> /\ Len(s) \in Nat \ {0}
  BY <1>1, <1>6, <1>7, EmptySeq
<1>9. ASSUME NEW i \in 2 .. Len(s)
      PROVE  /\ s[i].op = "ins_tx" /\ s[i].height = h /\ s[i].block = b /\ s[i].idx = i - 2
             /\ b # Genesis
  <2>1. i \in 1 .. 1 + n /\ i - 1 \in 1 .. n /\ ~(i <= 1) /\ n # 0
    BY <1>1, <1>7
  <2>2. s[i] = row(i - 1)
    BY <1>5, <1>7, <2>1
  <2>3. s[i] = [op |-> "ins_tx", height |-> h, block |-> b, idx |-> (i - 1) - 1]
    BY <1>3, <2>1, <2>2
  <2>. QED BY <2>1, <2>3 DEF n
<1>10. ASSUME b = Genesis PROVE s = <<InsBlock(h, b)>>
  <2>1. Len(s) = 1
    BY <1>7, <1>10 DEF n
  <2>2. <<InsBlock(h, b)>> \in Seq(Statement) /\ Len(<<InsBlock(h, b)>>) = 1
    BY <1>2
  <2>3. \A i \in 1 .. 1 : s[i] = <<InsBlock(h, b)>>[i]
    BY <1>8
  <2>. QED BY <1>7, <2>1, <2>2, <2>3, SeqEqual
<1>. QED BY <1>4, <1>7, <1>8, <1>9, <1>10

\* The statements s insert the rows of c at the heights from lo to hi - 1.
Inserts(s, c, lo, hi) ==
    /\ s \in Seq(Statement)
    /\ \A i \in DOMAIN s :
          /\ s[i].op \in {"ins_block", "ins_tx"}
          /\ s[i].height \in lo .. hi - 1 /\ s[i].block = c[s[i].height + 1]
          /\ s[i].op = "ins_tx" => s[i].block # Genesis
    /\ \A h \in lo .. hi - 1 : \E i \in DOMAIN s : s[i] = InsBlock(h, c[h + 1])
    /\ \A i, j \in DOMAIN s :
          s[i].op = "ins_tx" /\ s[j].op = "ins_tx" /\ TxRow(s[i]) = TxRow(s[j]) => i = j

LEMMA InsertsMore ==
    ASSUME NEW c \in Seq(Nat), NEW lo \in Nat, NEW hi \in Nat, lo <= hi, hi < Len(c),
           NEW s, Inserts(s, c, lo, hi)
    PROVE  Inserts(s \o DbInsert(hi, c[hi + 1]), c, lo, hi + 1)
<1>. DEFINE b == c[hi + 1]
            t == DbInsert(hi, b)
            u == s \o t
            m == Len(s)
<1>1. b \in Nat
  BY LenProperties
<1>2. /\ t \in Seq(Statement) /\ t # << >> /\ Len(t) \in Nat \ {0} /\ t[1] = InsBlock(hi, b)
      /\ \A i \in 2 .. Len(t) : /\ t[i].op = "ins_tx" /\ t[i].height = hi
                                /\ t[i].block = b /\ t[i].idx = i - 2
                                /\ b # Genesis
  BY <1>1, InsertIs
<1>. HIDE DEF t, b
<1>3. s \in Seq(Statement) /\ m \in Nat /\ DOMAIN s = 1 .. m
  BY LenProperties DEF Inserts
<1>4. /\ u \in Seq(Statement) /\ Len(u) = m + Len(t) /\ DOMAIN u = 1 .. m + Len(t)
      /\ \A i \in 1 .. m + Len(t) : u[i] = IF i <= m THEN s[i] ELSE t[i - m]
  BY <1>2, <1>3, ConcatProperties, LenProperties
<1>. HIDE DEF u, m
<1>5. InsBlock(hi, b).op = "ins_block" /\ InsBlock(hi, b).height = hi /\ InsBlock(hi, b).block = b
  BY DEF InsBlock
<1>6. ASSUME NEW i \in DOMAIN u, i <= m PROVE u[i] = s[i] /\ i \in DOMAIN s
  BY <1>2, <1>3, <1>4, <1>6
<1>7. ASSUME NEW i \in DOMAIN u, i > m
      PROVE  /\ u[i] = t[i - m] /\ i - m \in 1 .. Len(t)
             /\ u[i].op \in {"ins_block", "ins_tx"} /\ u[i].height = hi /\ u[i].block = b
             /\ u[i].op = "ins_tx" => b # Genesis /\ i - m \in 2 .. Len(t) /\ u[i].idx = i - m - 2
  <2>1. u[i] = t[i - m] /\ i - m \in 1 .. Len(t)
    BY <1>2, <1>3, <1>4, <1>7
  <2>2. i - m = 1 \/ i - m \in 2 .. Len(t)
    BY <2>1, <1>2
  <2>. QED BY <1>2, <1>5, <2>1, <2>2
<1>8. ASSUME NEW i \in DOMAIN u
      PROVE  /\ u[i].op \in {"ins_block", "ins_tx"}
             /\ u[i].height \in lo .. hi /\ u[i].block = c[u[i].height + 1]
             /\ u[i].op = "ins_tx" => u[i].block # Genesis
  <2>1. CASE i <= m
    BY <1>6, <2>1, SMTT(30) DEF Inserts
  <2>2. CASE i > m
    BY <1>7, <2>2 DEF b
  <2>. QED BY <1>3, <1>4, <2>1, <2>2
<1>9. ASSUME NEW h \in lo .. hi PROVE \E i \in DOMAIN u : u[i] = InsBlock(h, c[h + 1])
  <2>1. CASE h = hi
    <3>1. m + 1 \in DOMAIN u /\ u[m + 1] = t[(m + 1) - m] /\ (m + 1) - m = 1
      BY <1>2, <1>3, <1>4
    <3>. QED BY <1>2, <2>1, <3>1 DEF b
  <2>2. CASE h # hi
    <3>1. h \in lo .. hi - 1
      BY <2>2
    <3>2. PICK i \in DOMAIN s : s[i] = InsBlock(h, c[h + 1])
      BY <3>1 DEF Inserts
    <3>3. i \in DOMAIN u /\ u[i] = s[i]
      BY <1>2, <1>3, <1>4
    <3>. QED BY <3>2, <3>3
  <2>. QED BY <2>1, <2>2
<1>10. ASSUME NEW i \in DOMAIN u, NEW j \in DOMAIN u,
              u[i].op = "ins_tx", u[j].op = "ins_tx", TxRow(u[i]) = TxRow(u[j])
       PROVE  i = j
  <2>1. u[i].height = u[j].height /\ u[i].idx = u[j].idx
    BY <1>10 DEF TxRow
  <2>2. i \in Nat /\ j \in Nat
    BY <1>4
  <2>3. CASE i <= m /\ j <= m
    BY <1>6, <1>10, <2>3 DEF Inserts
  <2>4. CASE i <= m /\ j > m
    <3>1. u[i].height \in lo .. hi - 1
      BY <1>6, <2>4 DEF Inserts
    <3>2. u[j].height = hi
      BY <1>7, <2>4
    <3>. QED BY <2>1, <3>1, <3>2
  <2>5. CASE i > m /\ j <= m
    <3>1. u[j].height \in lo .. hi - 1
      BY <1>6, <2>5 DEF Inserts
    <3>2. u[i].height = hi
      BY <1>7, <2>5
    <3>. QED BY <2>1, <3>1, <3>2
  <2>6. CASE i > m /\ j > m
    <3>1. u[i].idx = i - m - 2 /\ u[j].idx = j - m - 2 /\ i - m \in Int /\ j - m \in Int
      BY <1>3, <1>7, <1>10, <2>2, <2>6
    <3>2. i - m - 2 = j - m - 2
      BY <2>1, <3>1
    <3>. QED BY <1>3, <2>2, <3>2
  <2>. QED BY <1>3, <2>2, <2>3, <2>4, <2>5, <2>6
<1>11. (hi + 1) - 1 = hi
  OBVIOUS
<1>. QED BY <1>4, <1>8, <1>9, <1>10, <1>11 DEF Inserts, u, t, b

\* The rows of c from height h on.
LEMMA InsertFromIs ==
    ASSUME NEW c \in Seq(Nat), NEW h \in 0 .. Len(c)
    PROVE  Inserts(InsertFrom(c, h), c, h, Len(c))
<1>. DEFINE n == Len(c) - h
            q == [i \in 1 .. n |-> DbInsert(h + i - 1, c[h + i])]
<1>1. n \in Nat /\ h \in Nat /\ Len(c) \in Nat /\ Len(c) = h + n
  BY LenProperties
<1>2. ASSUME NEW i \in 1 .. n PROVE DbInsert(h + i - 1, c[h + i]) \in Seq(Statement)
  <2>1. h + i - 1 \in Nat /\ c[h + i] \in Nat
    BY <1>1
  <2>. QED BY <2>1, InsertIs
<1>3. q \in Seq(Seq(Statement)) /\ Len(q) = n
  BY <1>1, <1>2
<1>4. InsertFrom(c, h) = FlattenSeq(q)
  BY DEF InsertFrom
<1>5. \A i \in 1 .. n : q[i] = DbInsert(h + i - 1, c[h + i])
  OBVIOUS
<1>. HIDE DEF q, n
<1>6. PICK g \in [0 .. n -> Seq(Statement)] :
         /\ g[0] = << >>
         /\ \A i \in 1 .. n : g[i] = g[i - 1] \o q[i]
         /\ FlattenSeq(q) = g[n]
  BY <1>3, FlattenIs
<1>. DEFINE K == {k \in Nat : k <= n => Inserts(g[k], c, h, h + k)}
<1>7. 0 \in K
  <2>1. << >> \in Seq(Statement) /\ DOMAIN << >> = {}
    BY EmptySeq, LenProperties
  <2>2. h + 0 = h /\ h .. h - 1 = {}
    BY <1>1
  <2>3. Inserts(<< >>, c, h, h)
    BY <2>1, <2>2 DEF Inserts
  <2>. QED BY <1>6, <2>2, <2>3
<1>8. ASSUME NEW k \in 1 .. n, k - 1 \in K PROVE k \in K
  <2>. DEFINE hi == h + (k - 1)
  <2>1. k - 1 <= n /\ k \in Nat /\ hi \in Nat /\ h <= hi /\ hi < Len(c)
        /\ hi = h + k - 1 /\ hi + 1 = h + k
    BY <1>1
  <2>2. Inserts(g[k - 1], c, h, hi)
    BY <1>8, <2>1
  <2>3. g[k] = g[k - 1] \o DbInsert(hi, c[hi + 1])
    BY <1>5, <1>6, <2>1
  <2>. HIDE DEF hi
  <2>4. Inserts(g[k - 1] \o DbInsert(hi, c[hi + 1]), c, h, hi + 1)
    BY <1>1, <2>1, <2>2, InsertsMore
  <2>. QED BY <2>1, <2>3, <2>4
<1>. HIDE DEF K
<1>9. K \in SUBSET Nat
  BY DEF K
<1>10. 0 .. n \subseteq K
  BY <1>1, <1>7, <1>8, <1>9, UpTo
<1>11. n \in K
  BY <1>1, <1>10
<1>. QED BY <1>1, <1>4, <1>6, <1>11 DEF K

\* The common prefix.
LEMMA ForkIs ==
    ASSUME NEW c \in Seq(Nat), NEW d \in Seq(Nat)
    PROVE  /\ Fork(c, d) \in 0 .. Len(c) /\ Fork(c, d) <= Len(d)
           /\ \A i \in 1 .. Fork(c, d) : c[i] = d[i]
<1>. DEFINE n == Len(c)
            same(k) == k <= Len(d) /\ SubSeq(c, 1, k) = SubSeq(d, 1, k)
            stop(k) == /\ k <= Len(d) /\ SubSeq(c, 1, k) = SubSeq(d, 1, k)
                       /\ k < Len(c) /\ k < Len(d) => c[k + 1] # d[k + 1]
            F == CHOOSE k \in 0 .. n : stop(k)
<1>1. n \in Nat /\ Len(d) \in Nat
  BY LenProperties
<1>2. \E k \in 0 .. n : stop(k)
  <2>. SUFFICES ASSUME \A k \in 0 .. n : ~stop(k) PROVE FALSE
    OBVIOUS
  <2>. DEFINE H == {k \in Nat : k <= n => same(k)}
  <2>1. 0 \in H
    <3>1. SubSeq(c, 1, 0) = << >> /\ SubSeq(d, 1, 0) = << >>
      BY SubSeqEmpty
    <3>. QED BY <1>1, <3>1
  <2>2. ASSUME NEW k \in 1 .. n, k - 1 \in H PROVE k \in H
    <3>1. k - 1 \in 0 .. n /\ k - 1 < n /\ (k - 1) + 1 = k /\ k \in Nat
      BY <1>1
    <3>a. ~stop(k - 1)
      <4>. HIDE DEF stop
      <4>. QED BY <3>1
    <3>b. same(k - 1)
      <4>. HIDE DEF same
      <4>. QED BY <2>2, <3>1
    <3>2. same(k - 1) /\ ~stop(k - 1)
      BY <3>a, <3>b, Zenon
    <3>3. k - 1 < Len(d) /\ c[k] = d[k]
      BY <3>1, <3>2
    <3>4. k <= Len(d) /\ k \in 1 .. Len(d) /\ k \in 1 .. Len(c)
      BY <1>1, <3>1, <3>3
    <3>5. SubSeq(c, 1, k) = SubSeq(c, 1, k - 1) \o <<c[k]>>
      <4>1. 1 \in 1 .. Len(c) /\ k \in 1 .. Len(c)
        BY <3>4
      <4>. QED BY <4>1, SubSeqRecursiveSecond
    <3>6. SubSeq(d, 1, k) = SubSeq(d, 1, k - 1) \o <<d[k]>>
      <4>1. 1 \in 1 .. Len(d) /\ k \in 1 .. Len(d)
        BY <3>4
      <4>. QED BY <4>1, SubSeqRecursiveSecond
    <3>7. SubSeq(c, 1, k) = SubSeq(d, 1, k)
      BY <3>2, <3>3, <3>5, <3>6, Zenon
    <3>. QED BY <3>1, <3>4, <3>7
  <2>. HIDE DEF H
  <2>3. H \in SUBSET Nat
    BY DEF H
  <2>4. 0 .. n \subseteq H
    BY <1>1, <2>1, <2>2, <2>3, UpTo
  <2>5. same(n)
    BY <1>1, <2>4 DEF H
  <2>6. ~(n < Len(c))
    BY <1>1
  <2>7. stop(n)
    BY <2>5, <2>6, Zenon
  <2>8. n \in 0 .. n
    BY <1>1
  <2>. HIDE DEF stop
  <2>. QED BY <2>7, <2>8
<1>3. F \in 0 .. n /\ stop(F)
  <2>. HIDE DEF stop
  <2>. QED BY <1>2, Zenon
<1>4. Fork(c, d) = F
  BY Zenon DEF Fork
<1>. HIDE DEF F
<1>5. ASSUME NEW i \in 1 .. F PROVE c[i] = d[i]
  <2>1. F \in Int /\ i \in 1 .. F - 1 + 1 /\ 1 + i - 1 = i
    BY <1>1, <1>3
  <2>2. SubSeq(c, 1, F)[i] = c[1 + i - 1]
    <3>1. \A j \in 1 .. F : c[j] \in Nat
      BY <1>1, <1>3
    <3>. QED BY <2>1, <3>1, SubSeqProperties
  <2>3. SubSeq(d, 1, F)[i] = d[1 + i - 1]
    <3>1. \A j \in 1 .. F : d[j] \in Nat
      BY <1>1, <1>3
    <3>. QED BY <2>1, <3>1, SubSeqProperties
  <2>. QED BY <1>3, <2>1, <2>2, <2>3
<1>. QED BY <1>3, <1>4, <1>5

\* A transaction that truncates the tables at height f and runs s.
Txn(f, s) == <<Begin>> \o DbTruncate(f) \o s \o <<Commit>>

IsTxn(t, f, s) ==
    /\ t \in Seq(Statement) /\ t # << >>
    /\ Len(s) \in Nat /\ Len(t) = Len(s) + 4
    /\ DOMAIN t = 1 .. Len(s) + 4 /\ DOMAIN s = 1 .. Len(s)
    /\ t[1].op = "begin"
    /\ t[2].op = "del_blocks" /\ t[2].height = f
    /\ t[3].op = "del_txs" /\ t[3].height = f
    /\ \A i \in 4 .. Len(s) + 3 : t[i] = s[i - 3]
    /\ t[Len(s) + 4].op = "commit"

LEMMA TxnIs ==
    ASSUME NEW f \in Nat, NEW s \in Seq(Statement)
    PROVE  /\ IsTxn(Txn(f, s), f, s)
           /\ <<Begin>> \o DbTruncate(f) \o <<Commit>> = Txn(f, << >>)
<1>. DEFINE n == Len(s)
            b == <<Begin>>
            d == [Stmt("del_blocks") EXCEPT !.height = f]
            e == [Stmt("del_txs") EXCEPT !.height = f]
            t == <<d, e>>
            p == b \o t
            q == p \o s
            z == <<Commit>>
<1>1. /\ Begin \in Statement /\ Begin.op = "begin"
      /\ Commit \in Statement /\ Commit.op = "commit"
  BY DEF Begin, Commit, Stmt, Genesis, Statement
<1>2. d = [op |-> "del_blocks", height |-> f, block |-> 0, idx |-> 0]
  BY DEF Stmt, Genesis
<1>3. e = [op |-> "del_txs", height |-> f, block |-> 0, idx |-> 0]
  BY DEF Stmt, Genesis
<1>. HIDE DEF d, e
<1>4. d \in Statement /\ d.op = "del_blocks" /\ d.height = f
  BY <1>2 DEF Statement
<1>5. e \in Statement /\ e.op = "del_txs" /\ e.height = f
  BY <1>3 DEF Statement
<1>6. Txn(f, s) = q \o z /\ <<Begin>> \o DbTruncate(f) \o <<Commit>> = p \o z
      /\ Txn(f, << >>) = (p \o << >>) \o z
  BY Zenon DEF Txn, DbTruncate, d, e
<1>7. /\ b \in Seq(Statement) /\ Len(b) = 1 /\ b[1] = Begin
      /\ t \in Seq(Statement) /\ Len(t) = 2 /\ t[1] = d /\ t[2] = e
      /\ z \in Seq(Statement) /\ Len(z) = 1 /\ z[1] = Commit
  BY <1>1, <1>4, <1>5
<1>. HIDE DEF b, t, z
<1>8. /\ p \in Seq(Statement) /\ Len(p) = Len(b) + Len(t)
      /\ \A i \in 1 .. Len(b) + Len(t) : p[i] = IF i <= Len(b) THEN b[i] ELSE t[i - Len(b)]
  BY <1>7, ConcatProperties
<1>. HIDE DEF p
<1>9. Len(p) = 3 /\ p[1] = Begin /\ p[2] = d /\ p[3] = e
  <2>1. Len(p) = 3 /\ p[1] = b[1] /\ p[2] = t[2 - 1] /\ p[3] = t[3 - 1]
    BY <1>7, <1>8
  <2>2. 2 - 1 = 1 /\ 3 - 1 = 2
    OBVIOUS
  <2>. QED BY <1>7, <2>1, <2>2
<1>10. p \o << >> = p /\ << >> \in Seq(Statement)
  BY <1>8, ConcatEmptySeq, EmptySeq
<1>11. /\ q \in Seq(Statement) /\ Len(q) = Len(p) + n
       /\ \A i \in 1 .. Len(p) + n : q[i] = IF i <= Len(p) THEN p[i] ELSE s[i - Len(p)]
  <2>1. p \in Seq(Statement)
    BY <1>8
  <2>2. /\ p \o s \in Seq(Statement) /\ Len(p \o s) = Len(p) + Len(s)
        /\ \A i \in 1 .. Len(p) + Len(s) :
              (p \o s)[i] = IF i <= Len(p) THEN p[i] ELSE s[i - Len(p)]
    BY <2>1, ConcatProperties
  <2>. QED BY <2>2, Zenon
<1>12. n \in Nat
  BY LenProperties
<1>. HIDE DEF q, n
<1>13. Len(q) = n + 3 /\ q[1] = Begin /\ q[2] = d /\ q[3] = e
  BY <1>9, <1>11, <1>12
<1>14. ASSUME NEW i \in 4 .. n + 3 PROVE q[i] = s[i - 3]
  BY <1>9, <1>11, <1>12
<1>15. /\ q \o z \in Seq(Statement) /\ Len(q \o z) = Len(q) + Len(z)
       /\ \A i \in 1 .. Len(q) + Len(z) :
             (q \o z)[i] = IF i <= Len(q) THEN q[i] ELSE z[i - Len(q)]
  <2>1. q \in Seq(Statement) /\ z \in Seq(Statement)
    BY <1>7, <1>11
  <2>. QED BY <2>1, ConcatProperties
<1>. DEFINE u == q \o z
<1>. HIDE DEF u
<1>16. /\ u \in Seq(Statement) /\ Len(u) = n + 4
       /\ \A i \in 1 .. n + 3 : u[i] = q[i]
       /\ u[n + 4] = Commit
  <2>1. u \in Seq(Statement) /\ Len(u) = n + 4
    BY <1>7, <1>12, <1>13, <1>15 DEF u
  <2>2. \A i \in 1 .. n + 3 : u[i] = q[i]
    BY <1>7, <1>12, <1>13, <1>15 DEF u
  <2>3. u[n + 4] = z[(n + 4) - (n + 3)]
    <3>1. n + 4 \in 1 .. Len(q) + Len(z) /\ ~(n + 4 <= Len(q)) /\ Len(q) = n + 3
      BY <1>7, <1>12, <1>13
    <3>. QED BY <1>15, <3>1 DEF u
  <2>4. (n + 4) - (n + 3) = 1
    BY <1>12
  <2>. QED BY <1>7, <2>1, <2>2, <2>3, <2>4
<1>17. u[1] = Begin /\ u[2] = d /\ u[3] = e /\ \A i \in 4 .. n + 3 : u[i] = s[i - 3]
  BY <1>12, <1>13, <1>14, <1>16
<1>18. u # << >>
  BY <1>12, <1>16, EmptySeq
<1>19. u = Txn(f, s) /\ <<Begin>> \o DbTruncate(f) \o <<Commit>> = Txn(f, << >>)
  BY <1>6, <1>10, Zenon DEF u
<1>20. DOMAIN u = 1 .. n + 4 /\ DOMAIN s = 1 .. n
  BY <1>16, LenProperties DEF n
<1>21. /\ u[1].op = "begin" /\ u[2].op = "del_blocks" /\ u[2].height = f
       /\ u[3].op = "del_txs" /\ u[3].height = f /\ u[n + 4].op = "commit"
  BY <1>1, <1>4, <1>5, <1>16, <1>17
<1>22. IsTxn(u, f, s)
  BY <1>12, <1>16, <1>17, <1>18, <1>20, <1>21 DEF n, IsTxn
<1>. QED BY <1>19, <1>22

---------------------------------------------------------------------------
(* A transaction, row by row *)

\* The statements s are a transaction, perhaps under way (o), which makes the
\* blocks table f that of c.
TxnTo(s, o, f, c) ==
    /\ s # << >> /\ s[Len(s)].op = "commit"
    /\ \A i \in 1 .. Len(s) - 1 : s[i].op # "commit"
    /\ \A i \in 2 .. Len(s) : s[i].op # "begin"
    /\ o <=> s[1].op # "begin"
    /\ \A h \in Nat : Settles(s, f, h, RowAt(Table(c), h))

\* One that truncates at f and inserts the rows of c from there does.
LEMMA TxnStarts ==
    ASSUME NEW c \in Seq(Nat), NEW f \in 0 .. Len(c), NEW s, Inserts(s, c, f, Len(c)),
           NEW g, \A h \in 0 .. f - 1 : RowAt(g, h) = RowAt(Table(c), h)
    PROVE  TxnTo(Txn(f, s), FALSE, g, c)
<1>. DEFINE t == Txn(f, s)
            n == Len(s)
<1>1. f \in Nat /\ s \in Seq(Statement) /\ Len(c) \in Nat /\ DOMAIN s = 1 .. n
  BY LenProperties DEF Inserts
<1>2. /\ t # << >> /\ n \in Nat /\ Len(t) = n + 4 /\ t \in Seq(Statement)
      /\ t[1].op = "begin"
      /\ t[2].op = "del_blocks" /\ t[2].height = f
      /\ t[3].op = "del_txs"
      /\ \A i \in 4 .. n + 3 : t[i] = s[i - 3]
      /\ t[n + 4].op = "commit"
  <2>1. IsTxn(t, f, s)
    BY <1>1, TxnIs
  <2>. HIDE DEF t
  <2>. QED BY <2>1 DEF IsTxn
<1>. HIDE DEF t, n
<1>3. DOMAIN t = 1 .. n + 4
  BY <1>2, LenProperties
<1>4. ASSUME NEW i \in 4 .. n + 3
      PROVE  /\ i - 3 \in DOMAIN s /\ t[i] = s[i - 3]
             /\ t[i].op \in {"ins_block", "ins_tx"}
             /\ t[i].height \in f .. Len(c) - 1 /\ t[i].block = c[t[i].height + 1]
  <2>1. i - 3 \in DOMAIN s /\ t[i] = s[i - 3]
    BY <1>1, <1>2
  <2>. QED BY <2>1 DEF Inserts
<1>5. ASSUME NEW i \in 1 .. Len(t) PROVE i \in {1, 2, 3} \/ i \in 4 .. n + 3 \/ i = n + 4
  BY <1>2
<1>6. ASSUME NEW h \in Nat, NEW j \in 1 .. Len(t), Touches(t[j], h)
      PROVE  \/ j = 2 /\ h >= f /\ RowAfter(t[j]) = {}
             \/ /\ j \in 4 .. n + 3
                /\ h \in f .. Len(c) - 1
                /\ RowAfter(t[j]) = {c[h + 1]}
  <2>1. CASE j \in {1, 2, 3} \/ j = n + 4
    <3>1. j = 1 \/ j = 2 \/ j = 3 \/ j = n + 4
      BY <2>1
    <3>2. j = 2
      BY <1>2, <1>6, <3>1 DEF Touches
    <3>3. h >= f /\ RowAfter(t[2]) = {}
      BY <1>2, <1>6, <3>2 DEF Touches, RowAfter
    <3>. QED BY <3>2, <3>3
  <2>2. CASE j \in 4 .. n + 3
    BY <1>4, <1>6, <2>2 DEF Touches, RowAfter
  <2>. QED BY <1>5, <2>1, <2>2
<1>7. DOMAIN Table(c) = 0 .. Len(c) - 1 /\ \A h \in 0 .. Len(c) - 1 : Table(c)[h] = c[h + 1]
  BY TableIs
<1>8. ASSUME NEW h \in Nat PROVE Settles(t, g, h, RowAt(Table(c), h))
  <2>1. CASE h < f
    <3>1. Makes(t, 1, h, RowAt(Table(c), h))
      BY <1>1, <1>6, <2>1 DEF Makes
    <3>2. RowAt(g, h) = RowAt(Table(c), h)
      BY <1>1, <2>1
    <3>. QED BY <3>1, <3>2 DEF Settles
  <2>2. CASE h >= f /\ h < Len(c)
    <3>1. h \in f .. Len(c) - 1 /\ RowAt(Table(c), h) = {c[h + 1]}
      BY <1>1, <1>7, <2>2 DEF RowAt
    <3>2. PICK i \in DOMAIN s : s[i] = InsBlock(h, c[h + 1])
      BY <3>1 DEF Inserts
    <3>3. i + 3 \in 4 .. n + 3 /\ i + 3 \in DOMAIN t /\ (i + 3) - 3 = i /\ i + 3 \in Nat
      BY <1>1, <1>2, <1>3
    <3>4. t[i + 3] = InsBlock(h, c[h + 1])
      BY <1>4, <3>2, <3>3
    <3>5. Touches(t[i + 3], h)
      BY <3>4 DEF Touches, InsBlock
    <3>6. Makes(t, i + 3, h, RowAt(Table(c), h))
      <4>1. ASSUME NEW j \in i + 3 .. Len(t), Touches(t[j], h)
            PROVE  RowAfter(t[j]) = {c[h + 1]}
        <5>1. j \in 1 .. Len(t) /\ j # 2
          BY <1>2, <3>3
        <5>. QED BY <1>6, <4>1, <5>1
      <4>. QED BY <3>1, <4>1 DEF Makes
    <3>. QED BY <3>3, <3>5, <3>6 DEF Settles
  <2>3. CASE h >= f /\ h >= Len(c)
    <3>1. RowAt(Table(c), h) = {}
      BY <1>1, <1>7, <2>3 DEF RowAt
    <3>2. 2 \in DOMAIN t /\ Touches(t[2], h)
      BY <1>2, <1>3, <2>3 DEF Touches
    <3>3. Makes(t, 2, h, {})
      <4>1. ASSUME NEW j \in 2 .. Len(t), Touches(t[j], h) PROVE RowAfter(t[j]) = {}
        <5>1. j \in 1 .. Len(t) /\ ~(h \in f .. Len(c) - 1)
          BY <1>1, <1>2, <2>3
        <5>. QED BY <1>6, <4>1, <5>1
      <4>. QED BY <4>1 DEF Makes
    <3>. QED BY <3>1, <3>2, <3>3 DEF Settles
  <2>. QED BY <1>1, <2>1, <2>2, <2>3
<1>9. \A i \in 1 .. Len(t) - 1 : t[i].op # "commit"
  <2>1. ASSUME NEW i \in 1 .. Len(t) - 1 PROVE t[i].op # "commit"
    <3>1. i \in {1, 2, 3} \/ i \in 4 .. n + 3
      BY <1>2
    <3>. QED BY <1>2, <1>4, <3>1
  <2>. QED BY <2>1
<1>10. \A i \in 2 .. Len(t) : t[i].op # "begin"
  <2>1. ASSUME NEW i \in 2 .. Len(t) PROVE t[i].op # "begin"
    <3>1. i \in {2, 3} \/ i \in 4 .. n + 3 \/ i = n + 4
      BY <1>2
    <3>. QED BY <1>2, <1>4, <3>1
  <2>. QED BY <2>1
<1>11. t[Len(t)].op = "commit"
  BY <1>2
<1>. QED BY <1>2, <1>8, <1>9, <1>10, <1>11 DEF TxnTo, t

\* Its next statement brings it closer, and COMMIT finds the table written.
LEMMA TxnStep ==
    ASSUME NEW s \in Seq(Statement), NEW o \in BOOLEAN, NEW db \in Tables, NEW c \in Seq(Nat),
           TxnTo(s, o, db.blocks, c)
    PROVE  /\ s # << >> /\ Head(s) = s[1] /\ Head(s) \in Statement
           /\ s[1].op = "commit" => o /\ Tail(s) = << >> /\ db.blocks = Table(c)
           /\ s[1].op # "commit" =>
                 TxnTo(Tail(s), IF s[1].op = "begin" THEN TRUE ELSE o, Effect(db, Head(s)).blocks, c)
           /\ s[1].op = "begin" => ~o
           /\ s[1].op # "begin" => o
<1>. DEFINE n == Len(s)
            t == Tail(s)
<1>1. /\ s # << >> /\ Head(s) = s[1] /\ Head(s) \in Statement
      /\ t \in Seq(Statement) /\ n \in Nat \ {0} /\ Len(t) = n - 1
      /\ \A i \in 1 .. n - 1 : t[i] = s[i + 1]
  BY HeadTailProperties, EmptySeq, LenProperties DEF TxnTo
<1>2. o <=> s[1].op # "begin"
  BY DEF TxnTo
<1>. HIDE DEF t, n
<1>3. ASSUME s[1].op = "commit" PROVE o /\ t = << >> /\ db.blocks = Table(c)
  <2>1. n = 1
    BY <1>1, <1>3 DEF TxnTo, n
  <2>2. t = << >>
    BY <1>1, <2>1, EmptySeq
  <2>3. ASSUME NEW h \in Nat PROVE RowAt(db.blocks, h) = RowAt(Table(c), h)
    <3>1. ~Touches(s[1], h)
      BY <1>3 DEF Touches
    <3>2. DOMAIN s = {1}
      <4>1. DOMAIN s = 1 .. 1
        BY <2>1, LenProperties DEF n
      <4>. QED BY <4>1
    <3>3. Settles(s, db.blocks, h, RowAt(Table(c), h))
      BY DEF TxnTo
    <3>. QED BY <3>1, <3>2, <3>3 DEF Settles
  <2>4. db.blocks \in BlockTable /\ Table(c) \in BlockTable
    BY TableIs DEF Tables
  <2>5. db.blocks = Table(c)
    BY <2>3, <2>4, SameRows
  <2>. QED BY <1>2, <1>3, <2>2, <2>5
<1>4. ASSUME s[1].op # "commit"
      PROVE  TxnTo(t, TRUE, Effect(db, Head(s)).blocks, c)
  <2>1. n > 1
    <3>1. n # 1
      BY <1>4 DEF TxnTo, n
    <3>. QED BY <1>1, <3>1
  <2>2. t # << >>
    BY <1>1, <2>1, EmptySeq
  <2>3. t[Len(t)].op = "commit"
    <3>1. t[n - 1] = s[(n - 1) + 1] /\ (n - 1) + 1 = n
      BY <1>1, <2>1
    <3>. QED BY <1>1, <3>1 DEF TxnTo, n
  <2>4. ASSUME NEW i \in 1 .. Len(t) - 1 PROVE t[i].op # "commit"
    <3>1. i + 1 \in 1 .. n - 1 /\ t[i] = s[i + 1]
      BY <1>1
    <3>. QED BY <3>1 DEF TxnTo, n
  <2>5. ASSUME NEW i \in 1 .. Len(t) PROVE t[i].op # "begin"
    <3>1. i + 1 \in 2 .. n /\ t[i] = s[i + 1]
      BY <1>1
    <3>. QED BY <3>1 DEF TxnTo, n
  <2>6. t[1].op # "begin" /\ \A i \in 2 .. Len(t) : t[i].op # "begin"
    BY <1>1, <2>1, <2>5
  <2>7. ASSUME NEW h \in Nat
        PROVE  Settles(t, Effect(db, Head(s)).blocks, h, RowAt(Table(c), h))
    <3>1. Settles(s, db.blocks, h, RowAt(Table(c), h))
      BY DEF TxnTo
    <3>. QED BY <1>1, <3>1, SettlesStep DEF t
  <2>. QED BY <2>2, <2>3, <2>4, <2>6, <2>7 DEF TxnTo
<1>5. s[1].op # "commit" => (IF s[1].op = "begin" THEN TRUE ELSE o) = TRUE
  BY <1>2
<1>. QED BY <1>1, <1>2, <1>3, <1>4, <1>5 DEF t

---------------------------------------------------------------------------
(* The rows of txs *)

\* Row r of txs belongs to the chain c.
GoodRow(c, r) == r[1] >= 1 /\ r[1] + 1 \in DOMAIN c /\ c[r[1] + 1] = r[3]

\* Statement s deletes the row r.
Purges(s, r) == s.op = "del_txs" /\ r[1] >= s.height

\* Every row is there once and belongs to the block in the blocks table.
TxClean(db) ==
    \A r \in DOMAIN db.txs :
        /\ db.txs[r] = 1
        /\ r[1] >= 1 /\ r[1] \in DOMAIN db.blocks /\ db.blocks[r[1]] = r[3]

\* The rows in txs are there once, and belong to c or will be deleted; what will
\* be inserted belongs to c and will not be there when it is; after COMMIT only
\* a row of blocks follows.
RowsPending(txs, s, c) ==
    \A r \in DOMAIN txs :
        txs[r] = 1 /\ (GoodRow(c, r) \/ \E j \in DOMAIN s : Purges(s[j], r))
InsertsPending(txs, s, c) ==
    \A i \in DOMAIN s : s[i].op = "ins_tx" =>
        /\ GoodRow(c, TxRow(s[i]))
        /\ \/ TxRow(s[i]) \notin DOMAIN txs
           \/ \E j \in 1 .. i - 1 : Purges(s[j], TxRow(s[i]))
InsertsOnce(s) ==
    \A i, j \in DOMAIN s :
        s[i].op = "ins_tx" /\ s[j].op = "ins_tx" /\ TxRow(s[i]) = TxRow(s[j]) => i = j
CommitLast(s) ==
    \A i, j \in DOMAIN s : s[i].op = "commit" /\ i < j => s[j].op = "ins_block"

TxPending(txs, s, c) ==
    RowsPending(txs, s, c) /\ InsertsPending(txs, s, c) /\ InsertsOnce(s) /\ CommitLast(s)

\* What a statement makes of the rows.
LEMMA EffectTxs ==
    ASSUME NEW db \in Tables, NEW s \in Statement
    PROVE  /\ s.op = "ins_tx" =>
                /\ DOMAIN Effect(db, s).txs = DOMAIN db.txs \cup {TxRow(s)}
                /\ \A q \in DOMAIN db.txs : q # TxRow(s) => Effect(db, s).txs[q] = db.txs[q]
                /\ TxRow(s) \notin DOMAIN db.txs => Effect(db, s).txs[TxRow(s)] = 1
           /\ s.op = "del_txs" =>
                /\ DOMAIN Effect(db, s).txs = {q \in DOMAIN db.txs : q[1] < s.height}
                /\ \A q \in DOMAIN Effect(db, s).txs : Effect(db, s).txs[q] = db.txs[q]
           /\ s.op \notin {"ins_tx", "del_txs"} => Effect(db, s).txs = db.txs
<1>1. /\ db.txs \in TxTable /\ db.txs \in [DOMAIN db.txs -> Nat \ {0}]
      /\ s.height \in Nat /\ s.block \in Nat /\ s.idx \in Nat
  BY TablesAre DEF Tables, Statement
<1>2. CASE s.op = "ins_tx"
  <2>. DEFINE r == TxRow(s)
              f == db.txs (+) SetToBag({r})
  <2>1. r \in Nat \X Nat \X Nat
    BY <1>1 DEF TxRow
  <2>. HIDE DEF r
  <2>2. /\ DOMAIN f = DOMAIN db.txs \cup {r}
        /\ \A q \in DOMAIN db.txs \cup {r} :
              f[q] = (IF q \in DOMAIN db.txs THEN db.txs[q] ELSE 0) + (IF q = r THEN 1 ELSE 0)
    BY <1>1, <2>1, OneMoreRow, ZenonT(40)
  <2>3. Effect(db, s) = [blocks |-> db.blocks, txs |-> f]
    BY <1>2, InsTxEffect DEF r
  <2>. HIDE DEF f
  <2>4. Effect(db, s).txs = f
    BY <2>3
  <2>5. ASSUME NEW q \in DOMAIN db.txs, q # r PROVE f[q] = db.txs[q]
    <3>1. f[q] = db.txs[q] + 0 /\ db.txs[q] \in Nat
      BY <1>1, <2>2, <2>5
    <3>. QED BY <3>1
  <2>6. r \notin DOMAIN db.txs => f[r] = 1
    BY <2>2
  <2>. QED BY <1>2, <2>2, <2>4, <2>5, <2>6 DEF r
<1>3. CASE s.op = "del_txs"
  <2>. DEFINE f == [r \in {q \in DOMAIN db.txs : q[1] < s.height} |-> db.txs[r]]
  <2>1. Effect(db, s) = [blocks |-> db.blocks, txs |-> f]
    BY <1>3, DelTxsEffect, Zenon
  <2>2. DOMAIN f = {q \in DOMAIN db.txs : q[1] < s.height} /\ \A q \in DOMAIN f : f[q] = db.txs[q]
    OBVIOUS
  <2>. HIDE DEF f
  <2>3. Effect(db, s).txs = f
    BY <2>1
  <2>. QED BY <1>3, <2>2, <2>3
<1>4. CASE s.op = "ins_block"
  <2>. DEFINE f == [h \in DOMAIN db.blocks \cup {s.height} |->
                       IF h = s.height THEN s.block ELSE db.blocks[h]]
  <2>1. Effect(db, s) = [blocks |-> f, txs |-> db.txs]
    BY <1>4, InsBlockEffect
  <2>. HIDE DEF f
  <2>. QED BY <1>4, <2>1
<1>5. CASE s.op = "del_blocks"
  <2>. DEFINE f == [h \in {g \in DOMAIN db.blocks : g < s.height} |-> db.blocks[h]]
  <2>1. Effect(db, s) = [blocks |-> f, txs |-> db.txs]
    BY <1>5, DelBlocksEffect
  <2>. HIDE DEF f
  <2>. QED BY <1>5, <2>1
<1>6. CASE s.op \in {"begin", "commit"}
  BY <1>6, NoEffect
<1>. QED BY <1>2, <1>3, <1>4, <1>5, <1>6 DEF Statement

\* The next statement keeps it.
LEMMA TxPendingStep ==
    ASSUME NEW db \in Tables, NEW s \in Seq(Statement), s # << >>, NEW c \in Seq(Nat),
           TxPending(db.txs, s, c)
    PROVE  TxPending(Effect(db, Head(s)).txs, Tail(s), c)
<1>. DEFINE t == Tail(s)
            a == Head(s)
            txs == db.txs
            new == Effect(db, a).txs
<1>1. /\ a \in Statement /\ a = s[1] /\ t \in Seq(Statement)
      /\ Len(t) = Len(s) - 1 /\ Len(s) \in Nat \ {0} /\ Len(t) \in Nat
      /\ \A i \in 1 .. Len(t) : t[i] = s[i + 1]
      /\ DOMAIN s = 1 .. Len(s) /\ DOMAIN t = 1 .. Len(t)
  BY HeadTailProperties, EmptySeq, LenProperties
<1>2. /\ a.op = "ins_tx" =>
             /\ DOMAIN new = DOMAIN txs \cup {TxRow(a)}
             /\ \A q \in DOMAIN txs : q # TxRow(a) => new[q] = txs[q]
             /\ TxRow(a) \notin DOMAIN txs => new[TxRow(a)] = 1
      /\ a.op = "del_txs" =>
             /\ DOMAIN new = {q \in DOMAIN txs : q[1] < a.height}
             /\ \A q \in DOMAIN new : new[q] = txs[q]
      /\ a.op \notin {"ins_tx", "del_txs"} => new = txs
  BY <1>1, EffectTxs
<1>a. DOMAIN txs \in SUBSET (Nat \X Nat \X Nat) /\ a.height \in Nat
  BY <1>1, TablesAre DEF Statement
<1>. HIDE DEF a, t, txs, new
<1>3. /\ RowsPending(txs, s, c) /\ InsertsPending(txs, s, c) /\ InsertsOnce(s) /\ CommitLast(s)
  BY DEF TxPending, txs
<1>4. ASSUME NEW i \in DOMAIN t PROVE i + 1 \in DOMAIN s /\ t[i] = s[i + 1] /\ i + 1 # 1 /\ i \in Nat
  BY <1>1
<1>5. ASSUME NEW j \in DOMAIN s, j # 1 PROVE j - 1 \in DOMAIN t /\ t[j - 1] = s[j]
  BY <1>1, <1>5
<1>6. 1 \in DOMAIN s
  BY <1>1
\* What holds before of the row that is inserted.
<1>7. ASSUME a.op = "ins_tx" PROVE TxRow(a) \notin DOMAIN txs /\ GoodRow(c, TxRow(a))
  <2>1. ~\E j \in 1 .. 1 - 1 : Purges(s[j], TxRow(s[1]))
    OBVIOUS
  <2>. QED BY <1>1, <1>3, <1>6, <1>7, <2>1 DEF InsertsPending
<1>8. RowsPending(new, t, c)
  <2>1. ASSUME NEW r \in DOMAIN txs, ~Purges(a, r)
        PROVE  GoodRow(c, r) \/ \E j \in DOMAIN t : Purges(t[j], r)
    <3>1. GoodRow(c, r) \/ \E j \in DOMAIN s : Purges(s[j], r)
      BY <1>3 DEF RowsPending
    <3>2. ASSUME NEW j \in DOMAIN s, Purges(s[j], r) PROVE \E k \in DOMAIN t : Purges(t[k], r)
      <4>1. j # 1
        BY <1>1, <2>1, <3>2
      <4>. QED BY <1>5, <3>2, <4>1
    <3>. QED BY <3>1, <3>2
  <2>2. \A r \in DOMAIN txs : txs[r] = 1
    BY <1>3 DEF RowsPending
  <2>3. CASE a.op = "ins_tx"
    <3>1. \A r \in DOMAIN txs : ~Purges(a, r)
      BY <2>3 DEF Purges
    <3>2. ASSUME NEW r \in DOMAIN new
          PROVE  new[r] = 1 /\ (GoodRow(c, r) \/ \E j \in DOMAIN t : Purges(t[j], r))
      <4>1. CASE r = TxRow(a)
        BY <1>2, <1>7, <2>3, <4>1
      <4>2. CASE r # TxRow(a)
        BY <1>2, <2>1, <2>2, <2>3, <3>1, <4>2
      <4>. QED BY <4>1, <4>2
    <3>. QED BY <3>2 DEF RowsPending
  <2>4. CASE a.op = "del_txs"
    <3>1. ASSUME NEW r \in DOMAIN new
          PROVE  new[r] = 1 /\ (GoodRow(c, r) \/ \E j \in DOMAIN t : Purges(t[j], r))
      <4>1. r \in DOMAIN txs /\ r[1] < a.height /\ new[r] = txs[r]
        BY <1>2, <2>4
      <4>2. r[1] \in Nat
        BY <1>a, <4>1
      <4>3. ~Purges(a, r)
        BY <1>a, <4>1, <4>2 DEF Purges
      <4>. QED BY <2>1, <2>2, <4>1, <4>3
    <3>. QED BY <3>1 DEF RowsPending
  <2>5. CASE a.op \notin {"ins_tx", "del_txs"}
    <3>1. \A r \in DOMAIN txs : ~Purges(a, r)
      BY <2>5 DEF Purges
    <3>. QED BY <1>2, <2>1, <2>2, <2>5, <3>1 DEF RowsPending
  <2>. QED BY <2>3, <2>4, <2>5
<1>9. InsertsPending(new, t, c)
  <2>1. ASSUME NEW i \in DOMAIN t, t[i].op = "ins_tx"
        PROVE  /\ GoodRow(c, TxRow(t[i]))
               /\ \/ TxRow(t[i]) \notin DOMAIN new
                  \/ \E j \in 1 .. i - 1 : Purges(t[j], TxRow(t[i]))
    <3>. DEFINE r == TxRow(t[i])
    <3>1. i + 1 \in DOMAIN s /\ t[i] = s[i + 1] /\ i \in Nat /\ i \in 1 .. Len(t)
      BY <1>1
    <3>2. /\ GoodRow(c, r)
          /\ \/ r \notin DOMAIN txs
             \/ \E j \in 1 .. (i + 1) - 1 : Purges(s[j], r)
      BY <1>3, <2>1, <3>1 DEF InsertsPending
    <3>3. r[1] \in Nat
      <4>1. t[i] \in Statement
        BY <1>1
      <4>. QED BY <4>1 DEF TxRow, Statement
    <3>4. a.op = "ins_tx" => r # TxRow(a)
      BY <1>1, <1>3, <1>4, <1>6, <2>1, <3>1 DEF InsertsOnce
    <3>. HIDE DEF r
    <3>5. CASE r \notin DOMAIN txs
      <4>1. r \notin DOMAIN new
        BY <1>2, <3>4, <3>5
      <4>. QED BY <3>2, <4>1 DEF r
    <3>6. ASSUME NEW j \in 1 .. (i + 1) - 1, Purges(s[j], r)
          PROVE  \/ r \notin DOMAIN new
                 \/ \E k \in 1 .. i - 1 : Purges(t[k], r)
      <4>1. CASE j = 1
        <5>1. a.op = "del_txs" /\ ~(r[1] < a.height)
          BY <1>1, <1>a, <3>3, <3>6, <4>1 DEF Purges
        <5>. QED BY <1>2, <5>1
      <4>2. CASE j # 1
        <5>1. j - 1 \in 1 .. i - 1 /\ j - 1 \in 1 .. Len(t) /\ (j - 1) + 1 = j
          BY <1>1, <3>1, <4>2
        <5>2. t[j - 1] = s[j]
          BY <1>1, <5>1
        <5>. QED BY <3>6, <5>1, <5>2
      <4>. QED BY <4>1, <4>2
    <3>. QED BY <3>2, <3>5, <3>6 DEF r
  <2>. QED BY <2>1 DEF InsertsPending
<1>10. InsertsOnce(t)
  <2>1. ASSUME NEW i \in DOMAIN t, NEW j \in DOMAIN t,
               t[i].op = "ins_tx", t[j].op = "ins_tx", TxRow(t[i]) = TxRow(t[j])
        PROVE  i = j
    <3>1. i + 1 = j + 1
      BY <1>3, <1>4, <2>1 DEF InsertsOnce
    <3>. QED BY <1>1, <3>1
  <2>. QED BY <2>1 DEF InsertsOnce
<1>11. CommitLast(t)
  <2>1. ASSUME NEW i \in DOMAIN t, NEW j \in DOMAIN t, t[i].op = "commit", i < j
        PROVE  t[j].op = "ins_block"
    <3>1. i + 1 < j + 1
      BY <1>1, <2>1
    <3>. QED BY <1>3, <1>4, <2>1, <3>1 DEF CommitLast
  <2>. QED BY <2>1 DEF CommitLast
<1>. QED BY <1>8, <1>9, <1>10, <1>11 DEF TxPending, new, a, t

\* With nothing more to delete the rows are those of the chain in the table.
LEMMA CleanWhen ==
    ASSUME NEW db \in Tables, NEW s \in Seq(Statement), NEW c \in Seq(Nat), TxPending(db.txs, s, c),
           \A i \in DOMAIN s : s[i].op # "del_txs",
           \/ db.blocks = Table(c)
           \/ Len(c) = 1
    PROVE  TxClean(db)
<1>. SUFFICES ASSUME NEW r \in DOMAIN db.txs
              PROVE  /\ db.txs[r] = 1
                     /\ r[1] >= 1 /\ r[1] \in DOMAIN db.blocks /\ db.blocks[r[1]] = r[3]
  BY DEF TxClean
<1>1. db.txs[r] = 1 /\ GoodRow(c, r)
  BY DEF TxPending, RowsPending, Purges
<1>2. r[1] \in Nat /\ Len(c) \in Nat /\ DOMAIN c = 1 .. Len(c)
  BY TablesAre, LenProperties
<1>3. r[1] >= 1 /\ r[1] \in 0 .. Len(c) - 1 /\ c[r[1] + 1] = r[3] /\ Len(c) # 1
  BY <1>1, <1>2 DEF GoodRow
<1>4. DOMAIN Table(c) = 0 .. Len(c) - 1 /\ \A h \in 0 .. Len(c) - 1 : Table(c)[h] = c[h + 1]
  BY TableIs
<1>. QED BY <1>1, <1>3, <1>4

\* Between operations nothing is pending.
LEMMA PendingNone ==
    ASSUME NEW db \in Tables, NEW c \in Seq(Nat), TxClean(db), db.blocks = Table(c)
    PROVE  /\ \A r \in DOMAIN db.txs : db.txs[r] = 1 /\ GoodRow(c, r) /\ r[1] \in 0 .. Len(c) - 1
           /\ TxPending(db.txs, << >>, c)
<1>1. DOMAIN Table(c) = 0 .. Len(c) - 1 /\ \A h \in 0 .. Len(c) - 1 : Table(c)[h] = c[h + 1]
  BY TableIs
<1>2. Len(c) \in Nat /\ DOMAIN c = 1 .. Len(c)
  BY LenProperties
<1>3. ASSUME NEW r \in DOMAIN db.txs
      PROVE  db.txs[r] = 1 /\ GoodRow(c, r) /\ r[1] \in 0 .. Len(c) - 1
  <2>1. db.txs[r] = 1 /\ r[1] >= 1 /\ r[1] \in 0 .. Len(c) - 1 /\ c[r[1] + 1] = r[3]
    BY <1>1 DEF TxClean
  <2>. QED BY <1>2, <2>1 DEF GoodRow
<1>4. DOMAIN << >> = {}
  OBVIOUS
<1>. QED BY <1>3, <1>4 DEF TxPending, RowsPending, InsertsPending, InsertsOnce, CommitLast

\* One more block.
LEMMA PendingInsert ==
    ASSUME NEW db \in Tables, NEW c \in Seq(Nat), NEW b \in Nat, c # << >> \/ b = Genesis,
           TxClean(db), db.blocks = Table(c)
    PROVE  TxPending(db.txs, DbInsert(Len(c), b), Append(c, b))
<1>. DEFINE n == Len(c)
            s == DbInsert(n, b)
            d == Append(c, b)
<1>1. n \in Nat /\ (n = 0 => b = Genesis) /\ DOMAIN c = 1 .. n
  BY EmptySeq, LenProperties
<1>2. /\ s \in Seq(Statement) /\ Len(s) \in Nat \ {0} /\ s[1] = InsBlock(n, b)
      /\ \A i \in 2 .. Len(s) : /\ s[i].op = "ins_tx" /\ s[i].height = n
                                /\ s[i].block = b /\ s[i].idx = i - 2
                                /\ b # Genesis
  BY <1>1, InsertIs
<1>3. /\ d \in Seq(Nat) /\ Len(d) = n + 1 /\ d[n + 1] = b
      /\ \A i \in 1 .. n : d[i] = c[i]
  BY AppendProperties
<1>. HIDE DEF s, d, n
<1>4. DOMAIN d = 1 .. n + 1 /\ DOMAIN s = 1 .. Len(s)
  BY <1>2, <1>3, LenProperties
<1>5. \A r \in DOMAIN db.txs : db.txs[r] = 1 /\ GoodRow(c, r) /\ r[1] \in 0 .. n - 1
  BY PendingNone DEF n
<1>6. RowsPending(db.txs, s, d)
  <2>1. ASSUME NEW r \in DOMAIN db.txs PROVE GoodRow(d, r)
    <3>1. GoodRow(c, r) /\ r[1] \in 0 .. n - 1
      BY <1>5
    <3>2. r[1] + 1 \in 1 .. n /\ r[1] + 1 \in DOMAIN d
      BY <1>1, <1>4, <3>1
    <3>. QED BY <1>3, <3>1, <3>2 DEF GoodRow
  <2>. QED BY <1>5, <2>1 DEF RowsPending
<1>7. ASSUME NEW i \in DOMAIN s, s[i].op = "ins_tx" PROVE i \in 2 .. Len(s)
  <2>1. s[1].op = "ins_block"
    BY <1>2 DEF InsBlock
  <2>2. i # 1
    BY <1>7, <2>1
  <2>. QED BY <1>2, <1>4, <2>2
<1>8. InsertsPending(db.txs, s, d)
  <2>1. ASSUME NEW i \in DOMAIN s, s[i].op = "ins_tx"
        PROVE  GoodRow(d, TxRow(s[i])) /\ TxRow(s[i]) \notin DOMAIN db.txs
    <3>1. s[i].height = n /\ s[i].block = b /\ b # Genesis
      BY <1>2, <1>7, <2>1
    <3>2. TxRow(s[i])[1] = n /\ TxRow(s[i])[3] = b
      BY <3>1 DEF TxRow
    <3>3. n >= 1
      BY <1>1, <3>1
    <3>4. ~(n \in 0 .. n - 1)
      BY <1>1
    <3>. QED BY <1>1, <1>3, <1>4, <1>5, <3>2, <3>3, <3>4 DEF GoodRow
  <2>. QED BY <2>1 DEF InsertsPending
<1>9. InsertsOnce(s)
  <2>1. ASSUME NEW i \in DOMAIN s, NEW j \in DOMAIN s,
               s[i].op = "ins_tx", s[j].op = "ins_tx", TxRow(s[i]) = TxRow(s[j])
        PROVE  i = j
    <3>1. s[i].idx = s[j].idx
      BY <2>1 DEF TxRow
    <3>2. i \in 2 .. Len(s) /\ j \in 2 .. Len(s)
      BY <1>7, <2>1
    <3>3. s[i].idx = i - 2 /\ s[j].idx = j - 2
      BY <1>2, <3>2
    <3>4. i - 2 = j - 2
      BY <3>1, <3>3
    <3>. QED BY <1>2, <3>2, <3>4
  <2>. QED BY <2>1 DEF InsertsOnce
<1>10. CommitLast(s)
  <2>1. s[1].op = "ins_block"
    BY <1>2 DEF InsBlock
  <2>2. ASSUME NEW i \in DOMAIN s PROVE s[i].op # "commit"
    <3>1. i = 1 \/ i \in 2 .. Len(s)
      BY <1>2, <1>4
    <3>. QED BY <1>2, <2>1, <3>1
  <2>. QED BY <2>2 DEF CommitLast
<1>. QED BY <1>6, <1>8, <1>9, <1>10 DEF TxPending, s, d, n

\* A transaction that leaves the rows below f.
LEMMA PendingTxn ==
    ASSUME NEW db \in Tables, TxClean(db),
           NEW c \in Seq(Nat), IsPath(Tree, c), NEW f \in 0 .. Len(c),
           NEW s, Inserts(s, c, f, Len(c)),
           \A h \in 0 .. f - 1 : RowAt(db.blocks, h) = RowAt(Table(c), h)
    PROVE  TxPending(db.txs, Txn(f, s), c)
<1>. DEFINE t == Txn(f, s)
            n == Len(s)
<1>1. f \in Nat /\ s \in Seq(Statement) /\ Len(c) \in Nat /\ DOMAIN s = 1 .. n /\ DOMAIN c = 1 .. Len(c)
  BY LenProperties DEF Inserts
<1>a. IsTxn(t, f, s)
  BY <1>1, TxnIs
<1>. HIDE DEF t
<1>2. /\ n \in Nat /\ Len(t) = n + 4 /\ t \in Seq(Statement)
      /\ t[3].op = "del_txs" /\ t[3].height = f
  BY <1>a DEF IsTxn
<1>3. \A i \in 4 .. n + 3 : t[i] = s[i - 3]
  BY <1>a DEF IsTxn
<1>4. t[1].op = "begin" /\ t[2].op = "del_blocks"
  BY <1>a DEF IsTxn
<1>5. t[n + 4].op = "commit"
  BY <1>a DEF IsTxn
<1>. HIDE DEF n
<1>6. DOMAIN t = 1 .. n + 4
  BY <1>2, LenProperties
<1>7. ASSUME NEW i \in DOMAIN t PROVE i = 1 \/ i = 2 \/ i = 3 \/ i \in 4 .. n + 3 \/ i = n + 4
  BY <1>2, <1>6
<1>8. ASSUME NEW i \in DOMAIN t, t[i].op = "ins_tx" PROVE i \in 4 .. n + 3
  BY <1>2, <1>4, <1>5, <1>7, <1>8
<1>9. DOMAIN Table(c) = 0 .. Len(c) - 1 /\ \A h \in 0 .. Len(c) - 1 : Table(c)[h] = c[h + 1]
  BY TableIs
<1>10. RowsPending(db.txs, t, c)
  <2>1. ASSUME NEW r \in DOMAIN db.txs
        PROVE  db.txs[r] = 1 /\ (GoodRow(c, r) \/ \E j \in DOMAIN t : Purges(t[j], r))
    <3>1. db.txs[r] = 1 /\ r[1] >= 1 /\ r[1] \in DOMAIN db.blocks /\ db.blocks[r[1]] = r[3]
      BY DEF TxClean
    <3>2. r[1] \in Nat
      BY TablesAre
    <3>3. CASE r[1] >= f
      <4>1. 3 \in DOMAIN t /\ Purges(t[3], r)
        BY <1>2, <1>6, <3>3 DEF Purges
      <4>. QED BY <3>1, <4>1
    <3>4. CASE r[1] < f
      <4>1. r[1] \in 0 .. f - 1 /\ r[1] \in 0 .. Len(c) - 1 /\ r[1] + 1 \in DOMAIN c
        BY <1>1, <3>2, <3>4
      <4>2. RowAt(db.blocks, r[1]) = {r[3]} /\ RowAt(Table(c), r[1]) = {c[r[1] + 1]}
        BY <1>9, <3>1, <4>1 DEF RowAt
      <4>3. c[r[1] + 1] = r[3]
        BY <4>1, <4>2
      <4>. QED BY <3>1, <4>1, <4>3 DEF GoodRow
    <3>. QED BY <1>1, <3>2, <3>3, <3>4
  <2>. QED BY <2>1 DEF RowsPending
<1>11. InsertsPending(db.txs, t, c)
  <2>1. ASSUME NEW i \in DOMAIN t, t[i].op = "ins_tx"
        PROVE  /\ GoodRow(c, TxRow(t[i]))
               /\ \E j \in 1 .. i - 1 : Purges(t[j], TxRow(t[i]))
    <3>1. i \in 4 .. n + 3 /\ i - 3 \in DOMAIN s /\ t[i] = s[i - 3]
      BY <1>1, <1>2, <1>3, <1>8, <2>1
    <3>. DEFINE h == t[i].height
    <3>2. h \in f .. Len(c) - 1 /\ t[i].block = c[h + 1] /\ c[h + 1] # Genesis
      BY <2>1, <3>1 DEF Inserts
    <3>3. TxRow(t[i])[1] = h /\ TxRow(t[i])[3] = c[h + 1]
      BY <3>2 DEF TxRow
    <3>. HIDE DEF h
    <3>4. h # 0
      BY <3>2 DEF IsPath
    <3>5. h >= 1 /\ h + 1 \in DOMAIN c /\ h >= f
      BY <1>1, <3>2, <3>4
    <3>6. 3 \in 1 .. i - 1 /\ Purges(t[3], TxRow(t[i]))
      BY <1>2, <3>1, <3>3, <3>5 DEF Purges
    <3>. QED BY <3>3, <3>5, <3>6 DEF GoodRow
  <2>. QED BY <2>1 DEF InsertsPending
<1>12. InsertsOnce(t)
  <2>1. ASSUME NEW i \in DOMAIN t, NEW j \in DOMAIN t,
               t[i].op = "ins_tx", t[j].op = "ins_tx", TxRow(t[i]) = TxRow(t[j])
        PROVE  i = j
    <3>1. /\ i \in 4 .. n + 3 /\ i - 3 \in DOMAIN s /\ t[i] = s[i - 3]
          /\ j \in 4 .. n + 3 /\ j - 3 \in DOMAIN s /\ t[j] = s[j - 3]
      BY <1>1, <1>2, <1>3, <1>8, <2>1
    <3>2. i - 3 = j - 3
      BY <2>1, <3>1 DEF Inserts
    <3>. QED BY <1>2, <3>1, <3>2
  <2>. QED BY <2>1 DEF InsertsOnce
<1>13. CommitLast(t)
  <2>1. ASSUME NEW i \in DOMAIN t, t[i].op = "commit" PROVE i = n + 4
    <3>1. ASSUME i \in 4 .. n + 3 PROVE FALSE
      <4>1. i - 3 \in DOMAIN s /\ t[i] = s[i - 3]
        BY <1>1, <1>2, <1>3, <3>1
      <4>. QED BY <2>1, <4>1 DEF Inserts
    <3>. QED BY <1>2, <1>4, <1>7, <2>1, <3>1
  <2>2. ASSUME NEW j \in DOMAIN t PROVE ~(n + 4 < j)
    BY <1>2, <1>6
  <2>. QED BY <2>1, <2>2 DEF CommitLast
<1>. QED BY <1>10, <1>11, <1>12, <1>13 DEF TxPending, t

\* Nothing is inserted.
LEMMA InsertsNone ==
    ASSUME NEW c, NEW n \in Nat
    PROVE  Inserts(<< >>, c, n, n)
<1>1. << >> \in Seq(Statement) /\ DOMAIN << >> = {} /\ n .. n - 1 = {}
  BY EmptySeq, LenProperties
<1>. QED BY <1>1 DEF Inserts

\* A transaction that clears the tables, before genesis is written.
LEMMA PendingClear ==
    ASSUME NEW db \in Tables, TxClean(db), NEW c \in Seq(Nat)
    PROVE  TxPending(db.txs, Append(Txn(0, << >>), InsBlock(0, Genesis)), c)
<1>. DEFINE t == Txn(0, << >>)
            g == InsBlock(0, Genesis)
            u == Append(t, g)
<1>1. << >> \in Seq(Statement) /\ Len(<< >>) = 0 /\ 0 \in Nat
  BY EmptySeq
<1>a. IsTxn(t, 0, << >>)
  BY <1>1, TxnIs
<1>. HIDE DEF t
<1>2. t \in Seq(Statement) /\ Len(t) = Len(<< >>) + 4 /\ t[3].op = "del_txs" /\ t[3].height = 0
  BY <1>a DEF IsTxn
<1>3. t[1].op = "begin" /\ t[2].op = "del_blocks"
  BY <1>a DEF IsTxn
<1>4. t[Len(<< >>) + 4].op = "commit"
  BY <1>a DEF IsTxn
<1>5. g \in Statement /\ g.op = "ins_block"
  BY DEF InsBlock, Genesis, Statement
<1>. HIDE DEF g
<1>6. Len(t) = 4 /\ t[4].op = "commit"
  BY <1>1, <1>2, <1>4
<1>7. u \in Seq(Statement) /\ Len(u) = 5 /\ u[5] = g /\ \A i \in 1 .. 4 : u[i] = t[i]
  <2>1. /\ Append(t, g) \in Seq(Statement) /\ Len(Append(t, g)) = Len(t) + 1
        /\ \A i \in 1 .. Len(t) : Append(t, g)[i] = t[i]
        /\ Append(t, g)[Len(t) + 1] = g
    <3>1. t \in Seq(Statement) /\ g \in Statement
      BY <1>2, <1>5
    <3>. QED BY <3>1, AppendProperties
  <2>. QED BY <1>6, <2>1
<1>. HIDE DEF u
<1>8. DOMAIN u = 1 .. 5
  BY <1>7, LenProperties
<1>9. /\ u[1].op = "begin" /\ u[2].op = "del_blocks" /\ u[3].op = "del_txs" /\ u[3].height = 0
      /\ u[4].op = "commit" /\ u[5].op = "ins_block"
  BY <1>2, <1>3, <1>4, <1>5, <1>6, <1>7
<1>10. ASSUME NEW i \in DOMAIN u PROVE i = 1 \/ i = 2 \/ i = 3 \/ i = 4 \/ i = 5
  BY <1>8
<1>11. \A i \in DOMAIN u : u[i].op # "ins_tx"
  BY <1>9, <1>10
<1>12. InsertsPending(db.txs, u, c) /\ InsertsOnce(u)
  BY <1>11 DEF InsertsPending, InsertsOnce
<1>13. CommitLast(u)
  <2>1. ASSUME NEW i \in DOMAIN u, NEW j \in DOMAIN u, u[i].op = "commit", i < j
        PROVE  u[j].op = "ins_block"
    <3>1. i = 4
      BY <1>9, <1>10, <2>1
    <3>2. j = 5
      BY <1>8, <2>1, <3>1
    <3>. QED BY <1>9, <3>2
  <2>. QED BY <2>1 DEF CommitLast
<1>14. RowsPending(db.txs, u, c)
  <2>1. ASSUME NEW r \in DOMAIN db.txs PROVE db.txs[r] = 1 /\ Purges(u[3], r)
    <3>1. r[1] \in Nat
      BY TablesAre
    <3>. QED BY <1>9, <3>1 DEF TxClean, Purges
  <2>2. 3 \in DOMAIN u
    BY <1>8
  <2>. QED BY <2>1, <2>2 DEF RowsPending
<1>. QED BY <1>12, <1>13, <1>14 DEF TxPending, u, t, g

---------------------------------------------------------------------------
(* The invariant *)

\* Types, and what is not there while the process is down.
StorageTypes ==
    /\ running \in BOOLEAN /\ open \in BOOLEAN /\ dirty \in BOOLEAN
    /\ mem \in Seq(Nat) /\ before \in Seq(Nat) /\ had \subseteq Seq(Nat)
    /\ todo \in Seq(Statement)
    /\ disk \in Tables /\ view \in Tables /\ past \subseteq Tables
    /\ stops \in Nat /\ errors \in Nat
    /\ ~open => view = disk
    /\ ~running => ~open /\ todo = << >>

\* Block b is at height h of one of the chains cs.
HadRow(cs, h, b) == \E c \in cs : h + 1 \in DOMAIN c /\ c[h + 1] = b

\* Every row of the blocks table f is, and so is every row that s will write.
RowsHad(cs, f) == \A h \in DOMAIN f : HadRow(cs, h, f[h])
WillHave(cs, s) == \A i \in DOMAIN s : s[i].op = "ins_block" => HadRow(cs, s[i].height, s[i].block)

\* Whatever was lost, every row is of a chain that the node has had, at its
\* height there.
HistoryInv ==
    /\ \A c \in had : IsPath(Tree, c)
    /\ running => mem \in had
    /\ \A db \in past \cup {disk, view} : RowsHad(had, db.blocks)
    /\ WillHave(had, todo)

OnlyTxs(s, i) == \A j \in i .. Len(s) : s[j].op = "ins_tx"

\* The table is the chain, and only rows of txs are to be written.
Written == ~open /\ OnlyTxs(todo, 1) /\ disk.blocks = Table(mem)

\* The row of one more block is about to be written.
Appending ==
    /\ ~open /\ todo # << >>
    /\ \E b \in Nat : mem = Append(before, b) /\ todo[1] = InsBlock(Len(before), b)
    /\ OnlyTxs(todo, 2)
    /\ disk.blocks = Table(before)
    /\ before = << >> \/ IsPath(Tree, before)

\* A transaction is to be run or under way: one that ends with the chain, or
\* the one that clears the tables before genesis is written.
Clearing ==
    /\ before = << >> /\ mem = <<Genesis>>
    /\ \E t \in Seq(Statement) : /\ todo = Append(t, InsBlock(0, Genesis))
                                 /\ TxnTo(t, open, view.blocks, << >>)
Replacing ==
    /\ Loaded(disk) = before
    /\ TxnTo(todo, open, view.blocks, mem) \/ Clearing

Stage == Written \/ Appending \/ Replacing

\* As long as no statement failed since the start.
StageInv == running /\ ~dirty => Stage

\* As long as no statement failed at all.
TxInv ==
    errors = 0 =>
        /\ ~dirty
        /\ \A db \in past \cup {disk} : TxClean(db)
        /\ running => TxPending(view.txs, todo, mem)

StorageInv == StorageTypes /\ HistoryInv /\ StageInv /\ TxInv

LEMMA HadMore ==
    ASSUME NEW cs, NEW ds, cs \subseteq ds
    PROVE  /\ \A h, b : HadRow(cs, h, b) => HadRow(ds, h, b)
           /\ \A f : RowsHad(cs, f) => RowsHad(ds, f)
           /\ \A s : WillHave(cs, s) => WillHave(ds, s)
<1>1. \A h, b : HadRow(cs, h, b) => HadRow(ds, h, b)
  BY DEF HadRow
<1>. QED BY <1>1 DEF RowsHad, WillHave

\* So the blocks of a table are at their heights.
LEMMA HistoryAt ==
    ASSUME NEW cs \in SUBSET Seq(Nat), \A c \in cs : IsPath(Tree, c),
           NEW db \in Tables, RowsHad(cs, db.blocks)
    PROVE  AtHeight(db)
<1>. SUFFICES ASSUME NEW h \in DOMAIN db.blocks PROVE HeightOf(Tree, db.blocks[h]) = h
  BY DEF AtHeight
<1>1. h \in Nat
  BY TablesAre
<1>2. PICK c \in cs : h + 1 \in DOMAIN c /\ c[h + 1] = db.blocks[h]
  BY DEF RowsHad, HadRow
<1>3. c \in Seq(Nat) /\ IsPath(Tree, c) /\ DOMAIN c = 1 .. Len(c)
  BY LenProperties
<1>4. h + 1 \in 1 .. Len(c)
  BY <1>2, <1>3
<1>5. HeightOf(Tree, c[h + 1]) = (h + 1) - 1
  BY <1>3, <1>4, PathAt
<1>. QED BY <1>1, <1>2, <1>5

\* The blocks that s will write are those of c.
LEMMA WillHaveFrom ==
    ASSUME NEW c \in Seq(Nat), NEW lo \in Nat, NEW s, Inserts(s, c, lo, Len(c))
    PROVE  WillHave({c}, s)
<1>. SUFFICES ASSUME NEW i \in DOMAIN s PROVE HadRow({c}, s[i].height, s[i].block)
  BY DEF WillHave
<1>1. s[i].height \in lo .. Len(c) - 1 /\ s[i].block = c[s[i].height + 1]
  BY DEF Inserts
<1>2. DOMAIN c = 1 .. Len(c) /\ Len(c) \in Nat
  BY LenProperties
<1>3. s[i].height + 1 \in DOMAIN c
  BY <1>1, <1>2
<1>. QED BY <1>1, <1>3 DEF HadRow

LEMMA WillHaveTxn ==
    ASSUME NEW cs, NEW f \in Nat, NEW s \in Seq(Statement), WillHave(cs, s)
    PROVE  WillHave(cs, Txn(f, s))
<1>. DEFINE t == Txn(f, s)
            n == Len(s)
<1>a. IsTxn(t, f, s)
  BY TxnIs
<1>. HIDE DEF t
<1>1. n \in Nat /\ DOMAIN t = 1 .. n + 4 /\ DOMAIN s = 1 .. n
  BY <1>a DEF IsTxn
<1>2. t[1].op = "begin" /\ t[2].op = "del_blocks" /\ t[3].op = "del_txs" /\ t[n + 4].op = "commit"
  BY <1>a DEF IsTxn
<1>3. \A i \in 4 .. n + 3 : t[i] = s[i - 3]
  BY <1>a DEF IsTxn
<1>. HIDE DEF n
<1>7. ASSUME NEW i \in DOMAIN t, t[i].op = "ins_block" PROVE HadRow(cs, t[i].height, t[i].block)
  <2>1. i = 1 \/ i = 2 \/ i = 3 \/ i \in 4 .. n + 3 \/ i = n + 4
    BY <1>1
  <2>2. i \in 4 .. n + 3
    BY <1>2, <1>7, <2>1
  <2>3. t[i] = s[i - 3] /\ i - 3 \in DOMAIN s
    BY <1>1, <1>3, <2>2
  <2>. QED BY <1>7, <2>3 DEF WillHave
<1>. QED BY <1>7 DEF WillHave, t

\* An operation begins: what is left to show of its statements.
LEMMA OperationKeeps ==
    ASSUME StorageInv, running' = TRUE,
           mem' \in Seq(Nat), IsPath(Tree, mem'), before' \in Seq(Nat),
           todo' \in Seq(Statement), WillHave({mem'}, todo'),
           had' = had \cup {mem'}, UNCHANGED <<disk, view, open, past, errors>>,
           stops' \in Nat, dirty' \in BOOLEAN, dirty' => dirty,
           ~dirty' => Stage', errors = 0 => TxPending(view.txs, todo', mem')
    PROVE  StorageInv'
<1>1. StorageTypes'
  BY DEF StorageInv, StorageTypes
<1>2. HistoryInv'
  <2>1. had \subseteq had' /\ {mem'} \subseteq had' /\ mem' \in had'
    OBVIOUS
  <2>2. \A c \in had' : IsPath(Tree, c)
    BY DEF StorageInv, HistoryInv
  <2>3. \A db \in (past \cup {disk, view})' : RowsHad(had', db.blocks)
    <3>1. \A db \in past \cup {disk, view} : RowsHad(had, db.blocks)
      BY DEF StorageInv, HistoryInv
    <3>. QED BY <2>1, <3>1, HadMore
  <2>4. WillHave(had', todo')
    BY <2>1, HadMore
  <2>. QED BY <2>1, <2>2, <2>3, <2>4 DEF HistoryInv
<1>3. StageInv'
  BY DEF StageInv
<1>4. TxInv'
  BY DEF StorageInv, TxInv
<1>. QED BY <1>1, <1>2, <1>3, <1>4 DEF StorageInv

\* Between operations the table is the chain.
LEMMA Idle ==
    ASSUME StorageInv, running, ~dirty, todo = << >>
    PROVE  ~open /\ view = disk /\ disk.blocks = Table(mem)
<1>1. Stage
  BY DEF StorageInv, StageInv
<1>2. \A t \in Seq(Statement) : Append(t, InsBlock(0, Genesis)) # << >>
  <2>1. InsBlock(0, Genesis) \in Statement
    BY DEF InsBlock, Genesis, Statement
  <2>. QED BY <2>1, AppendProperties
<1>3. Written
  BY <1>1, <1>2 DEF Stage, Appending, Replacing, Clearing, TxnTo
<1>. QED BY <1>3 DEF Written, StorageInv, StorageTypes

LEMMA MemIs ==
    ASSUME StorageInv, running
    PROVE  mem \in Seq(Nat) /\ IsPath(Tree, mem) /\ mem # << >> /\ mem \in had
BY DEF StorageInv, StorageTypes, HistoryInv, IsPath

LEMMA ConnectKeeps ==
    ASSUME StorageInv, NEW b \in DOMAIN Tree, Connect(b)
    PROVE  StorageInv'
<1>. DEFINE n == Len(mem)
            s == DbInsert(n, b)
            d == Append(mem, b)
<1>1. /\ running /\ todo = << >> /\ ChildOf(Tree, b, Tip(mem))
      /\ mem' = d /\ before' = mem /\ todo' = s /\ had' = had \cup {mem'}
      /\ UNCHANGED <<running, disk, view, open, past, stops, errors, dirty>>
  BY DEF Connect
<1>2. mem \in Seq(Nat) /\ IsPath(Tree, mem) /\ mem # << >>
  BY <1>1, MemIs
<1>3. b \in Nat /\ n \in Nat
  BY <1>2, TreeAssumption, LenProperties
<1>4. d \in Seq(Nat) /\ IsPath(Tree, d) /\ Len(d) = n + 1 /\ d[n + 1] = b
  BY <1>1, <1>2, <1>3, AppendProperties, PathAppend
<1>5. /\ s \in Seq(Statement) /\ s # << >> /\ Len(s) \in Nat \ {0} /\ s[1] = InsBlock(n, b)
      /\ \A i \in 2 .. Len(s) : s[i].op = "ins_tx"
  BY <1>3, InsertIs
<1>. HIDE DEF s, d, n
<1>6. WillHave({d}, s)
  <2>1. ASSUME NEW i \in DOMAIN s, s[i].op = "ins_block" PROVE HadRow({d}, s[i].height, s[i].block)
    <3>1. DOMAIN s = 1 .. Len(s) /\ DOMAIN d = 1 .. n + 1
      BY <1>4, <1>5, LenProperties
    <3>2. i = 1
      BY <1>5, <2>1, <3>1
    <3>3. s[i].height = n /\ s[i].block = b
      BY <1>5, <3>2 DEF InsBlock
    <3>4. n + 1 \in DOMAIN d
      BY <1>3, <3>1
    <3>. QED BY <1>4, <3>3, <3>4 DEF HadRow
  <2>. QED BY <2>1 DEF WillHave
<1>7. ASSUME ~dirty PROVE Stage'
  <2>1. ~open /\ view = disk /\ disk.blocks = Table(mem)
    BY <1>1, <1>7, Idle
  <2>2. OnlyTxs(todo', 2)
    BY <1>1, <1>5 DEF OnlyTxs
  <2>3. mem' = Append(before', b) /\ todo'[1] = InsBlock(Len(before'), b)
    BY <1>1, <1>5 DEF d, n
  <2>4. Appending'
    BY <1>1, <1>2, <1>3, <1>5, <2>1, <2>2, <2>3 DEF Appending
  <2>. QED BY <2>4 DEF Stage
<1>8. ASSUME errors = 0 PROVE TxPending(view.txs, todo', mem')
  <2>1. ~dirty /\ TxClean(disk) /\ disk \in Tables
    BY <1>8 DEF StorageInv, TxInv, StorageTypes
  <2>2. view = disk /\ disk.blocks = Table(mem)
    BY <1>1, <2>1, Idle
  <2>3. TxPending(disk.txs, DbInsert(Len(mem), b), Append(mem, b))
    BY <1>2, <1>3, <2>1, <2>2, PendingInsert
  <2>. QED BY <1>1, <2>2, <2>3 DEF s, d, n
<1>9. stops' \in Nat /\ dirty' \in BOOLEAN
  BY <1>1 DEF StorageInv, StorageTypes
<1>. QED BY <1>1, <1>2, <1>4, <1>5, <1>6, <1>7, <1>8, <1>9, OperationKeeps

LEMMA TryReplaceKeeps ==
    ASSUME StorageInv, NEW cand \in Paths, TryReplace(cand)
    PROVE  StorageInv'
<1>. DEFINE f == Fork(mem, cand)
            s == InsertFrom(cand, f)
<1>1. /\ running /\ todo = << >>
      /\ mem' = cand /\ before' = mem /\ todo' = ReplaceStatements(mem, cand)
      /\ had' = had \cup {cand}
      /\ UNCHANGED <<running, disk, view, open, past, stops, errors, dirty>>
  BY DEF TryReplace
<1>2. cand \in Seq(Nat) /\ IsPath(Tree, cand)
  <2>1. Len(Tree) \in Nat
    BY TreeAssumption
  <2>2. PICK n \in 1 .. Len(Tree) + 1 : cand \in [1 .. n -> 0 .. Len(Tree)]
    BY DEF Paths
  <2>3. n \in Nat /\ cand \in [1 .. n -> Nat]
    BY <2>1, <2>2
  <2>. QED BY <2>3 DEF Paths
<1>3. mem \in Seq(Nat) /\ IsPath(Tree, mem)
  BY <1>1, MemIs
<1>4. f \in 0 .. Len(mem) /\ f <= Len(cand) /\ \A i \in 1 .. f : mem[i] = cand[i]
  BY <1>2, <1>3, ForkIs
<1>5. Len(mem) \in Nat /\ Len(cand) \in Nat /\ f \in Nat /\ f \in 0 .. Len(cand)
  BY <1>2, <1>3, <1>4, LenProperties
<1>6. Inserts(s, cand, f, Len(cand)) /\ s \in Seq(Statement)
  BY <1>2, <1>5, InsertFromIs DEF Inserts
<1>7. todo' = Txn(f, s)
  BY <1>1, Zenon DEF ReplaceStatements, Txn
<1>. HIDE DEF f, s
<1>8. todo' \in Seq(Statement)
  BY <1>5, <1>6, <1>7, TxnIs DEF IsTxn
<1>9. WillHave({cand}, todo')
  BY <1>2, <1>5, <1>6, <1>7, WillHaveFrom, WillHaveTxn
<1>10. ASSUME NEW h \in 0 .. f - 1 PROVE RowAt(Table(mem), h) = RowAt(Table(cand), h)
  <2>1. h + 1 \in 1 .. f /\ h \in 0 .. Len(mem) - 1 /\ h \in 0 .. Len(cand) - 1
    BY <1>4, <1>5
  <2>2. h \in DOMAIN Table(mem) /\ Table(mem)[h] = mem[h + 1]
    BY <1>3, <2>1, TableIs
  <2>3. h \in DOMAIN Table(cand) /\ Table(cand)[h] = cand[h + 1]
    BY <1>2, <2>1, TableIs
  <2>4. mem[h + 1] = cand[h + 1]
    BY <1>4, <2>1
  <2>. QED BY <2>2, <2>3, <2>4 DEF RowAt
<1>11. ASSUME ~dirty PROVE Stage'
  <2>1. ~open /\ view = disk /\ disk.blocks = Table(mem) /\ disk \in Tables /\ open = FALSE
    BY <1>1, <1>11, Idle DEF StorageInv, StorageTypes
  <2>2. Loaded(disk) = mem
    BY <1>3, <2>1, TableLoads
  <2>3. TxnTo(Txn(f, s), FALSE, view.blocks, cand)
    BY <1>2, <1>5, <1>6, <1>10, <2>1, TxnStarts
  <2>4. TxnTo(todo', open', view'.blocks, mem')
    BY <1>1, <1>7, <2>1, <2>3
  <2>. QED BY <1>1, <2>2, <2>4 DEF Stage, Replacing
<1>12. ASSUME errors = 0 PROVE TxPending(view.txs, todo', mem')
  <2>1. ~dirty /\ TxClean(disk) /\ disk \in Tables
    BY <1>12 DEF StorageInv, TxInv, StorageTypes
  <2>2. view = disk /\ disk.blocks = Table(mem)
    BY <1>1, <2>1, Idle
  <2>3. TxPending(disk.txs, Txn(f, s), cand)
    BY <1>2, <1>5, <1>6, <1>10, <2>1, <2>2, PendingTxn
  <2>. QED BY <1>1, <1>7, <2>2, <2>3
<1>13. stops' \in Nat /\ dirty' \in BOOLEAN
  BY <1>1 DEF StorageInv, StorageTypes
<1>. QED BY <1>1, <1>2, <1>3, <1>8, <1>9, <1>11, <1>12, <1>13, OperationKeeps

\* What Chain::init writes, in each case.
LEMMA InitIs ==
    ASSUME NEW db \in Tables, NEW good \in 0 .. Len(Raws(db))
    PROVE  /\ good = 0 /\ Len(Raws(db)) = 0 =>
                InitStatements(db, good) = <<InsBlock(0, Genesis)>>
           /\ good = 0 /\ Len(Raws(db)) # 0 =>
                InitStatements(db, good) = Append(Txn(0, << >>), InsBlock(0, Genesis))
           /\ good # 0 /\ good < Len(Raws(db)) => InitStatements(db, good) = Txn(good, << >>)
           /\ good # 0 /\ good = Len(Raws(db)) => InitStatements(db, good) = << >>
<1>. DEFINE n == Len(Raws(db))
            txn == <<Begin>> \o DbTruncate(good) \o <<Commit>>
            ins == DbInsert(0, Genesis)
            g == InsBlock(0, Genesis)
<1>1. n \in Nat /\ good \in Nat
  BY RawsAre, LenProperties
<1>2. << >> \in Seq(Statement) /\ txn = Txn(good, << >>) /\ Txn(good, << >>) \in Seq(Statement)
  <2>1. << >> \in Seq(Statement)
    BY EmptySeq
  <2>2. IsTxn(Txn(good, << >>), good, << >>) /\ txn = Txn(good, << >>)
    BY <1>1, <2>1, TxnIs
  <2>. HIDE DEF txn
  <2>. QED BY <2>1, <2>2 DEF IsTxn
<1>3. ins = <<g>> /\ g \in Statement /\ <<g>> \in Seq(Statement)
  <2>1. 0 \in Nat /\ Genesis \in Nat
    BY DEF Genesis
  <2>2. ins = <<g>>
    BY <2>1, InsertIs
  <2>3. g \in Statement
    BY <2>1 DEF InsBlock, Statement
  <2>. HIDE DEF g, ins
  <2>. QED BY <2>2, <2>3
<1>4. InitStatements(db, good) = (IF good < n THEN txn ELSE << >>)
                                 \o (IF good = 0 THEN ins ELSE << >>)
  BY Zenon DEF InitStatements
<1>. HIDE DEF n, txn, ins, g
<1>5. CASE good = 0 /\ n = 0
  <2>1. InitStatements(db, good) = << >> \o ins
    BY <1>4, <1>5
  <2>2. << >> \o <<g>> = <<g>>
    BY <1>3, ConcatEmptySeq
  <2>. QED BY <1>3, <1>5, <2>1, <2>2 DEF n, g
<1>6. CASE good = 0 /\ n # 0
  <2>a. good < n /\ good = 0
    BY <1>1, <1>6
  <2>1. InitStatements(db, good) = txn \o ins
    BY <1>4, <2>a, Zenon
  <2>2. Append(Txn(good, << >>), g) = Txn(good, << >>) \o <<g>>
    BY <1>2, <1>3, AppendIsConcat
  <2>. QED BY <1>2, <1>3, <1>6, <2>1, <2>2 DEF n, g
<1>7. CASE good # 0 /\ good < n
  <2>1. InitStatements(db, good) = txn \o << >>
    BY <1>4, <1>7
  <2>2. Txn(good, << >>) \o << >> = Txn(good, << >>)
    BY <1>2, ConcatEmptySeq
  <2>. QED BY <1>1, <1>2, <1>7, <2>1, <2>2 DEF n
<1>8. CASE good # 0 /\ good = n
  <2>1. InitStatements(db, good) = << >> \o << >>
    BY <1>1, <1>4, <1>8
  <2>2. << >> \o << >> = << >>
    BY <1>2, ConcatEmptySeq
  <2>. QED BY <1>1, <1>8, <2>1, <2>2 DEF n
<1>9. good < n \/ good = n
  BY <1>1 DEF n
<1>. QED BY <1>5, <1>6, <1>7, <1>8, <1>9 DEF n

LEMMA StartKeeps ==
    ASSUME StorageInv, NEW good \in 0 .. Len(Loaded(disk)), StartWith(good),
           good = 0 => Loaded(disk) = << >>, stops' \in Nat
    PROVE  StorageInv'
<1>. DEFINE raws == Raws(disk)
            n == Len(raws)
            c == IF good = 0 THEN <<Genesis>> ELSE SubSeq(raws, 1, good)
            g == InsBlock(0, Genesis)
<1>1. /\ ~running /\ running' = TRUE /\ mem' = c /\ before' = Loaded(disk)
      /\ todo' = InitStatements(disk, good)
      /\ had' = had \cup {c} /\ dirty' = FALSE
      /\ UNCHANGED <<disk, view, open, past, errors>>
  BY DEF StartWith
<1>2. disk \in Tables /\ view = disk /\ open = FALSE /\ AtHeight(disk)
  <2>1. disk \in Tables /\ view = disk /\ open = FALSE /\ had \in SUBSET Seq(Nat)
    BY <1>1 DEF StorageInv, StorageTypes
  <2>2. RowsHad(had, disk.blocks) /\ \A d \in had : IsPath(Tree, d)
    BY DEF StorageInv, HistoryInv
  <2>. QED BY <2>1, <2>2, HistoryAt
<1>3. raws \in Seq(Nat) /\ n \in Nat /\ n = Cardinality(DOMAIN disk.blocks)
  BY <1>2, RawsAre, LenProperties
<1>4. PICK k \in 0 .. n :
         /\ Loaded(disk) = SubSeq(raws, 1, k)
         /\ Loaded(disk) \in Seq(Nat) /\ Len(Loaded(disk)) = k
         /\ \A i \in 1 .. k : Loaded(disk)[i] = raws[i]
         /\ k = 0 \/ IsPath(Tree, SubSeq(raws, 1, k))
  BY <1>2, LoadedIs
<1>5. good \in 0 .. k /\ good \in 0 .. n /\ good \in Nat /\ k \in Nat
  BY <1>3, <1>4
<1>. HIDE DEF raws, n, c, g
<1>6. ASSUME good # 0
      PROVE  /\ c = SubSeq(raws, 1, good) /\ c \in Seq(Nat) /\ Len(c) = good /\ IsPath(Tree, c)
             /\ \A i \in 1 .. good : c[i] = raws[i]
  <2>1. c = SubSeq(raws, 1, good)
    BY <1>6 DEF c
  <2>2. good \in 1 .. Len(raws) /\ good \in 1 .. k /\ 1 \in Int /\ good \in Int
    BY <1>5, <1>6 DEF n
  <2>3. \A i \in 1 .. good : raws[i] \in Nat
    BY <1>3, <2>2
  <2>4. c \in Seq(Nat) /\ Len(c) = good /\ \A i \in 1 .. good : c[i] = raws[i]
    BY <2>1, <2>2, <2>3, SubSeqProperties
  <2>. DEFINE l == Loaded(disk)
              d == SubSeq(l, 1, good)
  <2>. HIDE DEF l
  <2>5. l \in Seq(Nat) /\ IsPath(Tree, l) /\ Len(l) = k /\ \A i \in 1 .. k : l[i] = raws[i]
    BY <1>4, <2>2 DEF l
  <2>6. d \in Seq(Nat) /\ IsPath(Tree, d)
    BY <2>2, <2>5, PathPrefix
  <2>7. Len(d) = good /\ \A i \in 1 .. good : d[i] = l[i]
    <3>1. \A i \in 1 .. good : l[i] \in Nat
      BY <2>2, <2>5
    <3>. QED BY <2>2, <3>1, SubSeqProperties
  <2>8. \A i \in 1 .. good : d[i] = c[i]
    BY <2>2, <2>4, <2>5, <2>7
  <2>. HIDE DEF d
  <2>9. d = c
    BY <2>4, <2>6, <2>7, <2>8, SeqEqual
  <2>. QED BY <2>1, <2>4, <2>6, <2>9
<1>7. ASSUME good = 0
      PROVE  c = <<Genesis>> /\ c \in Seq(Nat) /\ Len(c) = 1 /\ IsPath(Tree, c) /\ c[1] = Genesis
  <2>1. c = <<0>>
    BY <1>7 DEF c, Genesis
  <2>2. c \in Seq(Nat) /\ Len(c) = 1 /\ c[1] = 0 /\ c # << >>
    BY <2>1
  <2>. QED BY <2>1, <2>2 DEF IsPath, Genesis
<1>8. c \in Seq(Nat) /\ IsPath(Tree, c)
  BY <1>6, <1>7
<1>9. /\ good = 0 /\ n = 0 => todo' = <<g>>
      /\ good = 0 /\ n # 0 => todo' = Append(Txn(0, << >>), g)
      /\ good # 0 /\ good < n => todo' = Txn(good, << >>)
      /\ good # 0 /\ good = n => todo' = << >>
  BY <1>1, <1>2, <1>5, InitIs DEF n, raws, g
<1>10. /\ << >> \in Seq(Statement) /\ Txn(good, << >>) \in Seq(Statement)
       /\ g \in Statement /\ g.op = "ins_block" /\ g.height = 0 /\ g.block = Genesis
  <2>1. << >> \in Seq(Statement)
    BY EmptySeq
  <2>2. Txn(good, << >>) \in Seq(Statement)
    BY <1>5, <2>1, TxnIs DEF IsTxn
  <2>3. g \in Statement /\ g.op = "ins_block" /\ g.height = 0 /\ g.block = Genesis
    BY DEF g, InsBlock, Genesis, Statement
  <2>. QED BY <2>1, <2>2, <2>3
<1>11. errors = 0 => TxClean(disk)
  BY DEF StorageInv, TxInv
<1>12. \A d : WillHave(d, << >>)
  BY DEF WillHave
<1>13. good = 0 => HadRow({c}, g.height, g.block)
  <2>1. ASSUME good = 0 PROVE DOMAIN c = 1 .. 1
    BY <1>7, <2>1, LenProperties
  <2>2. 0 + 1 \in 1 .. 1 /\ 0 + 1 = 1
    OBVIOUS
  <2>. QED BY <1>7, <1>10, <2>1, <2>2 DEF HadRow
<1>14. ASSUME todo' \in Seq(Statement), WillHave({c}, todo'), Stage',
              errors = 0 => TxPending(view.txs, todo', c)
       PROVE  StorageInv'
  BY <1>1, <1>4, <1>8, <1>14, OperationKeeps
\* The tables are empty.
<1>15. CASE good = 0 /\ n = 0
  <2>1. todo' = <<g>> /\ todo' \in Seq(Statement) /\ Len(todo') = 1 /\ todo'[1] = g /\ todo' # << >>
    <3>1. todo' = <<g>>
      BY <1>9, <1>15
    <3>2. g \in Statement
      BY <1>10
    <3>3. <<g>> \in Seq(Statement) /\ Len(<<g>>) = 1 /\ <<g>>[1] = g /\ <<g>> # << >>
      BY <3>2
    <3>. QED BY <3>1, <3>3
  <2>2. DOMAIN todo' = 1 .. 1
    BY <2>1, LenProperties
  <2>3. WillHave({c}, todo')
    BY <1>13, <1>15, <2>1, <2>2 DEF WillHave
  <2>4. disk.blocks = Table(<< >>)
    <3>1. DOMAIN disk.blocks = {} /\ disk.blocks \in BlockTable
      <4>1. IsFiniteSet(DOMAIN disk.blocks) /\ disk.blocks \in BlockTable
        BY <1>2, TablesAre DEF Tables
      <4>. QED BY <1>3, <1>15, <4>1, FS_EmptySet
    <3>2. << >> \in Seq(Nat) /\ Len(<< >>) = 0
      BY EmptySeq
    <3>3. DOMAIN Table(<< >>) = 0 .. 0 - 1 /\ Table(<< >>) \in BlockTable
      BY <3>2, TableIs
    <3>4. DOMAIN Table(<< >>) = {}
      BY <3>3
    <3>5. \A h \in Nat : RowAt(disk.blocks, h) = RowAt(Table(<< >>), h)
      BY <3>1, <3>4 DEF RowAt
    <3>. QED BY <3>1, <3>3, <3>5, SameRows
  <2>5. Stage'
    <3>1. before' = << >>
      BY <1>1, <1>15
    <3>2. mem' = Append(<< >>, Genesis) /\ Genesis \in Nat /\ Len(<< >>) = 0
      <4>1. Append(<< >>, Genesis) = <<Genesis>>
        OBVIOUS
      <4>. QED BY <1>1, <1>7, <1>15, <4>1 DEF Genesis
    <3>3. OnlyTxs(todo', 2)
      BY <2>1 DEF OnlyTxs
    <3>4. todo'[1] = InsBlock(Len(before'), Genesis)
      BY <2>1, <3>1, <3>2 DEF g
    <3>5. ~open' /\ disk'.blocks = Table(before')
      BY <1>1, <1>2, <2>4, <3>1
    <3>6. Appending'
      BY <2>1, <3>1, <3>2, <3>3, <3>4, <3>5 DEF Appending
    <3>. QED BY <3>6 DEF Stage
  <2>6. ASSUME errors = 0 PROVE TxPending(view.txs, todo', c)
    <3>1. << >> \in Seq(Nat) /\ Len(<< >>) = 0 /\ Genesis \in Nat /\ 0 \in Nat
      BY EmptySeq DEF Genesis
    <3>2. TxPending(disk.txs, DbInsert(Len(<< >>), Genesis), Append(<< >>, Genesis))
      BY <1>2, <1>11, <2>4, <2>6, <3>1, PendingInsert
    <3>3. DbInsert(0, Genesis) = <<g>>
      BY <3>1, InsertIs DEF g
    <3>4. Append(<< >>, Genesis) = c
      <4>1. Append(<< >>, Genesis) = <<Genesis>>
        OBVIOUS
      <4>. QED BY <1>7, <1>15, <4>1
    <3>. QED BY <1>2, <2>1, <3>1, <3>2, <3>3, <3>4
  <2>. QED BY <1>14, <2>1, <2>3, <2>5, <2>6
\* Nothing in the tables connects.
<1>16. CASE good = 0 /\ n # 0
  <2>. DEFINE t == Txn(0, << >>)
  <2>1. todo' = Append(t, g) /\ t \in Seq(Statement)
    BY <1>9, <1>10, <1>16
  <2>. HIDE DEF t
  <2>2. /\ todo' \in Seq(Statement) /\ Len(todo') = Len(t) + 1 /\ Len(t) \in Nat
        /\ todo'[Len(t) + 1] = g /\ \A i \in 1 .. Len(t) : todo'[i] = t[i]
        /\ DOMAIN todo' = 1 .. Len(todo') /\ DOMAIN t = 1 .. Len(t)
    BY <1>10, <2>1, AppendProperties, LenProperties
  <2>3. WillHave({c}, t)
    <3>1. 0 \in Nat /\ << >> \in Seq(Statement) /\ WillHave({c}, << >>)
      BY <1>10, <1>12
    <3>. QED BY <3>1, WillHaveTxn DEF t
  <2>4. WillHave({c}, todo')
    <3>1. ASSUME NEW i \in DOMAIN todo', todo'[i].op = "ins_block"
          PROVE  HadRow({c}, todo'[i].height, todo'[i].block)
      <4>1. i = Len(t) + 1 \/ i \in 1 .. Len(t)
        BY <2>2
      <4>2. CASE i = Len(t) + 1
        BY <1>13, <1>16, <2>2, <4>2
      <4>3. CASE i \in 1 .. Len(t)
        BY <2>2, <2>3, <3>1, <4>3 DEF WillHave
      <4>. QED BY <4>1, <4>2, <4>3
    <3>. QED BY <3>1 DEF WillHave
  <2>5. Stage'
    <3>1. << >> \in Seq(Nat) /\ Len(<< >>) = 0 /\ 0 \in Nat /\ 0 \in 0 .. 0 /\ 0 .. 0 - 1 = {}
      BY EmptySeq
    <3>2. Inserts(<< >>, << >>, 0, 0)
      BY <3>1, InsertsNone
    <3>3. \A h \in 0 .. 0 - 1 : RowAt(view.blocks, h) = RowAt(Table(<< >>), h)
      BY <3>1
    <3>4. TxnTo(t, FALSE, view.blocks, << >>)
      BY <3>1, <3>2, <3>3, TxnStarts DEF t
    <3>5. Clearing'
      BY <1>1, <1>2, <1>7, <1>16, <2>1, <3>4 DEF Clearing, g
    <3>. QED BY <1>1, <3>5 DEF Stage, Replacing
  <2>6. ASSUME errors = 0 PROVE TxPending(view.txs, todo', c)
    BY <1>2, <1>8, <1>11, <2>1, <2>6, PendingClear DEF t, g
  <2>. QED BY <1>14, <2>2, <2>4, <2>5, <2>6
\* The rows that connect.
<1>17. ASSUME good # 0
       PROVE  /\ \A h \in 0 .. good - 1 : /\ RowAt(disk.blocks, h) = RowAt(Table(c), h)
                                          /\ disk.blocks[h] = c[h + 1]
              /\ good = n => DOMAIN disk.blocks = 0 .. good - 1
  <2>a. good \in 1 .. Len(raws)
    BY <1>5, <1>17 DEF n
  <2>b. IsPath(Tree, SubSeq(raws, 1, good))
    BY <1>6, <1>17
  <2>1. good \in 1 .. Len(raws) /\ IsPath(Tree, SubSeq(raws, 1, good))
    BY <2>a, <2>b
  <2>2. /\ \A i \in 1 .. good : i - 1 \in DOMAIN disk.blocks /\ disk.blocks[i - 1] = raws[i]
        /\ good = Len(raws) => DOMAIN disk.blocks = 0 .. good - 1
    BY <1>2, <2>1, LoadedRows DEF raws
  <2>3. ASSUME NEW h \in 0 .. good - 1
        PROVE  RowAt(disk.blocks, h) = RowAt(Table(c), h) /\ disk.blocks[h] = c[h + 1]
    <3>1. h + 1 \in 1 .. good /\ (h + 1) - 1 = h
      BY <1>5
    <3>2. h \in DOMAIN disk.blocks /\ disk.blocks[h] = raws[h + 1]
      BY <2>2, <3>1
    <3>3. h \in 0 .. Len(c) - 1 /\ c[h + 1] = raws[h + 1]
      BY <1>6, <1>17, <3>1
    <3>4. h \in DOMAIN Table(c) /\ Table(c)[h] = c[h + 1]
      BY <1>8, <3>3, TableIs
    <3>. QED BY <3>2, <3>3, <3>4 DEF RowAt
  <2>. QED BY <2>2, <2>3 DEF n
\* Some rows do not connect.
<1>18. CASE good # 0 /\ good < n
  <2>1. todo' = Txn(good, << >>) /\ todo' \in Seq(Statement)
    BY <1>9, <1>10, <1>18
  <2>2. WillHave({c}, todo')
    BY <1>5, <1>10, <1>12, <2>1, WillHaveTxn
  <2>3. Len(c) = good /\ good \in 0 .. Len(c) /\ Inserts(<< >>, c, good, Len(c))
    BY <1>5, <1>6, <1>18, InsertsNone
  <2>4. Stage'
    <3>1. \A h \in 0 .. good - 1 : RowAt(view.blocks, h) = RowAt(Table(c), h)
      BY <1>2, <1>17, <1>18
    <3>2. TxnTo(Txn(good, << >>), FALSE, view.blocks, c)
      BY <1>8, <2>3, <3>1, TxnStarts
    <3>3. TxnTo(todo', open', view'.blocks, mem')
      BY <1>1, <1>2, <2>1, <3>2
    <3>. QED BY <1>1, <3>3 DEF Stage, Replacing
  <2>5. ASSUME errors = 0 PROVE TxPending(view.txs, todo', c)
    <3>1. \A h \in 0 .. good - 1 : RowAt(disk.blocks, h) = RowAt(Table(c), h)
      BY <1>17, <1>18
    <3>2. TxPending(disk.txs, Txn(good, << >>), c)
      BY <1>2, <1>8, <1>11, <2>3, <2>5, <3>1, PendingTxn
    <3>. QED BY <1>2, <2>1, <3>2
  <2>. QED BY <1>14, <2>1, <2>2, <2>4, <2>5
\* Every row connects.
<1>19. CASE good # 0 /\ good = n
  <2>1. todo' = << >> /\ todo' \in Seq(Statement) /\ Len(todo') = 0
    BY <1>9, <1>10, <1>19, EmptySeq
  <2>2. WillHave({c}, todo')
    BY <1>12, <2>1
  <2>3. disk.blocks = Table(c)
    <3>1. DOMAIN disk.blocks = 0 .. good - 1 /\ DOMAIN Table(c) = 0 .. good - 1
      BY <1>6, <1>8, <1>17, <1>19, TableIs
    <3>2. disk.blocks \in BlockTable /\ Table(c) \in BlockTable
      BY <1>2, <1>8, TableIs DEF Tables
    <3>3. \A h \in Nat : RowAt(disk.blocks, h) = RowAt(Table(c), h)
      BY <1>17, <1>19, <3>1 DEF RowAt
    <3>. QED BY <3>2, <3>3, SameRows
  <2>4. Stage'
    <3>1. OnlyTxs(todo', 1)
      BY <2>1 DEF OnlyTxs
    <3>. QED BY <1>1, <1>2, <2>3, <3>1 DEF Stage, Written
  <2>5. ASSUME errors = 0 PROVE TxPending(view.txs, todo', c)
    BY <1>2, <1>8, <1>11, <2>1, <2>3, <2>5, PendingNone
  <2>. QED BY <1>14, <2>1, <2>2, <2>4, <2>5
<1>20. good < n \/ good = n
  BY <1>3, <1>5
<1>. QED BY <1>15, <1>16, <1>18, <1>19, <1>20

\* The rows after a statement are the rows before it, or the one it writes.
LEMMA EffectHad ==
    ASSUME NEW cs, NEW db \in Tables, NEW s \in Statement, RowsHad(cs, db.blocks),
           s.op = "ins_block" => HadRow(cs, s.height, s.block)
    PROVE  RowsHad(cs, Effect(db, s).blocks)
<1>. DEFINE new == Effect(db, s).blocks
<1>1. Effect(db, s) \in Tables
  BY EffectType
<1>2. DOMAIN new \in SUBSET Nat
  BY <1>1, TablesAre
<1>3. ASSUME NEW h \in DOMAIN new PROVE HadRow(cs, h, new[h])
  <2>1. h \in Nat /\ RowAt(new, h) = {new[h]}
    BY <1>2 DEF RowAt
  <2>2. RowAt(new, h) = IF Touches(s, h) THEN RowAfter(s) ELSE RowAt(db.blocks, h)
    BY <2>1, EffectRow
  <2>. HIDE DEF new
  <2>3. CASE Touches(s, h)
    <3>1. RowAfter(s) = {new[h]}
      BY <2>1, <2>2, <2>3
    <3>2. s.op = "ins_block" /\ s.block = new[h]
      BY <3>1 DEF RowAfter
    <3>3. h = s.height
      BY <2>3, <3>2 DEF Touches
    <3>. QED BY <3>2, <3>3
  <2>4. CASE ~Touches(s, h)
    <3>1. RowAt(db.blocks, h) = {new[h]}
      BY <2>1, <2>2, <2>4
    <3>2. h \in DOMAIN db.blocks /\ db.blocks[h] = new[h]
      BY <3>1 DEF RowAt
    <3>. QED BY <3>2 DEF RowsHad
  <2>. QED BY <2>3, <2>4
<1>. QED BY <1>3 DEF RowsHad

\* What the next statement does, in terms of the invariant.
LEMMA NextStatement ==
    ASSUME StorageInv, todo # << >>
    PROVE  /\ running
           /\ Head(todo) \in Statement /\ Head(todo) = todo[1] /\ Tail(todo) \in Seq(Statement)
           /\ Len(todo) \in Nat \ {0} /\ Len(Tail(todo)) = Len(todo) - 1
           /\ DOMAIN todo = 1 .. Len(todo) /\ DOMAIN Tail(todo) = 1 .. Len(todo) - 1
           /\ \A i \in 1 .. Len(todo) - 1 : Tail(todo)[i] = todo[i + 1]
           /\ \A cs : WillHave(cs, todo) => WillHave(cs, Tail(todo))
<1>1. running /\ todo \in Seq(Statement)
  BY DEF StorageInv, StorageTypes
<1>2. /\ Head(todo) \in Statement /\ Tail(todo) \in Seq(Statement)
      /\ Len(Tail(todo)) = Len(todo) - 1
      /\ \A i \in 1 .. Len(Tail(todo)) : Tail(todo)[i] = todo[i + 1]
  BY <1>1, HeadTailProperties
<1>3. /\ Len(todo) \in Nat \ {0} /\ DOMAIN todo = 1 .. Len(todo)
      /\ DOMAIN Tail(todo) = 1 .. Len(todo) - 1
  BY <1>1, <1>2, EmptySeq, LenProperties
<1>4. Head(todo) = todo[1]
  BY <1>1
<1>5. ASSUME NEW cs, WillHave(cs, todo) PROVE WillHave(cs, Tail(todo))
  <2>. DEFINE t == Tail(todo)
  <2>1. ASSUME NEW i \in DOMAIN t PROVE i + 1 \in DOMAIN todo /\ t[i] = todo[i + 1]
    BY <1>2, <1>3
  <2>. HIDE DEF t
  <2>2. WillHave(cs, t)
    BY <1>5, <2>1 DEF WillHave
  <2>. QED BY <2>2 DEF t
<1>. QED BY <1>1, <1>2, <1>3, <1>4, <1>5


LEMMA BlocksKept ==
    ASSUME NEW db \in Tables, NEW s \in Statement, s.op \notin {"ins_block", "del_blocks"}
    PROVE  Effect(db, s).blocks = db.blocks
<1>1. Effect(db, s).blocks \in BlockTable /\ db.blocks \in BlockTable
  BY EffectType DEF Tables
<1>2. ASSUME NEW h \in Nat PROVE RowAt(Effect(db, s).blocks, h) = RowAt(db.blocks, h)
  BY EffectRow DEF Touches
<1>. QED BY <1>1, <1>2, SameRows

LEMMA BlockAdded ==
    ASSUME NEW db \in Tables, NEW c \in Seq(Nat), NEW b \in Nat, db.blocks = Table(c),
           NEW s \in Statement, s = InsBlock(Len(c), b)
    PROVE  Effect(db, s).blocks = Table(Append(c, b))
<1>. DEFINE d == Append(c, b)
            n == Len(c)
            new == Effect(db, s).blocks
<1>1. /\ d \in Seq(Nat) /\ Len(d) = n + 1 /\ d[n + 1] = b /\ n \in Nat
      /\ \A i \in 1 .. n : d[i] = c[i]
  BY AppendProperties, LenProperties
<1>2. s.op = "ins_block" /\ s.height = n /\ s.block = b
  BY DEF InsBlock
<1>. HIDE DEF d, n
<1>3. DOMAIN Table(c) = 0 .. n - 1 /\ \A h \in 0 .. n - 1 : Table(c)[h] = c[h + 1]
  BY TableIs DEF n
<1>4. DOMAIN Table(d) = 0 .. n /\ \A h \in 0 .. n : Table(d)[h] = d[h + 1]
  <2>1. DOMAIN Table(d) = 0 .. (n + 1) - 1 /\ \A h \in 0 .. (n + 1) - 1 : Table(d)[h] = d[h + 1]
    BY <1>1, TableIs
  <2>2. (n + 1) - 1 = n
    BY <1>1
  <2>. QED BY <2>1, <2>2
<1>5. new \in BlockTable /\ Table(d) \in BlockTable
  BY <1>1, EffectType, TableIs DEF Tables
<1>6. ASSUME NEW h \in Nat PROVE RowAt(new, h) = RowAt(Table(d), h)
  <2>1. RowAt(new, h) = IF h = n THEN {b} ELSE RowAt(Table(c), h)
    <3>1. RowAt(new, h) = IF Touches(s, h) THEN RowAfter(s) ELSE RowAt(Table(c), h)
      BY EffectRow
    <3>. HIDE DEF new
    <3>. QED BY <1>2, <3>1 DEF Touches, RowAfter
  <2>. HIDE DEF new
  <2>2. CASE h = n
    <3>1. h \in DOMAIN Table(d) /\ Table(d)[h] = b
      BY <1>1, <1>4, <2>2
    <3>. QED BY <2>1, <2>2, <3>1 DEF RowAt
  <2>3. CASE h < n
    <3>1. h \in 0 .. n - 1 /\ h \in 0 .. n /\ h + 1 \in 1 .. n
      BY <1>1, <2>3
    <3>2. Table(d)[h] = Table(c)[h]
      BY <1>1, <1>3, <1>4, <3>1
    <3>3. RowAt(new, h) = RowAt(Table(c), h)
      BY <1>1, <2>1, <2>3
    <3>. QED BY <1>3, <1>4, <3>1, <3>2, <3>3 DEF RowAt
  <2>4. CASE h > n
    <3>1. h \notin 0 .. n - 1 /\ h \notin 0 .. n /\ h # n
      BY <1>1, <2>4
    <3>. QED BY <1>3, <1>4, <2>1, <3>1 DEF RowAt
  <2>. QED BY <1>1, <2>2, <2>3, <2>4
<1>7. new = Table(d)
  <2>. HIDE DEF new
  <2>. QED BY <1>5, <1>6, SameRows
<1>. QED BY <1>7 DEF d

\* The statement runs as the stage of the operation says; what is committed
\* then is the table of the chain, or of none, and nothing is left to delete.
LEMMA ExecuteStage ==
    ASSUME StorageInv, Execute, ~dirty
    PROVE  /\ Stage'
           /\ \/ disk' = disk
              \/ /\ disk' = view'
                 /\ disk'.blocks = Table(mem) \/ Len(mem) = 1
                 /\ \A i \in DOMAIN todo' : todo'[i].op # "del_txs"
<1>. DEFINE s == Head(todo)
            commits == IF s.op = "commit" THEN open ELSE ~open /\ s.op # "begin"
<1>1. /\ todo # << >> /\ todo' = Tail(todo) /\ view' = Effect(view, s)
      /\ open' = (IF s.op = "begin" THEN TRUE ELSE open /\ s.op # "commit")
      /\ disk' = (IF commits THEN view' ELSE disk)
      /\ mem' = mem /\ before' = before
  BY DEF Execute
<1>2. /\ running /\ s \in Statement /\ s = todo[1] /\ todo' \in Seq(Statement)
      /\ Len(todo) \in Nat \ {0} /\ Len(todo') = Len(todo) - 1
      /\ DOMAIN todo' = 1 .. Len(todo) - 1
      /\ \A i \in 1 .. Len(todo) - 1 : todo'[i] = todo[i + 1]
  BY <1>1, NextStatement
<1>3. /\ todo \in Seq(Statement) /\ view \in Tables /\ disk \in Tables /\ open \in BOOLEAN
      /\ mem \in Seq(Nat) /\ before \in Seq(Nat) /\ (~open => view = disk)
  BY DEF StorageInv, StorageTypes
<1>4. Stage
  BY <1>2 DEF StorageInv, StageInv
<1>. HIDE DEF s
<1>5. ASSUME OnlyTxs(todo', 1), disk' = view', disk'.blocks = Table(mem), ~open'
      PROVE  /\ Stage'
             /\ disk'.blocks = Table(mem) \/ Len(mem) = 1
             /\ \A i \in DOMAIN todo' : todo'[i].op # "del_txs"
  <2>1. Stage'
    BY <1>1, <1>5 DEF Stage, Written
  <2>2. \A i \in DOMAIN todo' : todo'[i].op = "ins_tx"
    BY <1>2, <1>5 DEF OnlyTxs
  <2>. QED BY <1>5, <2>1, <2>2
<1>6. CASE Written
  <2>1. s.op = "ins_tx" /\ ~open
    BY <1>2, <1>6 DEF Written, OnlyTxs
  <2>2. disk' = view' /\ ~open'
    BY <1>1, <2>1
  <2>3. view'.blocks = view.blocks
    BY <1>1, <1>2, <1>3, <2>1, BlocksKept
  <2>4. disk'.blocks = Table(mem)
    BY <1>3, <1>6, <2>1, <2>2, <2>3 DEF Written
  <2>5. OnlyTxs(todo', 1)
    <3>1. ASSUME NEW j \in 1 .. Len(todo') PROVE todo'[j].op = "ins_tx"
      <4>1. todo'[j] = todo[j + 1] /\ j + 1 \in 1 .. Len(todo)
        BY <1>2
      <4>. QED BY <1>6, <4>1 DEF Written, OnlyTxs
    <3>. QED BY <3>1 DEF OnlyTxs
  <2>. QED BY <1>5, <2>2, <2>4, <2>5
<1>7. CASE Appending
  <2>1. PICK b \in Nat : mem = Append(before, b) /\ todo[1] = InsBlock(Len(before), b)
    BY <1>7 DEF Appending
  <2>2. s.op = "ins_block" /\ ~open
    BY <1>2, <1>7, <2>1 DEF Appending, InsBlock
  <2>3. disk' = view' /\ ~open'
    BY <1>1, <2>2
  <2>4. view'.blocks = Table(Append(before, b))
    BY <1>1, <1>2, <1>3, <1>7, <2>1, <2>2, BlockAdded DEF Appending
  <2>5. disk'.blocks = Table(mem)
    BY <2>1, <2>3, <2>4
  <2>6. OnlyTxs(todo', 1)
    <3>1. ASSUME NEW j \in 1 .. Len(todo') PROVE todo'[j].op = "ins_tx"
      <4>1. todo'[j] = todo[j + 1] /\ j + 1 \in 2 .. Len(todo)
        BY <1>2
      <4>. QED BY <1>7, <4>1 DEF Appending, OnlyTxs
    <3>. QED BY <3>1 DEF OnlyTxs
  <2>. QED BY <1>5, <2>3, <2>5, <2>6
<1>8. CASE Loaded(disk) = before /\ TxnTo(todo, open, view.blocks, mem)
  <2>1. /\ todo[1].op = "commit" => open /\ Tail(todo) = << >> /\ view.blocks = Table(mem)
        /\ todo[1].op # "commit" =>
              TxnTo(Tail(todo), IF todo[1].op = "begin" THEN TRUE ELSE open,
                    Effect(view, Head(todo)).blocks, mem)
        /\ todo[1].op = "begin" => ~open
        /\ todo[1].op # "begin" => open
    BY <1>3, <1>8, TxnStep
  <2>2. CASE s.op = "commit"
    <3>1. open /\ todo' = << >> /\ view.blocks = Table(mem)
      BY <1>1, <1>2, <2>1, <2>2
    <3>2. view' = view /\ disk' = view' /\ ~open'
      BY <1>1, <1>2, <2>2, <3>1, NoEffect
    <3>3. OnlyTxs(todo', 1)
      <4>1. Len(todo') = 0
        BY <3>1
      <4>. QED BY <4>1 DEF OnlyTxs
    <3>. QED BY <1>5, <3>1, <3>2, <3>3
  <2>3. CASE s.op # "commit"
    <3>1. disk' = disk
      BY <1>1, <1>2, <2>1, <2>3
    <3>2. open' = IF todo[1].op = "begin" THEN TRUE ELSE open
      BY <1>1, <1>2, <1>3, <2>3
    <3>3. TxnTo(todo', open', view'.blocks, mem')
      BY <1>1, <1>2, <2>1, <2>3, <3>2 DEF s
    <3>4. Stage'
      BY <1>1, <1>8, <3>1, <3>3 DEF Stage, Replacing
    <3>. QED BY <3>1, <3>4
  <2>. QED BY <2>2, <2>3
<1>9. CASE Loaded(disk) = before /\ Clearing
  <2>. DEFINE g == InsBlock(0, Genesis)
  <2>1. before = << >> /\ mem = <<Genesis>>
    BY <1>9 DEF Clearing
  <2>2. PICK t \in Seq(Statement) : todo = Append(t, g) /\ TxnTo(t, open, view.blocks, << >>)
    BY <1>9 DEF Clearing
  <2>3. g \in Statement /\ g.op = "ins_block"
    BY DEF InsBlock, Genesis, Statement
  <2>. HIDE DEF g
  <2>4. << >> \in Seq(Nat)
    BY EmptySeq
  <2>5. /\ t # << >> /\ Head(t) = t[1] /\ Tail(t) \in Seq(Statement)
        /\ t[1].op = "commit" => open /\ Tail(t) = << >> /\ view.blocks = Table(<< >>)
        /\ t[1].op # "commit" =>
              TxnTo(Tail(t), IF t[1].op = "begin" THEN TRUE ELSE open,
                    Effect(view, Head(t)).blocks, << >>)
        /\ t[1].op = "begin" => ~open
        /\ t[1].op # "begin" => open
    <3>1. t # << >>
      BY <2>2 DEF TxnTo
    <3>2. Tail(t) \in Seq(Statement)
      BY <3>1, HeadTailProperties
    <3>. QED BY <1>3, <2>2, <2>4, <3>1, <3>2, TxnStep, ZenonT(40)
  <2>6. s = Head(t) /\ todo' = Append(Tail(t), g)
    BY <1>1, <2>2, <2>5, HeadTailAppend DEF s
  <2>7. CASE s.op = "commit"
    <3>1. open /\ Tail(t) = << >> /\ view.blocks = Table(<< >>)
      BY <2>5, <2>6, <2>7
    <3>2. todo' = <<g>> /\ Len(todo') = 1 /\ todo'[1] = g /\ todo' # << >>
      <4>1. Append(<< >>, g) = <<g>>
        OBVIOUS
      <4>2. todo' = <<g>>
        BY <2>6, <3>1, <4>1
      <4>. QED BY <4>2
    <3>3. view' = view /\ disk' = view' /\ ~open'
      BY <1>1, <1>2, <2>7, <3>1, NoEffect
    <3>4. Appending'
      <4>1. mem' = Append(before', Genesis) /\ Genesis \in Nat /\ Len(before') = 0 /\ before' = << >>
        <5>1. Append(<< >>, Genesis) = <<Genesis>>
          OBVIOUS
        <5>. QED BY <1>1, <2>1, <5>1 DEF Genesis
      <4>2. todo'[1] = InsBlock(Len(before'), Genesis)
        BY <3>2, <4>1 DEF g
      <4>3. OnlyTxs(todo', 2)
        BY <3>2 DEF OnlyTxs
      <4>4. disk'.blocks = Table(before')
        BY <3>1, <3>3, <4>1
      <4>. QED BY <3>2, <3>3, <4>1, <4>2, <4>3, <4>4 DEF Appending
    <3>5. Len(mem) = 1
      BY <2>1
    <3>6. \A i \in DOMAIN todo' : todo'[i].op # "del_txs"
      <4>1. DOMAIN todo' = 1 .. 1
        BY <1>2, <3>2
      <4>2. ASSUME NEW i \in DOMAIN todo' PROVE todo'[i].op # "del_txs"
        <5>1. i = 1
          BY <4>1
        <5>. QED BY <2>3, <3>2, <5>1
      <4>. QED BY <4>2
    <3>. QED BY <3>3, <3>4, <3>5, <3>6 DEF Stage
  <2>8. CASE s.op # "commit"
    <3>1. disk' = disk
      BY <1>1, <2>5, <2>6, <2>8
    <3>2. open' = IF t[1].op = "begin" THEN TRUE ELSE open
      BY <1>1, <1>3, <2>5, <2>6, <2>8
    <3>3. TxnTo(Tail(t), open', view'.blocks, << >>)
      BY <1>1, <2>5, <2>6, <2>8, <3>2
    <3>4. Clearing'
      BY <1>1, <2>1, <2>5, <2>6, <3>3 DEF Clearing, g
    <3>5. Stage'
      BY <1>1, <1>9, <3>1, <3>4 DEF Stage, Replacing
    <3>. QED BY <3>1, <3>5
  <2>. QED BY <2>7, <2>8
<1>. QED BY <1>4, <1>6, <1>7, <1>8, <1>9 DEF Stage, Replacing

LEMMA ExecuteKeeps ==
    ASSUME StorageInv, Execute
    PROVE  StorageInv'
<1>. DEFINE s == Head(todo)
            commits == IF s.op = "commit" THEN open ELSE ~open /\ s.op # "begin"
<1>1. /\ todo # << >> /\ todo' = Tail(todo) /\ view' = Effect(view, s)
      /\ open' = (IF s.op = "begin" THEN TRUE ELSE open /\ s.op # "commit")
      /\ disk' = (IF commits THEN view' ELSE disk)
      /\ past' = (IF commits THEN past \cup {disk} ELSE past)
      /\ UNCHANGED <<running, mem, before, had, stops, errors, dirty>>
  BY DEF Execute
<1>2. /\ running /\ s \in Statement /\ s = todo[1] /\ todo' \in Seq(Statement)
      /\ Len(todo) \in Nat \ {0} /\ DOMAIN todo = 1 .. Len(todo)
      /\ \A cs : WillHave(cs, todo) => WillHave(cs, todo')
  BY <1>1, NextStatement
<1>3. /\ todo \in Seq(Statement) /\ view \in Tables /\ disk \in Tables /\ past \subseteq Tables
      /\ open \in BOOLEAN /\ mem \in Seq(Nat) /\ (~open => view = disk)
  BY DEF StorageInv, StorageTypes
<1>4. view' \in Tables
  BY <1>1, <1>2, <1>3, EffectType
<1>. HIDE DEF s
<1>5. StorageTypes'
  <2>1. open' \in BOOLEAN /\ disk' \in Tables /\ past' \subseteq Tables
    BY <1>1, <1>3, <1>4
  <2>2. ASSUME ~open' PROVE view' = disk'
    <3>1. CASE s.op = "commit" /\ ~open
      <4>1. view' = view
        BY <1>1, <1>2, <3>1, NoEffect
      <4>. QED BY <1>1, <1>3, <3>1, <4>1
    <3>2. CASE ~(s.op = "commit" /\ ~open)
      BY <1>1, <2>2, <3>2
    <3>. QED BY <3>1, <3>2
  <2>. QED BY <1>1, <1>2, <1>4, <2>1, <2>2 DEF StorageInv, StorageTypes
<1>6. HistoryInv'
  <2>1. /\ \A db \in past \cup {disk, view} : RowsHad(had, db.blocks)
        /\ WillHave(had, todo)
    BY DEF StorageInv, HistoryInv
  <2>2. s.op = "ins_block" => HadRow(had, s.height, s.block)
    BY <1>2, <2>1 DEF WillHave
  <2>3. RowsHad(had, view'.blocks)
    <3>1. RowsHad(had, view.blocks)
      BY <2>1
    <3>. QED BY <1>1, <1>2, <1>3, <2>2, <3>1, EffectHad
  <2>4. ASSUME NEW db \in (past \cup {disk, view})' PROVE RowsHad(had, db.blocks)
    <3>1. db \in past \cup {disk, view} \/ db = view'
      BY <1>1
    <3>. QED BY <2>1, <2>3, <3>1
  <2>5. WillHave(had, todo')
    BY <1>2, <2>1
  <2>. QED BY <1>1, <2>4, <2>5 DEF StorageInv, HistoryInv
<1>7. StageInv'
  BY <1>1, ExecuteStage DEF StageInv
<1>8. TxInv'
  <2>. SUFFICES ASSUME errors = 0
                PROVE  /\ ~dirty' /\ TxPending(view'.txs, todo', mem')
                       /\ \A db \in (past \cup {disk})' : TxClean(db)
    BY <1>1 DEF TxInv
  <2>1. /\ ~dirty /\ \A db \in past \cup {disk} : TxClean(db)
        /\ TxPending(view.txs, todo, mem)
    BY <1>2 DEF StorageInv, TxInv
  <2>2. TxPending(view'.txs, todo', mem)
    BY <1>1, <1>3, <2>1, TxPendingStep DEF s
  <2>3. TxClean(disk')
    <3>1. CASE disk' = disk
      BY <2>1, <3>1
    <3>2. CASE /\ disk' = view'
               /\ disk'.blocks = Table(mem) \/ Len(mem) = 1
               /\ \A i \in DOMAIN todo' : todo'[i].op # "del_txs"
      BY <1>2, <1>3, <1>4, <2>2, <3>2, CleanWhen
    <3>. QED BY <2>1, <3>1, <3>2, ExecuteStage
  <2>. QED BY <1>1, <2>1, <2>2, <2>3
<1>. QED BY <1>5, <1>6, <1>7, <1>8 DEF StorageInv

LEMMA ExecuteFailsKeeps ==
    ASSUME StorageInv, ExecuteFails
    PROVE  StorageInv'
<1>1. /\ todo # << >> /\ todo' = Tail(todo) /\ errors' = errors + 1 /\ dirty' = TRUE
      /\ \/ view' = view /\ open' = open
         \/ view' = disk /\ open' = FALSE
      /\ UNCHANGED <<running, mem, before, disk, past, had, stops>>
  BY DEF ExecuteFails
<1>2. running /\ todo' \in Seq(Statement) /\ \A cs : WillHave(cs, todo) => WillHave(cs, todo')
  BY <1>1, NextStatement
<1>3. StorageTypes'
  <2>a. errors \in Nat /\ open \in BOOLEAN /\ running \in BOOLEAN
    BY DEF StorageInv, StorageTypes
  <2>b. open' \in BOOLEAN /\ dirty' \in BOOLEAN /\ running' \in BOOLEAN
    BY <1>1, <2>a, Zenon
  <2>c. errors' \in Nat
    BY <1>1, <2>a
  <2>1. errors' \in Nat /\ dirty' \in BOOLEAN /\ open' \in BOOLEAN /\ running' \in BOOLEAN
    BY <2>b, <2>c, Zenon
  <2>2. view' \in Tables /\ (~open' => view' = disk')
    BY <1>1 DEF StorageInv, StorageTypes
  <2>. QED BY <1>1, <1>2, <2>1, <2>2 DEF StorageInv, StorageTypes
<1>4. HistoryInv'
  <2>1. WillHave(had', todo')
    BY <1>1, <1>2 DEF StorageInv, HistoryInv
  <2>2. \A db \in (past \cup {disk, view})' : db \in past \cup {disk, view}
    BY <1>1
  <2>. QED BY <1>1, <2>1, <2>2 DEF StorageInv, HistoryInv
<1>5. StageInv'
  BY <1>1 DEF StageInv
<1>6. TxInv'
  <2>1. errors' # 0
    BY <1>1 DEF StorageInv, StorageTypes
  <2>. QED BY <2>1 DEF TxInv
<1>. QED BY <1>3, <1>4, <1>5, <1>6 DEF StorageInv

\* The process is down, with tables that were committed.
LEMMA StopKeeps ==
    ASSUME StorageInv, Stop, disk' \in past \cup {disk}, view' = disk', past' \subseteq past
    PROVE  StorageInv'
<1>1. /\ running' = FALSE /\ mem' = << >> /\ before' = << >> /\ todo' = << >> /\ open' = FALSE
      /\ stops' = stops + 1 /\ UNCHANGED <<had, errors, dirty>>
  BY DEF Stop
<1>2. << >> \in Seq(Nat) /\ << >> \in Seq(Statement)
  BY EmptySeq
<1>3. StorageTypes'
  <2>1. stops' \in Nat /\ dirty' \in BOOLEAN /\ errors' \in Nat /\ had' \subseteq Seq(Nat)
    BY <1>1 DEF StorageInv, StorageTypes
  <2>2. disk' \in Tables /\ view' \in Tables /\ past' \subseteq Tables
    BY DEF StorageInv, StorageTypes
  <2>3. /\ mem' \in Seq(Nat) /\ before' \in Seq(Nat) /\ todo' \in Seq(Statement)
        /\ running' \in BOOLEAN /\ open' \in BOOLEAN
    BY <1>1, <1>2
  <2>. QED BY <1>1, <2>1, <2>2, <2>3 DEF StorageTypes
<1>4. HistoryInv'
  <2>1. WillHave(had', todo')
    BY <1>1 DEF WillHave
  <2>2. \A db \in (past \cup {disk, view})' : db \in past \cup {disk, view}
    OBVIOUS
  <2>. QED BY <1>1, <2>1, <2>2 DEF StorageInv, HistoryInv
<1>5. StageInv'
  BY <1>1 DEF StageInv
<1>6. TxInv'
  BY <1>1 DEF StorageInv, TxInv
<1>. QED BY <1>3, <1>4, <1>5, <1>6 DEF StorageInv

LEMMA CheckpointKeeps ==
    ASSUME StorageInv, Checkpoint
    PROVE  StorageInv'
<1>1. past' = {} /\ UNCHANGED <<running, mem, before, todo, disk, view, open, had, stops, errors, dirty>>
  BY DEF Checkpoint
<1>2. StorageTypes'
  BY <1>1 DEF StorageInv, StorageTypes
<1>3. HistoryInv'
  BY <1>1 DEF StorageInv, HistoryInv
<1>4. StageInv'
  BY <1>1 DEF StorageInv, StageInv, Stage, Written, Appending, Replacing, Clearing
<1>5. TxInv'
  BY <1>1 DEF StorageInv, TxInv
<1>. QED BY <1>2, <1>3, <1>4, <1>5 DEF StorageInv

LEMMA StorageInit == Init => StorageInv
<1>. SUFFICES ASSUME Init PROVE StorageInv
  OBVIOUS
<1>1. << >> \in Seq(Nat) /\ << >> \in Seq(Statement) /\ DOMAIN << >> = {}
  BY EmptySeq
<1>2. NoTables \in Tables /\ NoTables.blocks = << >> /\ NoTables.txs = EmptyBag
  <2>. DEFINE e == << >>
              bag == EmptyBag
  <2>1. e \in [{} -> Nat] /\ {} \in SUBSET Nat /\ IsFiniteSet({})
    BY FS_EmptySet
  <2>2. e \in BlockTable
    BY <2>1, BlockTableIs
  <2>3. bag \in [{} -> Nat \ {0}] /\ {} \in SUBSET (Nat \X Nat \X Nat)
    BY DEF EmptyBag, SetToBag
  <2>4. bag \in TxTable
    BY <2>3 DEF TxTable
  <2>. HIDE DEF e, bag
  <2>5. NoTables = [blocks |-> e, txs |-> bag]
    BY DEF NoTables, e, bag
  <2>6. NoTables \in Tables /\ NoTables.blocks = e /\ NoTables.txs = bag
    BY <2>2, <2>4, <2>5 DEF Tables
  <2>. QED BY <2>6 DEF e, bag
<1>3. DOMAIN EmptyBag = {}
  BY DEF EmptyBag, SetToBag
<1>4. StorageTypes
  BY <1>1, <1>2 DEF Init, StorageTypes
<1>5. HistoryInv
  BY <1>1, <1>2 DEF Init, HistoryInv, RowsHad, WillHave
<1>6. StageInv
  BY DEF Init, StageInv
<1>7. TxInv
  BY <1>2, <1>3 DEF Init, TxInv, TxClean
<1>. QED BY <1>4, <1>5, <1>6, <1>7 DEF StorageInv

LEMMA StorageStep == StorageInv /\ [Next]_vars => StorageInv'
<1>. SUFFICES ASSUME StorageInv, [Next]_vars PROVE StorageInv'
  OBVIOUS
<1>1. CASE Start
  <2>1. stops' \in Nat /\ StartWith(Len(Loaded(disk)))
    BY <1>1 DEF Start, StorageInv, StorageTypes
  <2>2. Loaded(disk) \in Seq(Nat)
    BY LoadedIs DEF StorageInv, StorageTypes
  <2>3. Len(Loaded(disk)) \in 0 .. Len(Loaded(disk)) /\ (Len(Loaded(disk)) = 0 => Loaded(disk) = << >>)
    BY <2>2, EmptySeq, LenProperties
  <2>. QED BY <2>1, <2>3, StartKeeps
<1>2. CASE StartClockBack
  <2>1. PICK good \in 1 .. Len(Loaded(disk)) - 1 : StartWith(good)
    BY <1>2 DEF StartClockBack
  <2>2. stops' \in Nat
    BY <1>2 DEF StartClockBack, StorageInv, StorageTypes
  <2>3. Loaded(disk) \in Seq(Nat)
    BY LoadedIs DEF StorageInv, StorageTypes
  <2>4. good \in 0 .. Len(Loaded(disk)) /\ good # 0
    BY <2>3, LenProperties
  <2>. QED BY <2>1, <2>2, <2>4, StartKeeps
<1>3. ASSUME NEW b \in DOMAIN Tree, Connect(b) PROVE StorageInv'
  BY <1>3, ConnectKeeps
<1>4. ASSUME NEW cand \in Paths, TryReplace(cand) PROVE StorageInv'
  BY <1>4, TryReplaceKeeps
<1>5. CASE Execute
  BY <1>5, ExecuteKeeps
<1>6. CASE ExecuteFails
  BY <1>6, ExecuteFailsKeeps
<1>7. CASE Crash
  <2>1. Stop /\ view' = disk' /\ disk' \in past \cup {disk} /\ past' \subseteq past
    BY <1>7 DEF Crash
  <2>. QED BY <2>1, StopKeeps
<1>8. CASE PowerFails
  <2>1. Stop /\ view' = disk' /\ disk' \in past \cup {disk} /\ past' \subseteq past
    BY <1>8 DEF PowerFails
  <2>. QED BY <2>1, StopKeeps
<1>9. CASE Checkpoint
  BY <1>9, CheckpointKeeps
<1>10. CASE UNCHANGED vars
  BY <1>10 DEF vars, StorageInv, StorageTypes, HistoryInv, StageInv, Stage, Written, Appending,
               Replacing, Clearing, TxInv
<1>. QED BY <1>1, <1>2, <1>3, <1>4, <1>5, <1>6, <1>7, <1>8, <1>9, <1>10 DEF Next

---------------------------------------------------------------------------
(* Theorems *)

\* The invariant holds for any tree, any number of transactions in a block, of
\* stops and of failing statements.
THEOREM StorageInvHolds == Spec => []StorageInv
<1>1. Init => StorageInv
  BY StorageInit
<1>2. StorageInv /\ [Next]_vars => StorageInv'
  BY StorageStep
<1>. QED BY <1>1, <1>2, PTL DEF Spec

\* The tables and chains keep their types, and outside a transaction the
\* connection sees what is committed.
THEOREM StorageTypeCorrect == Spec => []TypeOK
<1>1. StorageInv => TypeOK
  <2>. SUFFICES ASSUME StorageInv PROVE TypeOK
    OBVIOUS
  <2>1. \A db \in past \cup {disk, view} : db \in Tables
    BY DEF StorageInv, StorageTypes
  <2>2. ASSUME NEW db \in Tables
        PROVE  /\ db.blocks \in [DOMAIN db.blocks -> Nat] /\ DOMAIN db.blocks \subseteq Nat
               /\ IsABag(db.txs)
    <3>1. /\ db.blocks \in [DOMAIN db.blocks -> Nat] /\ DOMAIN db.blocks \subseteq Nat
          /\ db.txs \in [DOMAIN db.txs -> Nat \ {0}]
      BY TablesAre
    <3>2. Nat \ {0} = {n \in Nat : n > 0}
      OBVIOUS
    <3>3. IsABag(db.txs)
      BY <3>1, <3>2 DEF IsABag
    <3>. QED BY <3>1, <3>3
  <2>. QED BY <2>1, <2>2 DEF TypeOK, StorageInv, StorageTypes
<1>. QED BY <1>1, StorageInvHolds, PTL

\* However deep the reorganisation and wherever the process stops, the chain
\* that loads is the one before or the one after the operation: try_replace
\* writes in one transaction, append's block row is one statement.
THEOREM CrashAtomicTheorem == Spec => []CrashAtomic
<1>1. StorageInv => CrashAtomic
  <2>. SUFFICES ASSUME StorageInv, running, ~dirty PROVE Loaded(disk) \in {before, mem}
    BY DEF CrashAtomic
  <2>1. Stage /\ disk \in Tables /\ before \in Seq(Nat)
    BY DEF StorageInv, StageInv, StorageTypes
  <2>2. mem \in Seq(Nat) /\ IsPath(Tree, mem)
    BY MemIs
  <2>3. CASE Written
    BY <2>1, <2>2, <2>3, TableLoads DEF Written
  <2>4. CASE Appending
    BY <2>1, <2>4, TableLoads DEF Appending
  <2>5. CASE Replacing
    BY <2>5 DEF Replacing
  <2>. QED BY <2>1, <2>3, <2>4, <2>5 DEF Stage
<1>. QED BY <1>1, StorageInvHolds, PTL

\* Whatever statements failed and wherever the process or the machine stopped,
\* what Chain::init loads is a prefix of a chain that the node has had.
THEOREM OwnHistoryTheorem == Spec => []LoadsOwnHistory
<1>1. StorageInv => LoadsOwnHistory
  <2>. SUFFICES ASSUME StorageInv, NEW db \in past \cup {disk}, Loaded(db) # << >>
                PROVE  \E c \in had : IsPrefix(Loaded(db), c)
    BY DEF LoadsOwnHistory
  <2>. DEFINE l == Loaded(db)
              raws == Raws(db)
  <2>1. /\ db \in Tables /\ had \in SUBSET Seq(Nat) /\ RowsHad(had, db.blocks)
        /\ \A c \in had : IsPath(Tree, c)
    BY DEF StorageInv, StorageTypes, HistoryInv
  <2>2. AtHeight(db)
    BY <2>1, HistoryAt
  <2>3. PICK k \in 0 .. Len(raws) :
           /\ l = SubSeq(raws, 1, k) /\ l \in Seq(Nat) /\ Len(l) = k
           /\ \A i \in 1 .. k : l[i] = raws[i]
           /\ k = 0 \/ IsPath(Tree, SubSeq(raws, 1, k))
    BY <2>1, LoadedIs
  <2>4. k \in Nat \ {0}
    BY <2>3, EmptySeq
  <2>5. IsPath(Tree, l) /\ IsPath(Tree, SubSeq(raws, 1, k)) /\ k \in 1 .. Len(raws) /\ k \in 1 .. k
    BY <2>3, <2>4
  <2>6. k - 1 \in DOMAIN db.blocks /\ db.blocks[k - 1] = raws[k]
    BY <2>1, <2>2, <2>5, LoadedRows
  <2>. HIDE DEF l, raws
  <2>7. PICK c \in had : (k - 1) + 1 \in DOMAIN c /\ c[(k - 1) + 1] = db.blocks[k - 1]
    BY <2>1, <2>6 DEF RowsHad, HadRow
  <2>8. c \in Seq(Nat) /\ IsPath(Tree, c) /\ DOMAIN c = 1 .. Len(c) /\ Len(c) \in Nat
    BY <2>1, LenProperties
  <2>9. k \in 1 .. Len(c) /\ l[k] = c[k]
    BY <2>3, <2>4, <2>5, <2>6, <2>7, <2>8
  <2>10. \A i \in 1 .. k : l[i] = c[i]
    <3>1. l \in Seq(Nat) /\ IsPath(Tree, l) /\ k \in 1 .. Len(l)
      BY <2>3, <2>5
    <3>2. c \in Seq(Nat) /\ IsPath(Tree, c) /\ k \in 1 .. Len(c) /\ l[k] = c[k]
      BY <2>8, <2>9
    <3>3. k \in Nat
      BY <2>4
    <3>. QED BY <3>1, <3>2, <3>3, PathUnique
  <2>11. SubSeq(c, 1, k) = l
    <3>1. 1 \in Int /\ k \in Int /\ \A i \in 1 .. k : c[i] \in Nat
      BY <2>8, <2>9
    <3>2. SubSeq(c, 1, k) \in Seq(Nat) /\ Len(SubSeq(c, 1, k)) = k
          /\ \A i \in 1 .. k : SubSeq(c, 1, k)[i] = c[i]
      BY <2>4, <3>1, SubSeqProperties
    <3>3. \A i \in 1 .. k : SubSeq(c, 1, k)[i] = l[i]
      BY <2>10, <3>2
    <3>. QED BY <2>3, <3>2, <3>3, SeqEqual
  <2>12. IsPrefix(l, c)
    <3>1. SubSeq(l, 1, Len(l)) = l
      BY <2>3, SubSeqFull
    <3>. QED BY <2>3, <2>8, <2>9, <2>11, <3>1 DEF IsPrefix
  <2>. QED BY <2>12 DEF l
<1>. QED BY <1>1, StorageInvHolds, PTL

\* Between operations the blocks table is the chain, row for row.
THEOREM TableTheorem == Spec => []TableIsChain
<1>1. StorageInv => TableIsChain
  BY Idle DEF TableIsChain, Table
<1>. QED BY <1>1, StorageInvHolds, PTL

\* As long as no statement fails, no row of txs belongs to a branch that was
\* left and none is there twice.
THEOREM NoStaleTheorem == Spec => []NoStaleTxRow
<1>1. StorageInv => NoStaleTxRow
  <2>. SUFFICES ASSUME StorageInv, running, todo = << >>, errors = 0,
                       NEW r \in DOMAIN disk.txs
                PROVE  r[1] + 1 \in DOMAIN mem /\ mem[r[1] + 1] = r[3] /\ disk.txs[r] = 1
    BY DEF NoStaleTxRow
  <2>1. ~dirty /\ TxPending(view.txs, todo, mem)
    BY DEF StorageInv, TxInv
  <2>2. view = disk
    BY <2>1, Idle
  <2>. QED BY <2>1, <2>2 DEF TxPending, RowsPending, GoodRow
<1>. QED BY <1>1, StorageInvHolds, PTL

=============================================================================
