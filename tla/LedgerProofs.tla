---------------------------- MODULE LedgerProofs ----------------------------
(***************************************************************************)
(* What the operators of Ledger and Mempool return, for every value of the *)
(* constants.  Their loops are recursive functions over the turns: module  *)
(* Loops shows that such a function exists and takes the values of its     *)
(* defining equation, and the lemmas here give each loop its invariant.    *)
(***************************************************************************)
EXTENDS Mempool, FiniteSetsExt, Loops, SequenceTheorems, FiniteSetTheorems

---------------------------------------------------------------------------
(* Merkle trees.  A hash is a term of any depth, so the levels of a tree   *)
(* have no common type: they are lists, of whatever is in them.            *)

IsList(s) == s \in Seq({s[i] : i \in DOMAIN s})

\* A function on 1 .. m is a list of length m.
LEMMA ListFrom ==
    ASSUME NEW s, NEW m \in Nat, s = [i \in 1 .. m |-> s[i]]
    PROVE  IsList(s) /\ Len(s) = m /\ DOMAIN s = 1 .. m
<1>. DEFINE R == {s[i] : i \in DOMAIN s}
<1>1. DOMAIN s = 1 .. m
  OBVIOUS
<1>2. \A i \in 1 .. m : s[i] \in R
  BY <1>1
<1>. HIDE DEF R
<1>3. [i \in 1 .. m |-> s[i]] \in [1 .. m -> R]
  BY <1>2, Zenon
<1>4. s \in [1 .. m -> R]
  BY <1>3, Zenon
<1>5. s \in Seq(R)
  <2>1. Seq(R) = UNION {[1 .. n -> R] : n \in Nat}
    BY SeqDef, Zenon
  <2>. QED BY <1>4, <2>1
<1>6. Len(s) = m
  BY <1>1, <1>5, LenProperties
<1>. QED BY <1>1, <1>5, <1>6 DEF IsList, R

\* And a list is one.
LEMMA ListIs ==
    ASSUME NEW s, IsList(s)
    PROVE  Len(s) \in Nat /\ DOMAIN s = 1 .. Len(s) /\ s = [i \in 1 .. Len(s) |-> s[i]]
<1>. DEFINE R == {s[i] : i \in DOMAIN s}
<1>1. s \in Seq(R)
  BY DEF IsList
<1>. HIDE DEF R
<1>2. Len(s) \in Nat /\ DOMAIN s = 1 .. Len(s) /\ s \in [1 .. Len(s) -> R]
  BY <1>1, LenProperties
<1>. QED BY <1>2

\* Lists with the same elements are equal.
LEMMA ListsEqual ==
    ASSUME NEW s, IsList(s), NEW t, IsList(t), Len(s) = Len(t),
           \A i \in 1 .. Len(s) : s[i] = t[i]
    PROVE  s = t
<1>1. s = [i \in 1 .. Len(s) |-> s[i]] /\ t = [i \in 1 .. Len(t) |-> t[i]]
  BY ListIs
<1>. QED BY <1>1

\* One round of merkle_root's loop.
LEMMA NextLevelList ==
    ASSUME NEW s, IsList(s), Len(s) >= 1
    PROVE  /\ IsList(NextLevel(s))
           /\ Len(NextLevel(s)) = (Len(s) + 1) \div 2
           /\ \A i \in 1 .. (Len(s) + 1) \div 2 :
                 NextLevel(s)[i] = <<s[2 * i - 1], s[IF 2 * i <= Len(s) THEN 2 * i ELSE Len(s)]>>
<1>. DEFINE n == Len(s)
            m == (n + 1) \div 2
            e(i) == <<s[2 * i - 1], s[IF 2 * i <= n THEN 2 * i ELSE n]>>
            t == [i \in 1 .. m |-> e(i)]
<1>1. n \in Nat /\ m \in Nat
  BY ListIs
<1>2. NextLevel(s) = t
  BY DEF NextLevel, MerkleParent
<1>. HIDE DEF n, m, e
<1>3. \A i \in 1 .. m : t[i] = e(i)
  OBVIOUS
<1>4. t = [i \in 1 .. m |-> t[i]]
  OBVIOUS
<1>. HIDE DEF t
<1>5. IsList(t) /\ Len(t) = m
  BY <1>1, <1>4, ListFrom
<1>. QED BY <1>2, <1>3, <1>5 DEF n, m, e

\* One turn of the recursion of Levels.
Above(s) == IF Len(s) = 1 THEN s ELSE NextLevel(s)

\* The levels of a tree take the values of their defining equation.
LEMMA LevelsDef ==
    ASSUME NEW s, IsList(s)
    PROVE  /\ DOMAIN Levels(s) = 0 .. Len(s)
           /\ Levels(s)[0] = s
           /\ \A d \in 1 .. Len(s) : Levels(s)[d] = Above(Levels(s)[d - 1])
<1>. DEFINE n == Len(s)
            F(g) == [d \in 0 .. n |-> IF d = 0 THEN s ELSE Above(g[d - 1])]
            Run(k, g) == /\ DOMAIN g = 0 .. k /\ g = [d \in 0 .. k |-> g[d]]
                         /\ g[0] = s
                         /\ \A d \in 1 .. k : g[d] = Above(g[d - 1])
            H == {k \in 0 .. n : \E g : Run(k, g)}
            L == Levels(s)
<1>1. n \in Nat
  BY ListIs
<1>2. L = CHOOSE g : g = F(g)
  BY Zenon DEF Levels, Above
<1>. HIDE DEF n, L
<1>3. 0 \in H
  <2>. DEFINE g == [d \in 0 .. 0 |-> s]
  <2>1. Run(0, g)
    OBVIOUS
  <2>. HIDE DEF g, Run
  <2>. QED BY <1>1, <2>1
<1>4. ASSUME NEW k \in 1 .. n, k - 1 \in H PROVE k \in H
  <2>1. PICK g : Run(k - 1, g)
    BY <1>4
  <2>. DEFINE h == [d \in 0 .. k |-> IF d = k THEN Above(g[k - 1]) ELSE g[d]]
  <2>2. DOMAIN h = 0 .. k /\ h = [d \in 0 .. k |-> h[d]] /\ h[0] = s
    BY <1>1, <2>1
  <2>3. ASSUME NEW d \in 1 .. k PROVE h[d] = Above(h[d - 1])
    <3>1. h[d - 1] = g[d - 1]
      BY <1>1
    <3>2. CASE d = k
      <4>1. h[k] = Above(g[k - 1])
        BY <1>1
      <4>. QED BY <3>1, <3>2, <4>1
    <3>3. CASE d # k
      <4>1. h[d] = g[d] /\ d \in 1 .. k - 1
        BY <1>1, <3>3
      <4>. QED BY <2>1, <3>1, <4>1
    <3>. QED BY <3>2, <3>3
  <2>4. Run(k, h)
    BY <2>2, <2>3
  <2>. HIDE DEF h, Run
  <2>. QED BY <1>1, <2>4
<1>5. H \in SUBSET Nat
  BY <1>1
<1>. HIDE DEF H
<1>6. n \in H
  <2>1. 0 .. n \subseteq H
    BY <1>1, <1>3, <1>4, <1>5, UpTo
  <2>. QED BY <1>1, <2>1
<1>7. PICK g : Run(n, g)
  BY <1>6 DEF H
<1>8. g = F(g)
  <2>1. ASSUME NEW d \in 0 .. n PROVE g[d] = IF d = 0 THEN s ELSE Above(g[d - 1])
    <3>1. CASE d = 0
      BY <1>7, <3>1
    <3>2. CASE d # 0
      <4>1. d \in 1 .. n
        BY <1>1, <3>2
      <4>. QED BY <1>7, <3>2, <4>1
    <3>. QED BY <3>1, <3>2
  <2>2. g = [d \in 0 .. n |-> g[d]]
    BY <1>7
  <2>. QED BY <2>1, <2>2
<1>9. L = F(L)
  BY <1>2, <1>8, Zenon
<1>10. DOMAIN L = 0 .. n /\ L[0] = s /\ \A d \in 1 .. n : L[d] = Above(L[d - 1])
  BY <1>1, <1>9
<1>. QED BY <1>10 DEF L, n

\* The shape of the tree over s: D levels of more than one node, each twice
\* as wide as the next, and then the root.
Width(lv, d) == Len(lv[d])
Tree(s, D) ==
    /\ D \in 0 .. Len(s)
    /\ Levels(s)[0] = s
    /\ \A d \in 0 .. D : IsList(Levels(s)[d]) /\ Width(Levels(s), d) >= 1
    /\ \A d \in 1 .. D : /\ Width(Levels(s), d - 1) > 1
                         /\ Levels(s)[d] = NextLevel(Levels(s)[d - 1])
    /\ Width(Levels(s), D) = 1
    /\ MerkleRoot(s) = Levels(s)[D][1]
    /\ Depth(Levels(s)) = D

LEMMA TreeExists ==
    ASSUME NEW s, IsList(s), Len(s) >= 1
    PROVE  \E D \in Nat : Tree(s, D)
<1>. DEFINE n == Len(s)
            L == Levels(s)
<1>1. n \in Nat /\ n >= 1
  BY ListIs
<1>2. DOMAIN L = 0 .. n /\ L[0] = s /\ \A d \in 1 .. n : L[d] = Above(L[d - 1])
  BY LevelsDef
<1>3. IsList(L[0]) /\ Width(L, 0) = n
  BY <1>2 DEF Width
<1>. HIDE DEF L, n
<1>4. \A d \in 0 .. n : /\ IsList(L[d]) /\ Width(L, d) \in Nat /\ Width(L, d) >= 1
                        /\ (Width(L, d) = 1 \/ Width(L, d) <= n - d)
  <2>. DEFINE H == {d \in 0 .. n : /\ IsList(L[d]) /\ Width(L, d) \in Nat /\ Width(L, d) >= 1
                                   /\ (Width(L, d) = 1 \/ Width(L, d) <= n - d)}
  <2>1. 0 \in H
    BY <1>1, <1>3
  <2>2. ASSUME NEW d \in 1 .. n, d - 1 \in H PROVE d \in H
    <3>. DEFINE k == Width(L, d - 1)
    <3>1. IsList(L[d - 1]) /\ k \in Nat /\ k >= 1 /\ (k = 1 \/ k <= n - (d - 1))
      BY <2>2
    <3>2. L[d] = IF k = 1 THEN L[d - 1] ELSE NextLevel(L[d - 1])
      BY <1>2, Zenon DEF Above, Width
    <3>3. CASE k = 1
      <4>1. L[d] = L[d - 1] /\ Width(L, d) = 1
        BY <3>2, <3>3 DEF Width
      <4>. HIDE DEF k
      <4>. QED BY <1>1, <3>1, <4>1
    <3>4. CASE k # 1
      <4>1. IsList(L[d]) /\ Width(L, d) = (k + 1) \div 2
        <5>1. Len(L[d - 1]) = k
          BY DEF Width
        <5>. HIDE DEF k
        <5>2. IsList(NextLevel(L[d - 1])) /\ Len(NextLevel(L[d - 1])) = (k + 1) \div 2
          BY <3>1, <5>1, NextLevelList
        <5>. QED BY <3>2, <3>4, <5>2 DEF Width
      <4>. HIDE DEF k
      <4>2. (k + 1) \div 2 \in Nat /\ (k + 1) \div 2 >= 1 /\ (k + 1) \div 2 <= n - d
        BY <1>1, <3>1, <3>4
      <4>. QED BY <1>1, <4>1, <4>2
    <3>. QED BY <3>3, <3>4
  <2>3. H \in SUBSET Nat
    BY <1>1
  <2>. HIDE DEF H
  <2>4. 0 .. n \subseteq H
    BY <1>1, <2>1, <2>2, <2>3, UpTo
  <2>. QED BY <2>4 DEF H
<1>5. Width(L, n) = 1
  BY <1>1, <1>4
<1>. DEFINE T == {d \in 0 .. n : Width(L, d) = 1}
<1>6. T \subseteq Nat /\ T # {}
  BY <1>1, <1>5
<1>7. PICK D \in T : \A d \in T : D <= d
  <2>. HIDE DEF T
  <2>. QED BY <1>6, LeastNat
<1>8. D \in 0 .. n /\ D \in Nat /\ Width(L, D) = 1 /\ \A d \in 0 .. n : d < D => Width(L, d) > 1
  BY <1>1, <1>4, <1>7
<1>9. ASSUME NEW d \in 1 .. D
      PROVE  Width(L, d - 1) > 1 /\ L[d] = NextLevel(L[d - 1])
  <2>1. d - 1 \in 0 .. n /\ d - 1 < D /\ d \in 1 .. n
    BY <1>1, <1>8
  <2>2. Width(L, d - 1) > 1 /\ Width(L, d - 1) # 1
    BY <1>4, <1>8, <2>1
  <2>. QED BY <1>2, <2>1, <2>2, Zenon DEF Above, Width
<1>10. \A d \in D .. n : L[d] = L[D]
  <2>. DEFINE H == {i \in 0 .. n - D : L[D + i] = L[D]}
  <2>1. 0 \in H
    BY <1>1, <1>8
  <2>2. ASSUME NEW i \in 1 .. n - D, i - 1 \in H PROVE i \in H
    <3>1. L[D + (i - 1)] = L[D] /\ D + (i - 1) = (D + i) - 1 /\ D + i \in 1 .. n /\ i \in 0 .. n - D
      BY <1>1, <1>8, <2>2
    <3>2. L[D + i] = Above(L[D])
      BY <1>2, <3>1
    <3>. QED BY <1>8, <3>1, <3>2 DEF Above, Width
  <2>3. H \in SUBSET Nat /\ n - D \in Nat
    BY <1>1, <1>8
  <2>. HIDE DEF H
  <2>4. 0 .. n - D \subseteq H
    BY <2>1, <2>2, <2>3, UpTo
  <2>5. ASSUME NEW d \in D .. n PROVE L[d] = L[D]
    <3>1. d - D \in 0 .. n - D /\ D + (d - D) = d
      BY <1>1, <1>8
    <3>2. d - D \in H
      BY <2>4, <3>1
    <3>. QED BY <3>1, <3>2 DEF H
  <2>. QED BY <2>5
<1>11. {d \in DOMAIN L : Width(L, d) > 1} = 0 .. D - 1
  <2>1. \A d \in 0 .. n : Width(L, d) > 1 <=> d < D
    <3>1. \A d \in 0 .. n : ~(d < D) => Width(L, d) = 1
      <4>1. ASSUME NEW d \in 0 .. n, ~(d < D) PROVE Width(L, d) = 1
        <5>1. d \in D .. n
          BY <1>1, <1>8, <4>1
        <5>. QED BY <1>8, <1>10, <5>1 DEF Width
      <4>. QED BY <4>1
    <3>. QED BY <1>8, <3>1
  <2>. QED BY <1>1, <1>2, <1>8, <2>1
<1>12. Depth(L) = D
  <2>1. Cardinality(0 .. D - 1) = IF 0 > D - 1 THEN 0 ELSE (D - 1) - 0 + 1
    BY <1>8, FS_Interval
  <2>2. Cardinality(0 .. D - 1) = D
    BY <1>8, <2>1
  <2>. QED BY <1>11, <2>2, Zenon DEF Depth, Width
<1>13. MerkleRoot(s) = L[D][1]
  <2>1. s # << >>
    BY <1>1 DEF n
  <2>2. MerkleRoot(s) = L[n][1]
    BY <2>1 DEF MerkleRoot, L, n
  <2>3. L[n] = L[D]
    BY <1>1, <1>8, <1>10
  <2>. QED BY <2>2, <2>3
<1>14. \A d \in 0 .. D : IsList(L[d]) /\ Width(L, d) >= 1
  BY <1>1, <1>4, <1>8
<1>15. Tree(s, D)
  BY <1>2, <1>8, <1>9, <1>12, <1>13, <1>14 DEF Tree, L, n
<1>. QED BY <1>8, <1>15

\* The positions on the way up.
LEMMA PositionsDef ==
    ASSUME NEW idx \in Nat, NEW n \in Nat
    PROVE  /\ Positions(idx, n)[0] = idx
           /\ \A d \in 1 .. n : Positions(idx, n)[d] = Positions(idx, n)[d - 1] \div 2
           /\ \A d \in 0 .. n : Positions(idx, n)[d] \in Nat
<1>. DEFINE f == [x \in Nat \X (1 .. n) |-> x[1] \div 2]
            F(g) == [d \in 0 .. n |-> IF d = 0 THEN idx ELSE g[d - 1] \div 2]
            P == Positions(idx, n)
<1>1. P = CHOOSE g : g = F(g)
  BY Zenon DEF Positions
<1>2. f \in [Nat \X (1 .. n) -> Nat]
  OBVIOUS
<1>. HIDE DEF f, P
<1>3. PICK g \in [0 .. n -> Nat] : IsLoop(g, idx, n, f)
  BY <1>2, LoopExists
<1>4. ASSUME NEW d \in 1 .. n PROVE g[d] = g[d - 1] \div 2
  <2>1. <<g[d - 1], d>> \in Nat \X (1 .. n)
    OBVIOUS
  <2>. QED BY <2>1, <1>3 DEF f, IsLoop
<1>5. g = F(g)
  BY <1>3, <1>4 DEF IsLoop
<1>6. P = F(P)
  BY <1>1, <1>5, Zenon
<1>7. P[0] = idx /\ \A d \in 1 .. n : P[d] = P[d - 1] \div 2
  BY <1>6
<1>8. \A d \in 0 .. n : P[d] \in Nat
  <2>. DEFINE H == {d \in 0 .. n : P[d] \in Nat}
  <2>1. 0 \in H
    BY <1>7
  <2>2. ASSUME NEW d \in 1 .. n, d - 1 \in H PROVE d \in H
    BY <2>2, <1>7
  <2>3. H \in SUBSET Nat
    OBVIOUS
  <2>. HIDE DEF H
  <2>4. 0 .. n \subseteq H
    BY <2>1, <2>2, <2>3, UpTo
  <2>. QED BY <2>4 DEF H
<1>. QED BY <1>7, <1>8 DEF P

\* merkle_apply's loop takes the values of its defining equation.
LEMMA ClimbDef ==
    ASSUME NEW leaf, NEW steps, Len(steps) \in Nat
    PROVE  /\ Climb(leaf, steps)[0] = leaf
           /\ \A i \in 1 .. Len(steps) :
                 Climb(leaf, steps)[i] = Joined(Climb(leaf, steps)[i - 1], steps[i])
<1>. DEFINE n == Len(steps)
            F(g) == [i \in 0 .. n |-> IF i = 0 THEN leaf ELSE Joined(g[i - 1], steps[i])]
            Run(k, g) == /\ g = [i \in 0 .. k |-> g[i]]
                         /\ g[0] = leaf
                         /\ \A i \in 1 .. k : g[i] = Joined(g[i - 1], steps[i])
            H == {k \in 0 .. n : \E g : Run(k, g)}
            C == Climb(leaf, steps)
<1>1. n \in Nat
  OBVIOUS
<1>2. C = CHOOSE g : g = F(g)
  BY Zenon DEF Climb
<1>. HIDE DEF n, C
<1>3. 0 \in H
  <2>. DEFINE g == [i \in 0 .. 0 |-> leaf]
  <2>1. Run(0, g)
    OBVIOUS
  <2>. HIDE DEF g, Run
  <2>. QED BY <1>1, <2>1
<1>4. ASSUME NEW k \in 1 .. n, k - 1 \in H PROVE k \in H
  <2>1. PICK g : Run(k - 1, g)
    BY <1>4
  <2>. DEFINE h == [i \in 0 .. k |-> IF i = k THEN Joined(g[k - 1], steps[k]) ELSE g[i]]
  <2>2. h = [i \in 0 .. k |-> h[i]] /\ h[0] = leaf
    BY <1>1, <2>1
  <2>3. ASSUME NEW i \in 1 .. k PROVE h[i] = Joined(h[i - 1], steps[i])
    <3>1. h[i - 1] = g[i - 1]
      BY <1>1
    <3>2. CASE i = k
      <4>1. h[k] = Joined(g[k - 1], steps[k])
        BY <1>1
      <4>. QED BY <3>1, <3>2, <4>1
    <3>3. CASE i # k
      <4>1. h[i] = g[i] /\ i \in 1 .. k - 1
        BY <1>1, <3>3
      <4>. QED BY <2>1, <3>1, <4>1
    <3>. QED BY <3>2, <3>3
  <2>4. Run(k, h)
    BY <2>2, <2>3
  <2>. HIDE DEF h, Run
  <2>. QED BY <1>1, <2>4
<1>5. H \in SUBSET Nat
  BY <1>1
<1>. HIDE DEF H
<1>6. n \in H
  <2>1. 0 .. n \subseteq H
    BY <1>1, <1>3, <1>4, <1>5, UpTo
  <2>. QED BY <1>1, <2>1
<1>7. PICK g : Run(n, g)
  BY <1>6 DEF H
<1>8. g = F(g)
  <2>1. ASSUME NEW i \in 0 .. n PROVE g[i] = IF i = 0 THEN leaf ELSE Joined(g[i - 1], steps[i])
    <3>1. CASE i = 0
      BY <1>7, <3>1
    <3>2. CASE i # 0
      <4>1. i \in 1 .. n
        BY <1>1, <3>2
      <4>. QED BY <1>7, <3>2, <4>1
    <3>. QED BY <3>1, <3>2
  <2>2. g = [i \in 0 .. n |-> g[i]]
    BY <1>7
  <2>. QED BY <2>1, <2>2
<1>9. C = F(C)
  BY <1>2, <1>8, Zenon
<1>10. C[0] = leaf /\ \A i \in 1 .. n : C[i] = Joined(C[i - 1], steps[i])
  BY <1>1, <1>9
<1>. QED BY <1>10 DEF C, n

\* What merkle_proof hands out for position idx leads merkle_apply from that
\* leaf to the root, whatever the number of leaves.
LEMMA PathLeadsToRoot ==
    ASSUME NEW s, IsList(s), NEW idx \in 0 .. Len(s) - 1
    PROVE  MerkleApply(s[idx + 1], MerkleSteps(s, idx)) = MerkleRoot(s)
<1>1. Len(s) \in Nat /\ Len(s) >= 1 /\ idx \in Nat
  BY ListIs
<1>2. PICK D \in Nat : Tree(s, D)
  BY <1>1, TreeExists
<1>. DEFINE L == Levels(s)
            at == Positions(idx, D)
            steps == MerkleSteps(s, idx)
            C == Climb(s[idx + 1], steps)
            Sib(d) == IF at[d - 1] % 2 = 1 THEN at[d - 1] - 1 ELSE at[d - 1] + 1
            Step(d) == [h |-> L[d - 1][IF Sib(d) < Width(L, d - 1) THEN Sib(d) + 1
                                       ELSE Width(L, d - 1)],
                        left |-> at[d - 1] % 2 = 1]
            H == {d \in 0 .. D : at[d] \in 0 .. Width(L, d) - 1 /\ C[d] = L[d][at[d] + 1]}
<1>3. /\ D \in Nat /\ L[0] = s
      /\ \A d \in 0 .. D : IsList(L[d]) /\ Width(L, d) >= 1
      /\ \A d \in 1 .. D : Width(L, d - 1) > 1 /\ L[d] = NextLevel(L[d - 1])
      /\ Width(L, D) = 1 /\ MerkleRoot(s) = L[D][1] /\ Depth(L) = D
  BY <1>2 DEF Tree
<1>4. /\ at[0] = idx /\ \A d \in 0 .. D : at[d] \in Nat
      /\ \A d \in 1 .. D : at[d] = at[d - 1] \div 2
  BY <1>1, PositionsDef
<1>5. steps = [d \in 1 .. D |-> Step(d)]
  BY <1>3, Zenon DEF MerkleSteps, Width
<1>6. \A d \in 0 .. D : Width(L, d) \in Nat
  BY <1>3, ListIs DEF Width
<1>. HIDE DEF L, at, Step
<1>7. steps = [d \in 1 .. D |-> steps[d]] /\ \A d \in 1 .. D : steps[d] = Step(d)
  BY <1>5
<1>. HIDE DEF steps
<1>8. Len(steps) = D
  BY <1>7, ListFrom
<1>9. C[0] = s[idx + 1] /\ \A d \in 1 .. D : C[d] = Joined(C[d - 1], steps[d])
  BY <1>8, ClimbDef
<1>. HIDE DEF C
<1>10. 0 \in H
  BY <1>1, <1>3, <1>4, <1>9 DEF Width
<1>11. ASSUME NEW d \in 1 .. D, d - 1 \in H PROVE d \in H
  <2>. DEFINE i == at[d - 1]
              j == at[d]
              k == Width(L, d - 1)
              a == L[d - 1]
  <2>1. i \in 0 .. k - 1 /\ C[d - 1] = a[i + 1]
    BY <1>11
  <2>2. /\ d - 1 \in 0 .. D /\ d \in 0 .. D /\ k \in Nat /\ k > 1 /\ i \in Nat
        /\ j = i \div 2 /\ IsList(a)
    BY <1>3, <1>4, <1>6
  <2>3. Len(a) = k
    BY DEF Width
  <2>4. L[d] = NextLevel(a)
    BY <1>3
  <2>5. C[d] = IF i % 2 = 1 THEN <<Step(d).h, a[i + 1]>> ELSE <<a[i + 1], Step(d).h>>
    <3>1. C[d] = Joined(a[i + 1], Step(d))
      BY <1>7, <1>9, <2>1, Zenon
    <3>2. Step(d).left <=> i % 2 = 1
      BY DEF Step
    <3>. QED BY <3>1, <3>2, Zenon DEF Joined, MerkleParent
  <2>6. Step(d).h = IF i % 2 = 1 THEN (IF i - 1 < k THEN a[(i - 1) + 1] ELSE a[k])
                    ELSE (IF i + 1 < k THEN a[(i + 1) + 1] ELSE a[k])
    BY DEF Step
  <2>. HIDE DEF i, j, k, a, Step
  <2>7. j \in Nat /\ j + 1 \in 1 .. (k + 1) \div 2
    BY <2>1, <2>2
  <2>8. /\ Len(NextLevel(a)) = (k + 1) \div 2
        /\ NextLevel(a)[j + 1]
              = <<a[2 * (j + 1) - 1], a[IF 2 * (j + 1) <= k THEN 2 * (j + 1) ELSE k]>>
    <3>1. Len(a) >= 1
      BY <2>2, <2>3
    <3>2. /\ Len(NextLevel(a)) = (Len(a) + 1) \div 2
          /\ \A x \in 1 .. (Len(a) + 1) \div 2 :
                NextLevel(a)[x]
                   = <<a[2 * x - 1], a[IF 2 * x <= Len(a) THEN 2 * x ELSE Len(a)]>>
      BY <2>2, <3>1, NextLevelList
    <3>. QED BY <2>3, <2>7, <3>2, Zenon
  <2>9. ASSUME C[d] = NextLevel(a)[j + 1] PROVE d \in H
    <3>1. Width(L, d) = (k + 1) \div 2
      BY <2>4, <2>8 DEF Width
    <3>2. C[d] = L[d][at[d] + 1] /\ at[d] = j
      BY <2>4, <2>9 DEF j
    <3>3. j \in 0 .. (k + 1) \div 2 - 1
      BY <2>2, <2>7
    <3>. QED BY <2>2, <3>1, <3>2, <3>3 DEF H
  <2>10. CASE i % 2 = 1
    <3>1. /\ 2 * (j + 1) - 1 = i /\ 2 * (j + 1) = i + 1 /\ 2 * (j + 1) <= k
          /\ (i - 1) + 1 = i /\ i - 1 < k
      BY <2>1, <2>2, <2>10
    <3>2. NextLevel(a)[j + 1] = <<a[i], a[i + 1]>>
      BY <2>8, <3>1
    <3>3. C[d] = <<a[i], a[i + 1]>>
      BY <2>5, <2>6, <2>10, <3>1
    <3>. QED BY <3>2, <3>3, <2>9
  <2>11. CASE i % 2 # 1
    <3>1. 2 * (j + 1) - 1 = i + 1 /\ 2 * (j + 1) = (i + 1) + 1 /\ (2 * (j + 1) <= k <=> i + 1 < k)
      BY <2>1, <2>2, <2>11
    <3>2. NextLevel(a)[j + 1] = <<a[i + 1], IF i + 1 < k THEN a[(i + 1) + 1] ELSE a[k]>>
      BY <2>8, <3>1
    <3>3. C[d] = <<a[i + 1], IF i + 1 < k THEN a[(i + 1) + 1] ELSE a[k]>>
      BY <2>5, <2>6, <2>11
    <3>. QED BY <3>2, <3>3, <2>9
  <2>. QED BY <2>10, <2>11
<1>12. H \in SUBSET Nat
  OBVIOUS
<1>. HIDE DEF H
<1>13. D \in H
  <2>1. 0 .. D \subseteq H
    BY <1>10, <1>11, <1>12, UpTo
  <2>. QED BY <2>1
<1>14. C[D] = L[D][1]
  BY <1>3, <1>4, <1>13 DEF H
<1>. QED BY <1>3, <1>8, <1>14 DEF MerkleApply, C, steps

\* The leaves of a tree: hashes of txids.
Leaves(s) == IsList(s) /\ Len(s) >= 1 /\ \A i \in 1 .. Len(s) : \E x : s[i] = <<x>>

\* The leaf of a txid is no inner node and not the zero hash.
LEMMA LeafIsNoParent ==
    ASSUME NEW x, NEW l, NEW r
    PROVE  <<x>> # <<l, r>> /\ << >> # <<x>> /\ << >> # <<l, r>>
<1>1. Len(<<x>>) = 1 /\ Len(<<l, r>>) = 2
  OBVIOUS
<1>2. DOMAIN << >> = {} /\ 1 \in DOMAIN <<x>> /\ 1 \in DOMAIN <<l, r>>
  OBVIOUS
<1>. QED BY <1>1, <1>2

\* A node above the leaves is the parent of two nodes one level below.
LEMMA NodeIsParent ==
    ASSUME NEW s, NEW D \in Nat, Tree(s, D), NEW d \in 1 .. D, NEW i \in 1 .. Width(Levels(s), d)
    PROVE  \E j, k \in 1 .. Width(Levels(s), d - 1) :
              Levels(s)[d][i] = <<Levels(s)[d - 1][j], Levels(s)[d - 1][k]>>
<1>. DEFINE a == Levels(s)[d - 1]
            n == Width(Levels(s), d - 1)
<1>1. d - 1 \in 0 .. D /\ IsList(a) /\ n > 1 /\ Levels(s)[d] = NextLevel(a)
  BY DEF Tree
<1>2. Len(a) = n
  BY DEF Width
<1>3. n \in Nat
  BY <1>1, <1>2, ListIs
<1>. HIDE DEF a, n
<1>4. Len(a) >= 1
  BY <1>1, <1>2, <1>3
<1>5. /\ Len(NextLevel(a)) = (Len(a) + 1) \div 2
      /\ \A x \in 1 .. (Len(a) + 1) \div 2 :
            NextLevel(a)[x] = <<a[2 * x - 1], a[IF 2 * x <= Len(a) THEN 2 * x ELSE Len(a)]>>
  BY <1>1, <1>4, NextLevelList
<1>6. Width(Levels(s), d) = (n + 1) \div 2
  BY <1>1, <1>2, <1>5 DEF Width
<1>7. i \in 1 .. (n + 1) \div 2
  BY <1>6
<1>8. NextLevel(a)[i] = <<a[2 * i - 1], a[IF 2 * i <= n THEN 2 * i ELSE n]>>
  BY <1>2, <1>5, <1>7, Zenon
<1>9. 2 * i - 1 \in 1 .. n /\ (IF 2 * i <= n THEN 2 * i ELSE n) \in 1 .. n
  BY <1>1, <1>3, <1>7
<1>. QED BY <1>1, <1>8, <1>9, Zenon DEF a, n

\* A path that leads from a leaf to the root of a tree, however it came
\* about, starts from a leaf of the tree: a leaf is no inner node, so the
\* path is as long as the tree is deep.
LEMMA PathStartsInTree ==
    ASSUME NEW s, Leaves(s), NEW x, NEW steps, Len(steps) \in Nat,
           MerkleApply(<<x>>, steps) = MerkleRoot(s)
    PROVE  \E i \in 1 .. Len(s) : s[i] = <<x>>
<1>1. IsList(s) /\ Len(s) >= 1 /\ Len(s) \in Nat
  BY ListIs DEF Leaves
<1>2. PICK D \in Nat : Tree(s, D)
  BY <1>1, TreeExists
<1>. DEFINE L == Levels(s)
            n == Len(steps)
            C == Climb(<<x>>, steps)
            m == IF n < D THEN n ELSE D
            H == {j \in 0 .. m : \E i \in 1 .. Width(L, D - j) : C[n - j] = L[D - j][i]}
<1>3. n \in Nat /\ m \in Nat /\ m <= n /\ m <= D
  OBVIOUS
<1>4. L[0] = s /\ Width(L, D) = 1 /\ MerkleRoot(s) = L[D][1]
  BY <1>2 DEF Tree
<1>5. C[0] = <<x>> /\ \A i \in 1 .. n : C[i] = Joined(C[i - 1], steps[i])
  BY ClimbDef
<1>6. \A i \in 1 .. n : \E h : C[i] = <<h, C[i - 1]>> \/ C[i] = <<C[i - 1], h>>
  <2>1. ASSUME NEW i \in 1 .. n PROVE \E h : C[i] = <<h, C[i - 1]>> \/ C[i] = <<C[i - 1], h>>
    <3>1. C[i] = Joined(C[i - 1], steps[i])
      BY <1>5
    <3>. QED BY <3>1, Zenon DEF Joined, MerkleParent
  <2>. QED BY <2>1
<1>7. C[n] = L[D][1]
  BY <1>4 DEF MerkleApply
<1>8. \A d \in 1 .. D : \A i \in 1 .. Width(L, d) :
         \E j, k \in 1 .. Width(L, d - 1) : L[d][i] = <<L[d - 1][j], L[d - 1][k]>>
  BY <1>2, NodeIsParent
<1>. HIDE DEF L, C, n, m
<1>9. 0 \in H
  <2>1. D - 0 = D /\ n - 0 = n /\ 1 \in 1 .. Width(L, D) /\ 0 \in 0 .. m
    BY <1>3, <1>4
  <2>. QED BY <1>7, <2>1
<1>10. ASSUME NEW j \in 1 .. m, j - 1 \in H PROVE j \in H
  <2>1. PICK i \in 1 .. Width(L, D - (j - 1)) : C[n - (j - 1)] = L[D - (j - 1)][i]
    BY <1>10
  <2>. DEFINE d == D - (j - 1)
              e == n - (j - 1)
  <2>2. /\ d \in 1 .. D /\ e \in 1 .. n /\ d - 1 = D - j /\ e - 1 = n - j
        /\ j \in 0 .. m
    BY <1>3
  <2>3. PICK p, q \in 1 .. Width(L, d - 1) : L[d][i] = <<L[d - 1][p], L[d - 1][q]>>
    BY <1>8, <2>1, <2>2
  <2>4. PICK h : C[e] = <<h, C[e - 1]>> \/ C[e] = <<C[e - 1], h>>
    BY <1>6, <2>2
  <2>5. C[e - 1] = L[d - 1][p] \/ C[e - 1] = L[d - 1][q]
    BY <2>1, <2>3, <2>4
  <2>6. \E k \in 1 .. Width(L, D - j) : C[n - j] = L[D - j][k]
    BY <2>2, <2>3, <2>5
  <2>. QED BY <2>2, <2>6
<1>11. H \in SUBSET Nat
  BY <1>3
<1>. HIDE DEF H
<1>12. m \in H
  <2>1. 0 .. m \subseteq H
    BY <1>3, <1>9, <1>10, <1>11, UpTo
  <2>. QED BY <1>3, <2>1
<1>13. PICK i \in 1 .. Width(L, D - m) : C[n - m] = L[D - m][i]
  BY <1>12 DEF H
<1>14. ASSUME D # m PROVE FALSE
  <2>1. D - m \in 1 .. D /\ n - m = 0
    BY <1>3, <1>14 DEF m
  <2>2. \E j, k \in 1 .. Width(L, D - m - 1) : L[D - m][i] = <<L[D - m - 1][j], L[D - m - 1][k]>>
    BY <1>8, <2>1
  <2>3. L[D - m][i] = <<x>>
    BY <1>5, <1>13, <2>1
  <2>. QED BY <2>2, <2>3, LeafIsNoParent, Zenon
<1>15. D - m = 0
  BY <1>3, <1>14
<1>16. i \in 1 .. Len(s) /\ C[n - m] = s[i]
  BY <1>4, <1>13, <1>15 DEF Width
<1>17. ASSUME n # m PROVE FALSE
  <2>1. n - m \in 1 .. n
    BY <1>3, <1>17
  <2>2. \E h : C[n - m] = <<h, C[n - m - 1]>> \/ C[n - m] = <<C[n - m - 1], h>>
    BY <1>6, <2>1
  <2>3. \E y : C[n - m] = <<y>>
    BY <1>16 DEF Leaves
  <2>. QED BY <2>2, <2>3, LeafIsNoParent, Zenon
<1>18. n - m = 0
  BY <1>3, <1>17
<1>. QED BY <1>5, <1>16, <1>18

\* No element occurs twice.
Distinct(s) == \A i, j \in 1 .. Len(s) : s[i] = s[j] => i = j

\* The parents of distinct nodes are distinct.
LEMMA NextLevelDistinct ==
    ASSUME NEW a, IsList(a), Len(a) > 1, Distinct(a)
    PROVE  Distinct(NextLevel(a))
<1>. DEFINE n == Len(a)
            m == (n + 1) \div 2
<1>1. n \in Nat /\ n >= 1
  BY ListIs
<1>2. /\ Len(NextLevel(a)) = m
      /\ \A x \in 1 .. m : NextLevel(a)[x] = <<a[2 * x - 1], a[IF 2 * x <= n THEN 2 * x ELSE n]>>
  BY <1>1, NextLevelList
<1>3. \A i, j \in 1 .. n : a[i] = a[j] => i = j
  BY DEF Distinct
<1>. HIDE DEF n
<1>4. ASSUME NEW i \in 1 .. m, NEW j \in 1 .. m, NextLevel(a)[i] = NextLevel(a)[j]
      PROVE  i = j
  <2>1. a[2 * i - 1] = a[2 * j - 1]
    BY <1>2, <1>4
  <2>2. 2 * i - 1 \in 1 .. n /\ 2 * j - 1 \in 1 .. n
    BY <1>1
  <2>3. 2 * i - 1 = 2 * j - 1
    BY <1>3, <2>1, <2>2
  <2>. QED BY <1>1, <2>3
<1>. HIDE DEF m
<1>. QED BY <1>2, <1>4 DEF Distinct

\* Two levels of distinct nodes with the same parents are the same: only a
\* level that has its last node twice looks like the one that has it once.
LEMMA NextLevelInjective ==
    ASSUME NEW a, IsList(a), Len(a) > 1, Distinct(a),
           NEW b, IsList(b), Len(b) > 1, Distinct(b),
           NextLevel(a) = NextLevel(b)
    PROVE  a = b
<1>. DEFINE n == Len(a)
            k == Len(b)
            m == (n + 1) \div 2
<1>1. n \in Nat /\ n >= 1 /\ k \in Nat /\ k >= 1 /\ n > 1 /\ k > 1
  BY ListIs
<1>2. /\ Len(NextLevel(a)) = m
      /\ \A x \in 1 .. m : NextLevel(a)[x] = <<a[2 * x - 1], a[IF 2 * x <= n THEN 2 * x ELSE n]>>
  BY <1>1, NextLevelList
<1>3. /\ Len(NextLevel(b)) = (k + 1) \div 2
      /\ \A x \in 1 .. (k + 1) \div 2 :
            NextLevel(b)[x] = <<b[2 * x - 1], b[IF 2 * x <= k THEN 2 * x ELSE k]>>
  BY <1>1, NextLevelList
<1>4. (\A i, j \in 1 .. n : a[i] = a[j] => i = j) /\ (\A i, j \in 1 .. k : b[i] = b[j] => i = j)
  BY DEF Distinct
<1>. HIDE DEF n, k
<1>5. (k + 1) \div 2 = m /\ m \in Nat
  BY <1>1, <1>2, <1>3
<1>6. ASSUME NEW x \in 1 .. m
      PROVE  /\ a[2 * x - 1] = b[2 * x - 1]
             /\ a[IF 2 * x <= n THEN 2 * x ELSE n] = b[IF 2 * x <= k THEN 2 * x ELSE k]
  BY <1>2, <1>3, <1>5
<1>7. n = k
  <2>1. CASE n < k
    <3>1. m \in 1 .. m /\ 2 * m - 1 = n /\ ~(2 * m <= n) /\ 2 * m = k
      BY <1>1, <1>5, <2>1
    <3>2. a[n] = b[n] /\ a[n] = b[k]
      BY <1>6, <3>1
    <3>3. n \in 1 .. k /\ k \in 1 .. k /\ b[n] = b[k]
      BY <1>1, <2>1, <3>2
    <3>4. n = k
      BY <1>4, <3>3, Zenon
    <3>. QED BY <3>4
  <2>2. CASE k < n
    <3>1. m \in 1 .. m /\ 2 * m - 1 = k /\ ~(2 * m <= k) /\ 2 * m = n
      BY <1>1, <1>5, <2>2
    <3>2. a[k] = b[k] /\ a[n] = b[k]
      BY <1>6, <3>1
    <3>3. n \in 1 .. n /\ k \in 1 .. n /\ a[k] = a[n]
      BY <1>1, <2>2, <3>2
    <3>4. n = k
      BY <1>4, <3>3, Zenon
    <3>. QED BY <3>4
  <2>. QED BY <1>1, <2>1, <2>2
<1>8. ASSUME NEW i \in 1 .. n PROVE a[i] = b[i]
  <2>. DEFINE x == (i + 1) \div 2
  <2>1. x \in 1 .. m /\ (i = 2 * x - 1 \/ (i = 2 * x /\ 2 * x <= n))
    BY <1>1
  <2>. HIDE DEF x
  <2>. QED BY <1>6, <1>7, <2>1
<1>. QED BY <1>7, <1>8, ListsEqual DEF n, k

\* Every level over distinct leaves has distinct nodes.
LEMMA LevelsDistinct ==
    ASSUME NEW s, NEW D \in Nat, Tree(s, D), Distinct(s)
    PROVE  \A d \in 0 .. D : Distinct(Levels(s)[d])
<1>. DEFINE H == {d \in 0 .. D : Distinct(Levels(s)[d])}
<1>1. 0 \in H
  BY DEF Tree
<1>2. ASSUME NEW d \in 1 .. D, d - 1 \in H PROVE d \in H
  <2>1. /\ d - 1 \in 0 .. D /\ IsList(Levels(s)[d - 1]) /\ Len(Levels(s)[d - 1]) > 1
        /\ Levels(s)[d] = NextLevel(Levels(s)[d - 1])
    <3>1. d - 1 \in 0 .. D
      OBVIOUS
    <3>. QED BY <3>1, Zenon DEF Tree, Width
  <2>2. Distinct(NextLevel(Levels(s)[d - 1]))
    BY <1>2, <2>1, NextLevelDistinct
  <2>. QED BY <2>1, <2>2
<1>3. H \in SUBSET Nat
  OBVIOUS
<1>. HIDE DEF H
<1>4. 0 .. D \subseteq H
  BY <1>1, <1>2, <1>3, UpTo
<1>. QED BY <1>4 DEF H

\* Two trees over distinct leaves with the same root have the same leaves:
\* the lower one is the top of the higher one, and leaves are not inner nodes.
LEMMA RootInjectiveFrom ==
    ASSUME NEW s, Leaves(s), Distinct(s), NEW D \in Nat, Tree(s, D),
           NEW t, Leaves(t), Distinct(t), NEW E \in Nat, Tree(t, E),
           D <= E, MerkleRoot(s) = MerkleRoot(t)
    PROVE  s = t
<1>. DEFINE L == Levels(s)
            M == Levels(t)
            H == {j \in 0 .. D : L[D - j] = M[E - j]}
<1>1. /\ L[0] = s /\ Width(L, D) = 1 /\ MerkleRoot(s) = L[D][1] /\ IsList(L[D])
      /\ M[0] = t /\ Width(M, E) = 1 /\ MerkleRoot(t) = M[E][1] /\ IsList(M[E])
  BY DEF Tree
<1>2. /\ \A d \in 0 .. D : IsList(L[d]) /\ Distinct(L[d])
      /\ \A d \in 0 .. E : IsList(M[d]) /\ Distinct(M[d])
  BY LevelsDistinct DEF Tree
<1>3. /\ \A d \in 1 .. D : Len(L[d - 1]) > 1 /\ L[d] = NextLevel(L[d - 1])
      /\ \A d \in 1 .. E : Len(M[d - 1]) > 1 /\ M[d] = NextLevel(M[d - 1])
  BY Zenon DEF Tree, Width
<1>4. \A d \in 1 .. E : \A i \in 1 .. Width(M, d) :
         \E j, k \in 1 .. Width(M, d - 1) : M[d][i] = <<M[d - 1][j], M[d - 1][k]>>
  BY NodeIsParent
<1>. HIDE DEF L, M
<1>5. 0 \in H
  <2>1. Len(L[D]) = 1 /\ Len(M[E]) = 1 /\ L[D][1] = M[E][1]
    BY <1>1 DEF Width
  <2>2. \A i \in 1 .. Len(L[D]) : L[D][i] = M[E][i]
    BY <2>1
  <2>3. L[D] = M[E]
    BY <1>1, <2>1, <2>2, ListsEqual
  <2>. QED BY <2>3
<1>6. ASSUME NEW j \in 1 .. D, j - 1 \in H PROVE j \in H
  <2>. DEFINE d == D - (j - 1)
              e == E - (j - 1)
  <2>1. /\ d \in 1 .. D /\ e \in 1 .. E /\ d - 1 = D - j /\ e - 1 = E - j /\ j \in 0 .. D
        /\ d - 1 \in 0 .. D /\ e - 1 \in 0 .. E
    OBVIOUS
  <2>2. L[d] = M[e]
    BY <1>6
  <2>. HIDE DEF d, e
  <2>3. NextLevel(L[d - 1]) = NextLevel(M[e - 1]) /\ Len(L[d - 1]) > 1 /\ Len(M[e - 1]) > 1
    BY <1>3, <2>1, <2>2
  <2>4. IsList(L[d - 1]) /\ Distinct(L[d - 1]) /\ IsList(M[e - 1]) /\ Distinct(M[e - 1])
    BY <1>2, <2>1
  <2>5. L[d - 1] = M[e - 1]
    BY <2>3, <2>4, NextLevelInjective
  <2>. QED BY <2>1, <2>5
<1>7. H \in SUBSET Nat
  OBVIOUS
<1>. HIDE DEF H
<1>8. D \in H
  <2>1. 0 .. D \subseteq H
    BY <1>5, <1>6, <1>7, UpTo
  <2>. QED BY <2>1
<1>9. s = M[E - D]
  BY <1>1, <1>8 DEF H
<1>10. ASSUME D # E PROVE FALSE
  <2>1. E - D \in 1 .. E
    BY <1>10
  <2>2. 1 \in 1 .. Len(s)
    BY ListIs DEF Leaves
  <2>3. 1 \in 1 .. Width(M, E - D)
    BY <1>9, <2>2 DEF Width
  <2>4. \E j, k \in 1 .. Width(M, E - D - 1) : M[E - D][1] = <<M[E - D - 1][j], M[E - D - 1][k]>>
    BY <1>4, <2>1, <2>3
  <2>5. \E x : s[1] = <<x>>
    BY <2>2 DEF Leaves
  <2>. QED BY <1>9, <2>4, <2>5, LeafIsNoParent, Zenon
<1>11. E - D = 0
  BY <1>10
<1>. QED BY <1>1, <1>9, <1>11

LEMMA RootInjective ==
    ASSUME NEW s, Leaves(s), Distinct(s), NEW t, Leaves(t), Distinct(t),
           MerkleRoot(s) = MerkleRoot(t)
    PROVE  s = t
<1>1. IsList(s) /\ Len(s) >= 1 /\ IsList(t) /\ Len(t) >= 1
  BY DEF Leaves
<1>2. PICK D \in Nat : Tree(s, D)
  BY <1>1, TreeExists
<1>3. PICK E \in Nat : Tree(t, E)
  BY <1>1, TreeExists
<1>4. CASE D <= E
  BY <1>2, <1>3, <1>4, RootInjectiveFrom
<1>5. CASE ~(D <= E)
  <2>1. E <= D
    BY <1>5
  <2>2. t = s
    BY <1>2, <1>3, <2>1, RootInjectiveFrom
  <2>. QED BY <2>2
<1>. QED BY <1>4, <1>5

\* The leaves of a block's tree.
TxLeaves(txs) == [i \in DOMAIN txs |-> Leaf(TxId(txs[i]))]

LEMMA TxLeavesAre ==
    ASSUME NEW txs \in Seq(Tx)
    PROVE  /\ IsList(TxLeaves(txs)) /\ Len(TxLeaves(txs)) = Len(txs)
           /\ \A i \in 1 .. Len(txs) : TxLeaves(txs)[i] = <<txs[i]>>
           /\ Len(txs) >= 1 => Leaves(TxLeaves(txs))
           /\ TxRoot(txs) = MerkleRoot(TxLeaves(txs))
<1>. DEFINE s == TxLeaves(txs)
            n == Len(txs)
<1>1. n \in Nat /\ DOMAIN txs = 1 .. n
  OBVIOUS
<1>2. s = [i \in 1 .. n |-> <<txs[i]>>]
  BY <1>1 DEF TxLeaves, Leaf, TxId
<1>. HIDE DEF s, n
<1>3. s = [i \in 1 .. n |-> s[i]] /\ \A i \in 1 .. n : s[i] = <<txs[i]>>
  BY <1>2
<1>4. IsList(s) /\ Len(s) = n
  BY <1>1, <1>3, ListFrom
<1>5. n >= 1 => Leaves(s)
  BY <1>3, <1>4, Zenon DEF Leaves
<1>6. TxRoot(txs) = MerkleRoot(s)
  BY Zenon DEF TxRoot, TxLeaves, s
<1>. QED BY <1>3, <1>4, <1>5, <1>6 DEF s, n

\* What /prove takes from merkle_proof leads from the transaction to the
\* merkle root of its block.
LEMMA TxPath ==
    ASSUME NEW txs \in Seq(Tx), NEW idx \in 0 .. Len(txs) - 1
    PROVE  MerkleApply(Leaf(TxId(txs[idx + 1])), MerkleSteps(TxLeaves(txs), idx)) = TxRoot(txs)
<1>. DEFINE s == TxLeaves(txs)
<1>1. IsList(s) /\ Len(s) = Len(txs) /\ TxRoot(txs) = MerkleRoot(s)
  BY TxLeavesAre
<1>2. idx + 1 \in 1 .. Len(txs)
  OBVIOUS
<1>3. s[idx + 1] = <<txs[idx + 1]>>
  BY <1>2, TxLeavesAre
<1>. HIDE DEF s
<1>4. MerkleApply(s[idx + 1], MerkleSteps(s, idx)) = MerkleRoot(s)
  BY <1>1, PathLeadsToRoot
<1>. QED BY <1>1, <1>3, <1>4 DEF s, Leaf, TxId

\* A block's merkle root can be reached only from its own transactions.
LEMMA TxPathOnly ==
    ASSUME NEW txs \in Seq(Tx), NEW id, NEW steps, Len(steps) \in Nat,
           MerkleApply(Leaf(id), steps) = TxRoot(txs)
    PROVE  \E i \in DOMAIN txs : TxId(txs[i]) = id
<1>. DEFINE s == TxLeaves(txs)
            C == Climb(<<id>>, steps)
<1>1. MerkleApply(<<id>>, steps) = MerkleRoot(s)
  BY TxLeavesAre DEF Leaf
<1>2. ASSUME Len(txs) = 0 PROVE FALSE
  <2>1. Len(s) = 0 /\ IsList(s)
    BY <1>2, TxLeavesAre
  <2>2. s = << >>
    <3>. DEFINE R == {s[i] : i \in DOMAIN s}
    <3>1. s \in Seq(R)
      BY <2>1 DEF IsList
    <3>. HIDE DEF R
    <3>. QED BY <2>1, <3>1, EmptySeq
  <2>3. C[Len(steps)] = << >>
    BY <1>1, <2>2 DEF MerkleApply, MerkleRoot, ZeroHash
  <2>4. C[0] = <<id>> /\ \A i \in 1 .. Len(steps) : C[i] = Joined(C[i - 1], steps[i])
    BY ClimbDef
  <2>. HIDE DEF C
  <2>5. CASE Len(steps) = 0
    BY <2>3, <2>4, <2>5, LeafIsNoParent
  <2>6. CASE Len(steps) # 0
    <3>1. Len(steps) \in 1 .. Len(steps)
      BY <2>6
    <3>2. \E l, r : C[Len(steps)] = <<l, r>>
      BY <2>4, <3>1, Zenon DEF Joined, MerkleParent
    <3>. QED BY <2>3, <3>2, LeafIsNoParent, Zenon
  <2>. QED BY <2>5, <2>6
<1>3. Len(txs) \in Nat /\ Len(txs) >= 1
  BY <1>2
<1>4. Leaves(s) /\ Len(s) = Len(txs)
  BY <1>3, TxLeavesAre
<1>5. PICK i \in 1 .. Len(s) : s[i] = <<id>>
  BY <1>1, <1>4, PathStartsInTree
<1>6. <<txs[i]>> = <<id>> /\ i \in DOMAIN txs
  BY <1>4, <1>5, TxLeavesAre
<1>. QED BY <1>6 DEF TxId

\* Among lists of transactions that are all different, a merkle root belongs
\* to one only.
LEMMA TxRootInjective ==
    ASSUME NEW txs \in Seq(Tx), Len(txs) >= 1, Distinct(txs),
           NEW uxs \in Seq(Tx), Len(uxs) >= 1, Distinct(uxs),
           TxRoot(txs) = TxRoot(uxs)
    PROVE  txs = uxs
<1>1. ASSUME NEW v \in Seq(Tx), Len(v) >= 1, Distinct(v)
      PROVE  Leaves(TxLeaves(v)) /\ Distinct(TxLeaves(v))
  <2>1. /\ Leaves(TxLeaves(v)) /\ Len(TxLeaves(v)) = Len(v)
        /\ \A i \in 1 .. Len(v) : TxLeaves(v)[i] = <<v[i]>>
    BY <1>1, TxLeavesAre
  <2>2. \A i, j \in 1 .. Len(v) : <<v[i]>> = <<v[j]>> => i = j
    BY <1>1 DEF Distinct
  <2>. QED BY <2>1, <2>2 DEF Distinct
<1>2. MerkleRoot(TxLeaves(txs)) = MerkleRoot(TxLeaves(uxs))
  BY TxLeavesAre
<1>3. TxLeaves(txs) = TxLeaves(uxs)
  BY <1>1, <1>2, RootInjective
<1>4. Len(txs) = Len(uxs) /\ \A i \in 1 .. Len(txs) : <<txs[i]>> = <<uxs[i]>>
  <2>1. Len(txs) = Len(uxs)
    BY <1>3, TxLeavesAre
  <2>2. ASSUME NEW i \in 1 .. Len(txs) PROVE <<txs[i]>> = <<uxs[i]>>
    <3>1. TxLeaves(txs)[i] = <<txs[i]>>
      BY TxLeavesAre
    <3>2. TxLeaves(uxs)[i] = <<uxs[i]>>
      BY <2>1, TxLeavesAre
    <3>. QED BY <1>3, <3>1, <3>2
  <2>. QED BY <2>1, <2>2
<1>5. \A i \in 1 .. Len(txs) : txs[i] = uxs[i]
  BY <1>4
<1>. QED BY <1>4, <1>5, SeqEqual

---------------------------------------------------------------------------
(* Account state *)

\* A transaction that apply_tx accepts leaves natural balances and nonces: no
\* subtraction of apply_tx goes below zero.
LEMMA AfterTxType ==
    ASSUME NEW st \in Accounts, NEW t \in Tx, NEW h, NEW first \in BOOLEAN,
           TxOk(st, t, h, first)
    PROVE  AfterTx(st, t) \in Accounts
<1>. USE AddrAssumption
<1>1. CASE t.type = "coinbase"
  BY <1>1 DEF AfterTx, Accounts, Tx
<1>2. CASE t.type = "transfer"
  <2>1. /\ t.from \in Addr /\ t.to \in Addr /\ t.amount \in Nat
        /\ st[t.from].balance >= t.amount
    BY <1>2 DEF TxOk, WellFormed, Tx
  <2>2. st[t.from].balance \in Nat
    BY <2>1 DEF Accounts
  <2>3. st[t.from].balance - t.amount \in Nat
    BY <2>1, <2>2
  <2>. QED BY <1>2, <2>1, <2>3 DEF AfterTx, Accounts
<1>3. CASE t.type \notin {"coinbase", "transfer"}
  <2>1. t.from \in Addr
    BY <1>3 DEF TxOk, WellFormed, Tx
  <2>. QED BY <1>3, <2>1 DEF AfterTx, Accounts
<1>. QED BY <1>1, <1>2, <1>3

\* What apply_tx leaves in each balance.
LEMMA AfterTxBalance ==
    ASSUME NEW st \in Accounts, NEW t \in Tx, NEW h, NEW first \in BOOLEAN,
           TxOk(st, t, h, first), NEW a \in Addr
    PROVE  AfterTx(st, t)[a].balance
              = st[a].balance - (IF t.type = "transfer" /\ a = t.from THEN t.amount ELSE 0)
                              + (IF t.type # "record" /\ a = t.to THEN t.amount ELSE 0)
<1>1. /\ t.to \in Addr /\ t.amount \in Nat
      /\ t.type # "coinbase" => t.from \in Addr /\ t.type \in {"transfer", "record"}
  BY DEF Tx, TxOk, WellFormed
<1>2. st \in [Addr -> [balance: Nat, nonce: Nat]]
  BY DEF Accounts
<1>3. st[a].balance \in Nat /\ st[a].nonce \in Nat
  BY <1>2
<1>4. CASE t.type = "coinbase"
  <2>1. AfterTx(st, t) = [st EXCEPT ![t.to].balance = @ + t.amount]
    BY <1>4 DEF AfterTx
  <2>2. AfterTx(st, t)[a].balance = st[a].balance + (IF a = t.to THEN t.amount ELSE 0)
    BY <1>1, <1>2, <1>3, <2>1
  <2>. QED BY <1>1, <1>3, <1>4, <2>2
<1>5. CASE t.type = "record"
  <2>1. AfterTx(st, t) = [st EXCEPT ![t.from].nonce = @ + 1]
    BY <1>5 DEF AfterTx
  <2>2. AfterTx(st, t)[a].balance = st[a].balance
    BY <1>1, <1>2, <1>3, <1>5, <2>1
  <2>. QED BY <1>1, <1>3, <1>5, <2>2
<1>6. CASE t.type = "transfer"
  <2>1. AfterTx(st, t) = [st EXCEPT ![t.from].balance = @ - t.amount,
                                    ![t.to].balance = @ + t.amount,
                                    ![t.from].nonce = @ + 1]
    BY <1>6 DEF AfterTx
  <2>2. AfterTx(st, t)[a].balance = st[a].balance - (IF a = t.from THEN t.amount ELSE 0)
                                                  + (IF a = t.to THEN t.amount ELSE 0)
    BY <1>1, <1>2, <1>3, <1>6, <2>1
  <2>. QED BY <1>6, <2>2
<1>. QED BY <1>1, <1>4, <1>5, <1>6

\* The loop of connect_block over a block's transactions: its values are
\* account states, and its equation.
LEMMA TxLoopDef ==
    ASSUME NEW st \in Accounts, NEW txs \in Seq(Tx), NEW height
    PROVE  LET g == TxLoop(st, txs, height)
           IN  /\ g \in [0 .. Len(txs) -> [ok: BOOLEAN, st: Accounts]]
               /\ g[0] = [ok |-> TRUE, st |-> st]
               /\ \A i \in 1 .. Len(txs) : g[i] = TxStep(g[i - 1], txs[i], height, i = 1)
<1>. DEFINE n == Len(txs)
            S == [ok: BOOLEAN, st: Accounts]
            s0 == [ok |-> TRUE, st |-> st]
            f == [x \in S \X (1 .. n) |-> TxStep(x[1], txs[x[2]], height, x[2] = 1)]
            F(g) == [i \in 0 .. n |-> IF i = 0 THEN s0
                                      ELSE TxStep(g[i - 1], txs[i], height, i = 1)]
            L == TxLoop(st, txs, height)
<1>1. n \in Nat /\ s0 \in S
  OBVIOUS
<1>2. ASSUME NEW s \in S, NEW i \in 1 .. n
      PROVE  TxStep(s, txs[i], height, i = 1) \in S
  <2>1. txs[i] \in Tx
    OBVIOUS
  <2>. QED BY <2>1, AfterTxType DEF TxStep
<1>3. f \in [S \X (1 .. n) -> S]
  BY <1>2
<1>4. L = CHOOSE x : x = F(x)
  BY Zenon DEF TxLoop
<1>. HIDE DEF S, s0, f, n, L
<1>5. \E g \in [0 .. n -> S] : IsLoop(g, s0, n, f)
  BY <1>1, <1>3, LoopExists
<1>6. PICK g \in [0 .. n -> S] : IsLoop(g, s0, n, f)
  BY <1>5
<1>7. ASSUME NEW i \in 1 .. n PROVE g[i] = TxStep(g[i - 1], txs[i], height, i = 1)
  <2>1. i - 1 \in 0 .. n
    BY <1>1
  <2>2. <<g[i - 1], i>> \in S \X (1 .. n)
    BY <2>1
  <2>. QED BY <2>2, <1>6 DEF f, IsLoop
<1>8. g = F(g)
  BY <1>6, <1>7, <1>1 DEF IsLoop
<1>9. L = F(L)
  BY <1>4, <1>8, Zenon
<1>10. L[0] = s0 /\ \A i \in 1 .. n : L[i] = TxStep(L[i - 1], txs[i], height, i = 1)
  BY <1>9, <1>1
<1>11. \A i \in 0 .. n : L[i] \in S
  <2>. DEFINE H == {i \in 0 .. n : L[i] \in S}
  <2>1. 0 \in H
    BY <1>10, <1>1
  <2>2. ASSUME NEW i \in 1 .. n, i - 1 \in H PROVE i \in H
    BY <2>2, <1>10, <1>1, <1>2
  <2>3. H \in SUBSET Nat
    BY <1>1
  <2>. HIDE DEF H
  <2>4. 0 .. n \subseteq H
    BY <2>1, <2>2, <2>3, <1>1, UpTo
  <2>. QED BY <2>4 DEF H
<1>12. L \in [0 .. n -> S]
  BY <1>9, <1>11
<1>. QED BY <1>10, <1>12 DEF L, n, S, s0

---------------------------------------------------------------------------
(* Chains *)

\* The txids of a block's transactions get a height and an index.
LEMMA IndexedType ==
    ASSUME NEW txidx, DOMAIN txidx \subseteq Tx, txidx \in [DOMAIN txidx -> Nat \X Nat],
           NEW b, BlockOK(b)
    PROVE  /\ DOMAIN Indexed(txidx, b) \subseteq Tx
           /\ Indexed(txidx, b) \in [DOMAIN Indexed(txidx, b) -> Nat \X Nat]
           /\ DOMAIN txidx \subseteq DOMAIN Indexed(txidx, b)
           /\ \A i \in DOMAIN b.txs : b.txs[i] \in DOMAIN Indexed(txidx, b)
           /\ \A id \in DOMAIN Indexed(txidx, b) :
                 \/ id \in DOMAIN txidx /\ Indexed(txidx, b)[id] = txidx[id]
                 \/ \E i \in DOMAIN b.txs : /\ b.txs[i] = id
                                            /\ Indexed(txidx, b)[id] = <<b.h.height, i - 1>>
<1>. DEFINE n == Len(b.txs)
            new == {b.txs[i] : i \in DOMAIN b.txs}
            Last(id, i) == b.txs[i] = id /\ \A j \in DOMAIN b.txs : b.txs[j] = id => j <= i
            pos(id) == CHOOSE i \in DOMAIN b.txs : Last(id, i)
            I == Indexed(txidx, b)
<1>1. b.txs \in Seq(Tx) /\ b.h.height \in Nat
  BY DEF BlockOK
<1>2. n \in Nat /\ DOMAIN b.txs = 1 .. n /\ new \subseteq Tx
  BY <1>1
<1>3. I = [id \in DOMAIN txidx \cup new |->
              IF id \in new THEN <<b.h.height, pos(id) - 1>> ELSE txidx[id]]
  BY Zenon DEF Indexed, TxId
<1>4. ASSUME NEW id \in new PROVE pos(id) \in DOMAIN b.txs /\ b.txs[pos(id)] = id
  <2>. DEFINE T == {k \in 0 .. n : n - k \in DOMAIN b.txs /\ b.txs[n - k] = id}
  <2>1. PICK i \in DOMAIN b.txs : b.txs[i] = id
    BY <1>4
  <2>2. n - i \in 0 .. n /\ n - (n - i) = i
    BY <1>2
  <2>3. T # {} /\ T \subseteq Nat
    BY <2>1, <2>2, <1>2
  <2>4. PICK k \in T : \A y \in T : k <= y
    BY <2>3, LeastNat
  <2>5. n - k \in DOMAIN b.txs /\ b.txs[n - k] = id
    OBVIOUS
  <2>6. ASSUME NEW j \in DOMAIN b.txs, b.txs[j] = id PROVE j <= n - k
    <3>1. n - j \in 0 .. n /\ n - (n - j) = j
      BY <1>2
    <3>2. n - j \in T
      BY <2>6, <3>1
    <3>3. k <= n - j
      BY <3>2, <2>4
    <3>. QED BY <3>3, <1>2
  <2>7. \E x \in DOMAIN b.txs : Last(id, x)
    BY <2>5, <2>6
  <2>. QED BY <2>7, Zenon
<1>. HIDE DEF pos, I, new
<1>5. ASSUME NEW id \in new
      PROVE  I[id] = <<b.h.height, pos(id) - 1>> /\ I[id] \in Nat \X Nat
  BY <1>1, <1>2, <1>3, <1>4
<1>6. DOMAIN I = DOMAIN txidx \cup new
  BY <1>3
<1>7. \A id \in DOMAIN I : I[id] \in Nat \X Nat
  BY <1>3, <1>5, <1>6
<1>8. ASSUME NEW id \in DOMAIN I
      PROVE  \/ id \in DOMAIN txidx /\ I[id] = txidx[id]
             \/ \E i \in DOMAIN b.txs : b.txs[i] = id /\ I[id] = <<b.h.height, i - 1>>
  <2>1. CASE id \in new
    BY <2>1, <1>4, <1>5
  <2>2. CASE id \notin new
    BY <2>2, <1>3, <1>6
  <2>. QED BY <2>1, <2>2
<1>9. I \in [DOMAIN I -> Nat \X Nat]
  BY <1>3, <1>6, <1>7
<1>10. DOMAIN I \subseteq Tx
  BY <1>2, <1>6
<1>11. \A i \in DOMAIN b.txs : b.txs[i] \in DOMAIN I
  BY <1>6 DEF new
<1>. QED BY <1>6, <1>8, <1>9, <1>10, <1>11 DEF I

\* The chains whose blocks are of the set B.
ChainOver(B) ==
    [blocks: Seq(B), st: Accounts,
     txidx: UNION {[D -> Nat \X Nat] : D \in SUBSET Tx}, work: Nat]

\* ChainOK is membership of ChainOver(B), for any B that has the blocks.
LEMMA ChainOKOver ==
    ASSUME NEW c, ChainOK(c), NEW B, {c.blocks[i] : i \in DOMAIN c.blocks} \subseteq B
    PROVE  c \in ChainOver(B)
<1>. DEFINE D == DOMAIN c.txidx
<1>1. D \in SUBSET Tx /\ c.txidx \in [D -> Nat \X Nat]
  BY DEF ChainOK
<1>2. c.txidx \in UNION {[E -> Nat \X Nat] : E \in SUBSET Tx}
  <2>. HIDE DEF D
  <2>. QED BY <1>1
<1>3. c.blocks \in Seq(B)
  <2>1. c.blocks \in Seq({c.blocks[i] : i \in DOMAIN c.blocks})
    BY DEF ChainOK
  <2>. QED BY <2>1
<1>4. c = [blocks |-> c.blocks, st |-> c.st, txidx |-> c.txidx, work |-> c.work]
  BY DEF ChainOK
<1>5. c.st \in Accounts /\ c.work \in Nat
  BY DEF ChainOK
<1>. QED BY <1>2, <1>3, <1>4, <1>5 DEF ChainOver

\* The other way round: a member of ChainOver(B) is a chain by type.
LEMMA OverChainOK ==
    ASSUME NEW B, \A b \in B : BlockOK(b), NEW c \in ChainOver(B)
    PROVE  ChainOK(c)
<1>1. /\ c = [blocks |-> c.blocks, st |-> c.st, txidx |-> c.txidx, work |-> c.work]
      /\ c.blocks \in Seq(B) /\ c.st \in Accounts /\ c.work \in Nat
      /\ c.txidx \in UNION {[D -> Nat \X Nat] : D \in SUBSET Tx}
  BY DEF ChainOver
<1>2. PICK D \in SUBSET Tx : c.txidx \in [D -> Nat \X Nat]
  BY <1>1
<1>3. DOMAIN c.txidx \subseteq Tx /\ c.txidx \in [DOMAIN c.txidx -> Nat \X Nat]
  BY <1>2
<1>4. c.blocks \in Seq({c.blocks[i] : i \in DOMAIN c.blocks})
  BY <1>1
<1>5. \A i \in DOMAIN c.blocks : BlockOK(c.blocks[i])
  BY <1>1
<1>. QED BY <1>1, <1>3, <1>4, <1>5 DEF ChainOK

\* The tmp chain that try_replace starts from is one.
LEMMA EmptyChainOver ==
    ASSUME NEW B
    PROVE  EmptyChain \in ChainOver(B)
<1>1. << >> \in [{} -> Nat \X Nat]
  OBVIOUS
<1>2. << >> \in UNION {[D -> Nat \X Nat] : D \in SUBSET Tx}
  BY <1>1
<1>3. NoAccounts \in Accounts
  BY DEF NoAccounts, Accounts
<1>4. << >> \in Seq(B)
  OBVIOUS
<1>. QED BY <1>2, <1>3, <1>4 DEF EmptyChain, ChainOver

\* connect_block keeps a chain a chain and adds work.
LEMMA ConnectedType ==
    ASSUME NEW B, \A x \in B : BlockOK(x), NEW c \in ChainOver(B), NEW b \in B
    PROVE  /\ Connected(c, b) \in ChainOver(B)
           /\ Connected(c, b).work > c.work
           /\ Connected(c, b).blocks = Append(c.blocks, b)
           /\ Connected(c, b).txidx = Indexed(c.txidx, b)
<1>. DEFINE st == TxLoop(c.st, b.txs, b.h.height)[Len(b.txs)].st
            idx == Indexed(c.txidx, b)
            work == c.work + (IF c.blocks = << >> THEN 1 ELSE BlockWork)
<1>1. ChainOK(c) /\ BlockOK(b)
  BY OverChainOK
<1>2. c.blocks \in Seq(B) /\ c.st \in Accounts /\ c.work \in Nat
  BY DEF ChainOver
<1>3. b.txs \in Seq(Tx) /\ Len(b.txs) \in Nat
  BY <1>1 DEF BlockOK
<1>4. st \in Accounts
  <2>. DEFINE g == TxLoop(c.st, b.txs, b.h.height)
  <2>1. g \in [0 .. Len(b.txs) -> [ok: BOOLEAN, st: Accounts]]
    BY <1>2, <1>3, TxLoopDef
  <2>. HIDE DEF g
  <2>2. g[Len(b.txs)].st \in Accounts
    BY <2>1, <1>3
  <2>. QED BY <2>2 DEF g
<1>5. DOMAIN idx \in SUBSET Tx /\ idx \in [DOMAIN idx -> Nat \X Nat]
  BY <1>1, IndexedType DEF ChainOK
<1>6. work \in Nat /\ work > c.work
  BY <1>2, BlockWorkAssumption
<1>7. Append(c.blocks, b) \in Seq(B)
  BY <1>2
<1>8. Connected(c, b) = [blocks |-> Append(c.blocks, b), st |-> st, txidx |-> idx, work |-> work]
  BY Zenon DEF Connected
<1>. HIDE DEF st, idx, work
<1>9. idx \in UNION {[D -> Nat \X Nat] : D \in SUBSET Tx}
  BY <1>5
<1>10. Connected(c, b) \in ChainOver(B)
  BY <1>4, <1>6, <1>7, <1>8, <1>9 DEF ChainOver
<1>. QED BY <1>6, <1>8, <1>10 DEF idx

\* The loop that connects the blocks of v: its equation, and its invariant.
\* C is any set of chains that connecting a block of v does not leave.
LEMMA ConnectLoopDef ==
    ASSUME NEW C, NEW c \in C, NEW v, Len(v) \in Nat, NEW timely,
           \A x \in C : \A i \in 1 .. Len(v) :
              CanConnect(x, v[i], timely) => Connected(x, v[i]) \in C
    PROVE  LET g == ConnectLoop(c, v, timely)
           IN  /\ g \in [0 .. Len(v) -> [chain: C, okc: Nat]]
               /\ g[0] = [chain |-> c, okc |-> 0]
               /\ \A i \in 1 .. Len(v) : g[i] = ConnectStep(g[i - 1], v[i], i, timely)
<1>. DEFINE n == Len(v)
            S == [chain: C, okc: Nat]
            s0 == [chain |-> c, okc |-> 0]
            f == [x \in S \X (1 .. n) |-> ConnectStep(x[1], v[x[2]], x[2], timely)]
            F(g) == [i \in 0 .. n |-> IF i = 0 THEN s0
                                      ELSE ConnectStep(g[i - 1], v[i], i, timely)]
            L == ConnectLoop(c, v, timely)
<1>1. n \in Nat /\ s0 \in S
  OBVIOUS
<1>2. ASSUME NEW s \in S, NEW i \in 1 .. n
      PROVE  ConnectStep(s, v[i], i, timely) \in S
  BY DEF ConnectStep
<1>3. f \in [S \X (1 .. n) -> S]
  BY <1>2
<1>4. L = CHOOSE x : x = F(x)
  BY Zenon DEF ConnectLoop
<1>. HIDE DEF S, s0, f, n, L
<1>5. \E g \in [0 .. n -> S] : IsLoop(g, s0, n, f)
  BY <1>1, <1>3, LoopExists
<1>6. PICK g \in [0 .. n -> S] : IsLoop(g, s0, n, f)
  BY <1>5
<1>7. ASSUME NEW i \in 1 .. n PROVE g[i] = ConnectStep(g[i - 1], v[i], i, timely)
  <2>1. i - 1 \in 0 .. n
    BY <1>1
  <2>2. <<g[i - 1], i>> \in S \X (1 .. n)
    BY <2>1
  <2>. QED BY <2>2, <1>6 DEF f, IsLoop
<1>8. g = F(g)
  BY <1>6, <1>7, <1>1 DEF IsLoop
<1>9. L = F(L)
  BY <1>4, <1>8, Zenon
<1>10. L[0] = s0 /\ \A i \in 1 .. n : L[i] = ConnectStep(L[i - 1], v[i], i, timely)
  BY <1>9, <1>1
<1>11. \A i \in 0 .. n : L[i] \in S
  <2>. DEFINE H == {i \in 0 .. n : L[i] \in S}
  <2>1. 0 \in H
    BY <1>10, <1>1
  <2>2. ASSUME NEW i \in 1 .. n, i - 1 \in H PROVE i \in H
    BY <2>2, <1>10, <1>1, <1>2
  <2>3. H \in SUBSET Nat
    BY <1>1
  <2>. HIDE DEF H
  <2>4. 0 .. n \subseteq H
    BY <2>1, <2>2, <2>3, <1>1, UpTo
  <2>. QED BY <2>4 DEF H
<1>12. L \in [0 .. n -> S]
  BY <1>9, <1>11
<1>. QED BY <1>10, <1>12 DEF L, n, S, s0

---------------------------------------------------------------------------
(* Replaying a chain *)

\* Rebuilding c from nothing, block by block as try_replace does, gives c.
Replays(c, timely) ==
    ConnectAll(EmptyChain, c.blocks, timely) = [chain |-> c, okc |-> Len(c.blocks)]

\* The header says where a block that connects goes.
LEMMA ConnectHeight ==
    ASSUME NEW B, NEW c \in ChainOver(B), NEW b, NEW timely \in BOOLEAN,
           CanConnect(c, b, timely)
    PROVE  b.h.height = Len(c.blocks) /\ CanConnect(c, b, TRUE)
<1>1. c.blocks \in Seq(B)
  BY DEF ChainOver
<1>2. CASE c.blocks = << >>
  <2>1. BlockHash(b) = BlockHash(Genesis)
    BY <1>2 DEF CanConnect
  <2>2. b.h.height = Genesis.h.height
    BY <2>1 DEF BlockHash, HeaderHash
  <2>3. b.h.height = 0
    BY <2>2 DEF Genesis
  <2>4. CanConnect(c, b, TRUE)
    BY <1>2 DEF CanConnect
  <2>. QED BY <1>2, <2>3, <2>4
<1>3. CASE c.blocks # << >>
  <2>1. b.h.height = Height(c) + 1 /\ timely
    BY <1>3 DEF CanConnect
  <2>2. Len(c.blocks) \in Nat
    BY <1>1
  <2>3. Height(c) + 1 = Len(c.blocks)
    BY <2>2 DEF Height
  <2>4. timely = TRUE
    BY <2>1
  <2>. QED BY <2>1, <2>3, <2>4
<1>. QED BY <1>2, <1>3

\* The empty chain replays: the loop takes no turn.
LEMMA EmptyReplays ==
    ASSUME NEW timely
    PROVE  Replays(EmptyChain, timely)
<1>. DEFINE v == << >>
            C == {EmptyChain}
<1>1. Len(v) = 0 /\ 1 .. Len(v) = {}
  OBVIOUS
<1>2. EmptyChain \in C
  OBVIOUS
<1>. HIDE DEF v, C
<1>3. ConnectLoop(EmptyChain, v, timely)[0] = [chain |-> EmptyChain, okc |-> 0]
  BY <1>1, <1>2, ConnectLoopDef
<1>4. EmptyChain.blocks = v
  BY DEF EmptyChain, v
<1>. QED BY <1>1, <1>3, <1>4 DEF Replays, ConnectAll

\* A chain that replays still does with one more block: the loop over the
\* longer list takes the same turns, and then one more.
LEMMA ReplayConnected ==
    ASSUME NEW B, \A x \in B : BlockOK(x), NEW c \in ChainOver(B), NEW b \in B,
           NEW timely, CanConnect(c, b, timely), Replays(c, timely)
    PROVE  Replays(Connected(c, b), timely)
<1>. DEFINE u == c.blocks
            w == Append(u, b)
            n == Len(u)
            m == Len(w)
            g == ConnectLoop(EmptyChain, u, timely)
            h == ConnectLoop(EmptyChain, w, timely)
            H == {i \in 0 .. n : h[i] = g[i]}
<1>1. u \in Seq(B) /\ n \in Nat
  BY DEF ChainOver
<1>2. /\ w \in Seq(B) /\ m \in Nat /\ m = n + 1
      /\ w[m] = b
      /\ \A i \in 1 .. n : w[i] = u[i]
  BY <1>1, AppendProperties
<1>3. \A x \in ChainOver(B) : \A y \in B : Connected(x, y) \in ChainOver(B)
  BY ConnectedType
<1>4. EmptyChain \in ChainOver(B)
  BY EmptyChainOver
<1>5. /\ g[0] = [chain |-> EmptyChain, okc |-> 0]
      /\ \A i \in 1 .. n : g[i] = ConnectStep(g[i - 1], u[i], i, timely)
  <2>1. \A i \in 1 .. n : u[i] \in B
    BY <1>1
  <2>. HIDE DEF u
  <2>. QED BY <1>1, <1>3, <1>4, <2>1, ConnectLoopDef
<1>6. /\ h[0] = [chain |-> EmptyChain, okc |-> 0]
      /\ \A i \in 1 .. m : h[i] = ConnectStep(h[i - 1], w[i], i, timely)
  <2>1. \A i \in 1 .. m : w[i] \in B
    BY <1>2
  <2>. HIDE DEF w, n
  <2>. QED BY <1>2, <1>3, <1>4, <2>1, ConnectLoopDef, SMTT(30)
<1>. HIDE DEF g, h, w, u, n, m
<1>7. n \in H
  <2>1. 0 \in H
    BY <1>1, <1>5, <1>6
  <2>2. ASSUME NEW i \in 1 .. n, i - 1 \in H PROVE i \in H
    BY <2>2, <1>1, <1>2, <1>5, <1>6
  <2>3. H \in SUBSET Nat
    BY <1>1
  <2>. HIDE DEF H
  <2>4. 0 .. n \subseteq H
    BY <2>1, <2>2, <2>3, <1>1, UpTo
  <2>. QED BY <2>4, <1>1
<1>8. h[n] = [chain |-> c, okc |-> n]
  <2>1. g[n] = [chain |-> c, okc |-> n]
    BY DEF Replays, ConnectAll, g, n, u
  <2>. QED BY <1>7, <2>1
<1>9. m - 1 = n /\ m \in 1 .. m
  BY <1>1, <1>2
<1>10. h[m] = ConnectStep(h[n], b, m, timely)
  BY <1>2, <1>6, <1>9
<1>11. h[m] = [chain |-> Connected(c, b), okc |-> m]
  BY <1>8, <1>9, <1>10 DEF ConnectStep
<1>12. Connected(c, b).blocks = w
  BY ConnectedType DEF w, u
<1>. QED BY <1>11, <1>12 DEF Replays, ConnectAll, h, m

---------------------------------------------------------------------------
(* The transaction index *)

\* txidx finds exactly the transactions of the chain's blocks.
IndexOf(c) ==
    /\ \A id \in DOMAIN c.txidx :
          LET at == c.txidx[id]
          IN  /\ at[1] + 1 \in DOMAIN c.blocks
              /\ at[2] + 1 \in DOMAIN c.blocks[at[1] + 1].txs
              /\ TxId(c.blocks[at[1] + 1].txs[at[2] + 1]) = id
    /\ \A i \in DOMAIN c.blocks : \A j \in DOMAIN c.blocks[i].txs :
          TxId(c.blocks[i].txs[j]) \in DOMAIN c.txidx

\* Its index is exact, too.
LEMMA EmptyIndex == IndexOf(EmptyChain)
BY DEF IndexOf, EmptyChain

\* append keeps the index exact: the entries of the new block name the place
\* it goes to, and the others still name theirs.
LEMMA IndexConnected ==
    ASSUME NEW B, \A x \in B : BlockOK(x), NEW c \in ChainOver(B), NEW b \in B,
           NEW timely \in BOOLEAN, CanConnect(c, b, timely), IndexOf(c)
    PROVE  IndexOf(Connected(c, b))
<1>. DEFINE d == Connected(c, b)
            n == Len(c.blocks)
            m == n + 1
            I == Indexed(c.txidx, b)
<1>1. c.blocks \in Seq(B) /\ n \in Nat
  BY DEF ChainOver
<1>2. d.blocks = Append(c.blocks, b) /\ d.txidx = I
  BY ConnectedType
<1>3. /\ DOMAIN d.blocks = 1 .. m
      /\ \A i \in 1 .. n : d.blocks[i] = c.blocks[i]
      /\ d.blocks[m] = b
  <2>. DEFINE w == Append(c.blocks, b)
  <2>1. w \in Seq(B) /\ Len(w) = m /\ w[m] = b /\ \A i \in 1 .. n : w[i] = c.blocks[i]
    BY <1>1, AppendProperties
  <2>2. DOMAIN w = 1 .. m
    BY <2>1
  <2>. HIDE DEF w, d, m, n
  <2>3. d.blocks = w
    BY <1>2 DEF w
  <2>. QED BY <2>1, <2>2, <2>3
<1>4. b.h.height = n
  BY ConnectHeight
<1>5. ChainOK(c) /\ BlockOK(b)
  BY OverChainOK
<1>6. /\ DOMAIN c.txidx \subseteq DOMAIN I
      /\ \A i \in DOMAIN b.txs : b.txs[i] \in DOMAIN I
      /\ \A id \in DOMAIN I :
            \/ id \in DOMAIN c.txidx /\ I[id] = c.txidx[id]
            \/ \E i \in DOMAIN b.txs : b.txs[i] = id /\ I[id] = <<b.h.height, i - 1>>
  <2>1. DOMAIN c.txidx \subseteq Tx /\ c.txidx \in [DOMAIN c.txidx -> Nat \X Nat]
    BY <1>5 DEF ChainOK
  <2>. QED BY <1>5, <2>1, IndexedType
<1>7. b.txs \in Seq(Tx)
  BY <1>5 DEF BlockOK
<1>. HIDE DEF d, I
<1>8. ASSUME NEW id \in DOMAIN d.txidx
      PROVE  LET at == d.txidx[id]
             IN  /\ at[1] + 1 \in DOMAIN d.blocks
                 /\ at[2] + 1 \in DOMAIN d.blocks[at[1] + 1].txs
                 /\ d.blocks[at[1] + 1].txs[at[2] + 1] = id
  <2>1. CASE \E i \in DOMAIN b.txs : b.txs[i] = id /\ I[id] = <<b.h.height, i - 1>>
    <3>1. PICK i \in DOMAIN b.txs : b.txs[i] = id /\ I[id] = <<n, i - 1>>
      BY <2>1, <1>4
    <3>2. i \in Nat /\ i - 1 + 1 = i /\ n + 1 = m /\ m \in 1 .. m
      BY <1>1, <1>7
    <3>3. I[id][1] = n /\ I[id][2] = i - 1
      BY <3>1
    <3>. HIDE DEF m
    <3>. QED BY <3>1, <3>2, <3>3, <1>2, <1>3
  <2>2. CASE id \in DOMAIN c.txidx /\ I[id] = c.txidx[id]
    <3>. DEFINE at == c.txidx[id]
    <3>1. /\ at[1] + 1 \in DOMAIN c.blocks
          /\ at[2] + 1 \in DOMAIN c.blocks[at[1] + 1].txs
          /\ c.blocks[at[1] + 1].txs[at[2] + 1] = id
      BY <2>2 DEF IndexOf, TxId
    <3>2. at[1] + 1 \in 1 .. n /\ at[1] + 1 \in 1 .. m
      BY <3>1, <1>1
    <3>3. d.txidx[id] = at
      BY <2>2, <1>2
    <3>. HIDE DEF m, at
    <3>4. d.blocks[at[1] + 1] = c.blocks[at[1] + 1]
      BY <3>2, <1>3
    <3>. QED BY <3>1, <3>2, <3>3, <3>4, <1>3
  <2>. QED BY <2>1, <2>2, <1>2, <1>6
<1>9. ASSUME NEW i \in DOMAIN d.blocks, NEW j \in DOMAIN d.blocks[i].txs
      PROVE  d.blocks[i].txs[j] \in DOMAIN d.txidx
  <2>1. CASE i = m
    BY <2>1, <1>2, <1>3, <1>6
  <2>2. CASE i # m
    <3>1. i \in 1 .. n /\ i \in DOMAIN c.blocks
      BY <2>2, <1>1, <1>3
    <3>2. d.blocks[i] = c.blocks[i]
      BY <3>1, <1>3
    <3>3. c.blocks[i].txs[j] \in DOMAIN c.txidx
      BY <3>1, <3>2 DEF IndexOf, TxId
    <3>. QED BY <3>2, <3>3, <1>2, <1>6
  <2>. QED BY <2>1, <2>2
<1>. QED BY <1>8, <1>9 DEF IndexOf, TxId, d

---------------------------------------------------------------------------
(* Replay protection *)

\* apply_tx consumes the nonce that the account had, and no other.
LEMMA AfterTxNonces ==
    ASSUME NEW st \in Accounts, NEW t \in Tx, NEW h, NEW first \in BOOLEAN,
           TxOk(st, t, h, first)
    PROVE  /\ t.type # "coinbase" => t.from \in Addr /\ t.nonce = st[t.from].nonce
           /\ \A a \in Addr : AfterTx(st, t)[a].nonce =
                 IF t.type # "coinbase" /\ t.from = a THEN st[a].nonce + 1 ELSE st[a].nonce
<1>. USE AddrAssumption
<1>1. t.type # "coinbase" => t.from \in Addr /\ t.nonce = st[t.from].nonce
  BY DEF TxOk, WellFormed, Tx
<1>2. t.to \in Addr /\ st \in [Addr -> [balance: Nat, nonce: Nat]]
  BY DEF Tx, Accounts
<1>3. CASE t.type = "coinbase"
  BY <1>2, <1>3 DEF AfterTx
<1>4. CASE t.type = "transfer"
  BY <1>1, <1>2, <1>4 DEF AfterTx
<1>5. CASE t.type \notin {"coinbase", "transfer"}
  BY <1>1, <1>2, <1>5 DEF AfterTx
<1>. QED BY <1>1, <1>3, <1>4, <1>5

\* What the loop over a block's transactions consumes, up to turn i: the nonces
\* from those the accounts had before the block to those they have then, each
\* by exactly one transaction.
NoncesUpTo(st, txs, i, now) ==
    /\ \A a \in Addr : st[a].nonce <= now[a].nonce
    /\ \A j \in 1 .. i : txs[j].type # "coinbase" =>
          /\ txs[j].from \in Addr
          /\ st[txs[j].from].nonce <= txs[j].nonce /\ txs[j].nonce < now[txs[j].from].nonce
    /\ \A j, k \in 1 .. i :
          txs[j].type # "coinbase" /\ txs[k].type # "coinbase"
          /\ txs[j].from = txs[k].from /\ txs[j].nonce = txs[k].nonce => j = k
    /\ \A a \in Addr, m \in Nat :
          st[a].nonce <= m /\ m < now[a].nonce =>
             \E j \in 1 .. i : txs[j].type # "coinbase" /\ txs[j].from = a /\ txs[j].nonce = m

\* The loop of connect_block consumes nonces that way.
LEMMA TxLoopNonces ==
    ASSUME NEW st \in Accounts, NEW txs \in Seq(Tx), NEW height,
           TxLoop(st, txs, height)[Len(txs)].ok
    PROVE  NoncesUpTo(st, txs, Len(txs), TxLoop(st, txs, height)[Len(txs)].st)
<1>. DEFINE n == Len(txs)
            g == TxLoop(st, txs, height)
            H == {i \in 0 .. n : g[i].ok => NoncesUpTo(st, txs, i, g[i].st)}
<1>1. /\ g \in [0 .. n -> [ok: BOOLEAN, st: Accounts]]
      /\ g[0] = [ok |-> TRUE, st |-> st]
      /\ \A i \in 1 .. n : g[i] = TxStep(g[i - 1], txs[i], height, i = 1)
      /\ n \in Nat
  BY TxLoopDef
<1>. HIDE DEF g
<1>2. \A a \in Addr : st[a].nonce \in Nat BY DEF Accounts
<1>3. \A i \in 1 .. n : txs[i] \in Tx /\ txs[i].nonce \in Nat
  <2>1. \A i \in 1 .. n : txs[i] \in Tx OBVIOUS
  <2>2. \A t \in Tx : t.nonce \in Nat BY DEF Tx
  <2>. QED BY <2>1, <2>2
<1>4. 0 \in H
  <2>1. g[0].st = st BY <1>1
  <2>2. NoncesUpTo(st, txs, 0, st) BY <1>2 DEF NoncesUpTo
  <2>. QED BY <1>1, <2>1, <2>2
<1>5. ASSUME NEW i \in 1 .. n, i - 1 \in H PROVE i \in H
  <2>. SUFFICES ASSUME g[i].ok PROVE NoncesUpTo(st, txs, i, g[i].st)
    BY <1>1
  <2>. DEFINE s == g[i - 1]
              t == txs[i]
  <2>1. s \in [ok: BOOLEAN, st: Accounts] /\ t \in Tx /\ i - 1 \in 0 .. n
    BY <1>1, <1>3
  <2>2. g[i] = TxStep(s, t, height, i = 1) BY <1>1
  <2>3. s.ok /\ TxOk(s.st, t, height, i = 1) /\ g[i].st = AfterTx(s.st, t)
    BY <2>2 DEF TxStep
  <2>. DEFINE now == g[i].st
              old == s.st
  <2>4. NoncesUpTo(st, txs, i - 1, old) BY <1>5, <2>3
  <2>5. old \in Accounts BY <2>1
  <2>6. /\ t.type # "coinbase" => t.from \in Addr /\ t.nonce = old[t.from].nonce
        /\ \A a \in Addr : now[a].nonce =
              IF t.type # "coinbase" /\ t.from = a THEN old[a].nonce + 1 ELSE old[a].nonce
    <3>. DEFINE first == i = 1
    <3>1. first \in BOOLEAN /\ TxOk(old, t, height, first) /\ now = AfterTx(old, t) BY <2>3
    <3>. HIDE DEF old, now, t, first
    <3>. QED BY <2>1, <2>5, <3>1, AfterTxNonces
  <2>7. \A a \in Addr : old[a].nonce \in Nat /\ now[a].nonce \in Nat
    BY <2>5, <2>6 DEF Accounts
  <2>8. \A j \in 1 .. i : j \in 1 .. i - 1 \/ j = i BY <1>1
  <2>. HIDE DEF s, old, now
  <2>9. \A a \in Addr : st[a].nonce <= now[a].nonce
    BY <1>2, <2>4, <2>6, <2>7 DEF NoncesUpTo
  <2>10. ASSUME NEW j \in 1 .. i, txs[j].type # "coinbase"
         PROVE  /\ txs[j].from \in Addr
                /\ st[txs[j].from].nonce <= txs[j].nonce /\ txs[j].nonce < now[txs[j].from].nonce
    <3>1. CASE j = i BY <1>2, <2>4, <2>6, <2>7, <2>10, <3>1 DEF NoncesUpTo
    <3>2. CASE j \in 1 .. i - 1
      <4>1. /\ txs[j].from \in Addr
            /\ st[txs[j].from].nonce <= txs[j].nonce /\ txs[j].nonce < old[txs[j].from].nonce
        BY <2>4, <2>10, <3>2 DEF NoncesUpTo
      <4>2. j \in 1 .. n BY <1>1
      <4>. QED BY <1>2, <1>3, <2>6, <2>7, <4>1, <4>2
    <3>. QED BY <2>8, <3>1, <3>2
  <2>11. ASSUME NEW j \in 1 .. i, NEW k \in 1 .. i, txs[j].type # "coinbase", txs[k].type # "coinbase",
                txs[j].from = txs[k].from, txs[j].nonce = txs[k].nonce
         PROVE  j = k
    <3>1. ASSUME NEW x \in 1 .. i - 1, txs[x].type # "coinbase", t.type # "coinbase",
                 txs[x].from = t.from
          PROVE  txs[x].nonce # t.nonce
      <4>1. x \in 1 .. n BY <1>1
      <4>2. txs[x].nonce < old[t.from].nonce /\ txs[x].nonce \in Nat
        BY <1>3, <2>4, <3>1, <4>1 DEF NoncesUpTo
      <4>. QED BY <2>6, <2>7, <3>1, <4>2
    <3>2. CASE j \in 1 .. i - 1 /\ k \in 1 .. i - 1
      BY <2>4, <2>11, <3>2 DEF NoncesUpTo
    <3>. QED BY <2>8, <2>11, <3>1, <3>2
  <2>12. ASSUME NEW a \in Addr, NEW m \in Nat, st[a].nonce <= m, m < now[a].nonce
         PROVE  \E j \in 1 .. i : txs[j].type # "coinbase" /\ txs[j].from = a /\ txs[j].nonce = m
    <3>1. CASE m < old[a].nonce
      <4>1. PICK j \in 1 .. i - 1 : txs[j].type # "coinbase" /\ txs[j].from = a /\ txs[j].nonce = m
        BY <2>4, <2>12, <3>1 DEF NoncesUpTo
      <4>2. j \in 1 .. i BY <1>1
      <4>. QED BY <4>1, <4>2
    <3>2. CASE ~(m < old[a].nonce)
      <4>1. t.type # "coinbase" /\ t.from = a /\ t.nonce = m
        BY <2>6, <2>7, <2>12, <3>2
      <4>2. i \in 1 .. i BY <1>1
      <4>. QED BY <4>1, <4>2
    <3>. QED BY <3>1, <3>2
  <2>13. NoncesUpTo(st, txs, i, now)
    BY <2>9, <2>10, <2>11, <2>12 DEF NoncesUpTo
  <2>. QED BY <2>13 DEF now
<1>6. H \in SUBSET Nat BY <1>1
<1>. HIDE DEF H
<1>7. 0 .. n \subseteq H BY <1>1, <1>4, <1>5, <1>6, UpTo
<1>8. n \in H BY <1>1, <1>7
<1>. QED BY <1>8 DEF H, g

\* Transaction j of block i of c is a transfer or a record.
Spent(c, i, j) ==
    i \in DOMAIN c.blocks /\ j \in DOMAIN c.blocks[i].txs /\ c.blocks[i].txs[j].type # "coinbase"

\* The transactions of c have consumed the nonces below those of the accounts,
\* each by exactly one.
NoncesOf(c) ==
    /\ \A i \in DOMAIN c.blocks : Len(c.blocks[i].txs) <= MaxBlockTxs
    /\ \A i, j \in Nat : Spent(c, i, j) =>
          LET t == c.blocks[i].txs[j]
          IN  t.from \in Addr /\ t.nonce < c.st[t.from].nonce
    /\ \A i, j, k, l \in Nat :
          Spent(c, i, j) /\ Spent(c, k, l)
          /\ Key(c.blocks[i].txs[j]) = Key(c.blocks[k].txs[l]) => i = k /\ j = l
    /\ \A a \in Addr, m \in Nat :
          m < c.st[a].nonce =>
             \E i, j \in Nat : Spent(c, i, j) /\ Key(c.blocks[i].txs[j]) = <<a, m>>

\* The chain without blocks has consumed none.
LEMMA EmptyNonces == NoncesOf(EmptyChain)
<1>1. EmptyChain.blocks = << >> /\ EmptyChain.st = NoAccounts BY DEF EmptyChain
<1>2. \A a \in Addr : NoAccounts[a].nonce = 0 BY DEF NoAccounts
<1>3. \A i, j \in Nat : ~Spent(EmptyChain, i, j) BY <1>1 DEF Spent
<1>. QED BY <1>1, <1>2, <1>3 DEF NoncesOf

\* connect_block consumes the next nonces, each by one transaction of the new
\* block.
LEMMA NoncesConnected ==
    ASSUME NEW B, \A x \in B : BlockOK(x), NEW c \in ChainOver(B), NEW b \in B,
           NEW timely \in BOOLEAN, CanConnect(c, b, timely), NoncesOf(c)
    PROVE  NoncesOf(Connected(c, b))
<1>. DEFINE d == Connected(c, b)
            n == Len(c.blocks)
            e == n + 1
            txs == b.txs
            now == TxLoop(c.st, txs, b.h.height)[Len(txs)].st
<1>1. c.blocks \in Seq(B) /\ n \in Nat /\ c.st \in Accounts /\ txs \in Seq(Tx) /\ Len(txs) \in Nat
  BY DEF ChainOver, BlockOK
<1>2. /\ d.blocks = Append(c.blocks, b) /\ d.st = now
      /\ d \in ChainOver(B)
  BY ConnectedType DEF Connected
<1>3. /\ DOMAIN c.blocks = 1 .. n /\ DOMAIN d.blocks = 1 .. e /\ e \in Nat
      /\ d.blocks[e] = b /\ \A i \in 1 .. n : d.blocks[i] = c.blocks[i]
      /\ DOMAIN txs = 1 .. Len(txs)
  BY <1>1, <1>2, AppendProperties
<1>4. /\ TxLoop(c.st, txs, b.h.height)[Len(txs)].ok
      /\ Len(txs) <= MaxBlockTxs
  <2>1. CASE c.blocks = << >>
    <3>1. txs = << >> /\ Len(txs) = 0 BY <2>1 DEF CanConnect
    <3>2. TxLoop(c.st, txs, b.h.height)[0] = [ok |-> TRUE, st |-> c.st] BY <1>1, TxLoopDef
    <3>3. TxLoop(c.st, txs, b.h.height)[Len(txs)].ok BY <3>1, <3>2
    <3>. QED BY <3>1, <3>3, LimitsAssumption
  <2>2. CASE c.blocks # << >> BY <2>2, LimitsAssumption DEF CanConnect
  <2>. QED BY <2>1, <2>2
<1>5. NoncesUpTo(c.st, txs, Len(txs), now)
  BY <1>1, <1>4, TxLoopNonces
<1>6. now \in Accounts BY <1>2 DEF ChainOver
<1>7. \A a \in Addr : /\ c.st[a].nonce \in Nat /\ now[a].nonce \in Nat
                      /\ c.st[a].nonce <= now[a].nonce
  BY <1>1, <1>5, <1>6 DEF Accounts, NoncesUpTo
<1>8. \A i \in 1 .. n : c.blocks[i].txs \in Seq(Tx)
  BY <1>1 DEF BlockOK
<1>. HIDE DEF d, n, txs, now
<1>9. \A i, j \in Nat : Spent(d, i, j) <=> \/ Spent(c, i, j)
                                           \/ i = e /\ j \in 1 .. Len(txs) /\ txs[j].type # "coinbase"
  BY <1>1, <1>3 DEF Spent, txs
<1>10. \A i, j \in Nat : Spent(c, i, j) => /\ i \in 1 .. n /\ i # e /\ c.blocks[i].txs[j] \in Tx
                                           /\ d.blocks[i].txs[j] = c.blocks[i].txs[j]
  BY <1>1, <1>3, <1>8 DEF Spent
<1>11. d.blocks[e].txs = txs BY <1>3 DEF txs
<1>12. \A t \in Tx : t.nonce \in Nat BY DEF Tx
<1>13. \A j \in 1 .. Len(txs) : txs[j] \in Tx BY <1>1
<1>14. \A i \in DOMAIN d.blocks : Len(d.blocks[i].txs) <= MaxBlockTxs
  <2>. SUFFICES ASSUME NEW i \in 1 .. e PROVE Len(d.blocks[i].txs) <= MaxBlockTxs
    BY <1>3
  <2>1. CASE i = e BY <1>4, <1>11, <2>1
  <2>2. CASE i \in 1 .. n BY <1>3, <2>2 DEF NoncesOf
  <2>. QED BY <1>1, <2>1, <2>2
<1>15. ASSUME NEW i \in Nat, NEW j \in Nat, Spent(d, i, j)
       PROVE  LET t == d.blocks[i].txs[j] IN t.from \in Addr /\ t.nonce < d.st[t.from].nonce
  <2>1. CASE Spent(c, i, j)
    <3>. DEFINE t == c.blocks[i].txs[j]
    <3>1. t.from \in Addr /\ t.nonce < c.st[t.from].nonce BY <2>1 DEF NoncesOf
    <3>2. d.blocks[i].txs[j] = t /\ t.nonce \in Nat BY <1>10, <1>12, <2>1
    <3>. HIDE DEF t
    <3>. QED BY <1>2, <1>7, <3>1, <3>2
  <2>2. CASE i = e /\ j \in 1 .. Len(txs) /\ txs[j].type # "coinbase"
    BY <1>2, <1>5, <1>11, <2>2 DEF NoncesUpTo
  <2>. QED BY <1>9, <1>15, <2>1, <2>2
<1>16. ASSUME NEW i \in Nat, NEW j \in Nat, NEW k \in Nat, NEW l \in Nat,
              Spent(c, i, j), k = e /\ l \in 1 .. Len(txs) /\ txs[l].type # "coinbase"
       PROVE  Key(d.blocks[i].txs[j]) # Key(d.blocks[k].txs[l])
  <2>. DEFINE t == c.blocks[i].txs[j]
              u == txs[l]
  <2>1. t.from \in Addr /\ t.nonce < c.st[t.from].nonce BY <1>16 DEF NoncesOf
  <2>2. u.from \in Addr /\ c.st[u.from].nonce <= u.nonce BY <1>5, <1>16 DEF NoncesUpTo
  <2>3. t.nonce \in Nat /\ u.nonce \in Nat BY <1>10, <1>12, <1>13, <1>16
  <2>4. d.blocks[i].txs[j] = t /\ d.blocks[k].txs[l] = u BY <1>10, <1>11, <1>16
  <2>. HIDE DEF t, u
  <2>. QED BY <1>7, <2>1, <2>2, <2>3, <2>4 DEF Key
<1>17. ASSUME NEW i \in Nat, NEW j \in Nat, NEW k \in Nat, NEW l \in Nat,
              Spent(d, i, j), Spent(d, k, l), Key(d.blocks[i].txs[j]) = Key(d.blocks[k].txs[l])
       PROVE  i = k /\ j = l
  <2>. DEFINE New(x, y) == x = e /\ y \in 1 .. Len(txs) /\ txs[y].type # "coinbase"
  <2>1. CASE Spent(c, i, j) /\ Spent(c, k, l)
    <3>1. Key(c.blocks[i].txs[j]) = Key(c.blocks[k].txs[l]) BY <1>10, <1>17, <2>1
    <3>. QED BY <2>1, <3>1 DEF NoncesOf
  <2>2. CASE New(i, j) /\ New(k, l)
    <3>1. Key(txs[j]) = Key(txs[l]) BY <1>11, <1>17, <2>2
    <3>2. txs[j].from = txs[l].from /\ txs[j].nonce = txs[l].nonce BY <3>1 DEF Key
    <3>. QED BY <1>5, <2>2, <3>2 DEF NoncesUpTo
  <2>3. CASE Spent(c, i, j) /\ New(k, l) BY <1>16, <1>17, <2>3
  <2>4. CASE New(i, j) /\ Spent(c, k, l) BY <1>16, <1>17, <2>4
  <2>. QED BY <1>9, <1>17, <2>1, <2>2, <2>3, <2>4
<1>18. ASSUME NEW a \in Addr, NEW m \in Nat, m < d.st[a].nonce
       PROVE  \E i, j \in Nat : Spent(d, i, j) /\ Key(d.blocks[i].txs[j]) = <<a, m>>
  <2>1. CASE m < c.st[a].nonce
    <3>1. PICK i, j \in Nat : Spent(c, i, j) /\ Key(c.blocks[i].txs[j]) = <<a, m>>
      BY <2>1 DEF NoncesOf
    <3>2. Spent(d, i, j) /\ Key(d.blocks[i].txs[j]) = <<a, m>> BY <1>9, <1>10, <3>1
    <3>. QED BY <3>2
  <2>2. CASE ~(m < c.st[a].nonce)
    <3>1. c.st[a].nonce <= m /\ m < now[a].nonce BY <1>2, <1>7, <1>18, <2>2
    <3>2. PICK j \in 1 .. Len(txs) : txs[j].type # "coinbase" /\ txs[j].from = a /\ txs[j].nonce = m
      BY <1>5, <3>1 DEF NoncesUpTo
    <3>3. j \in Nat /\ Spent(d, e, j) BY <1>1, <1>3, <1>9, <3>2
    <3>4. Key(d.blocks[e].txs[j]) = <<a, m>> BY <1>11, <3>2 DEF Key
    <3>. QED BY <1>3, <3>3, <3>4
  <2>. QED BY <2>1, <2>2
<1>. QED BY <1>14, <1>15, <1>17, <1>18 DEF NoncesOf, d

---------------------------------------------------------------------------
(* Places *)

\* The loop of connect_block takes a coinbase only first, and with the height
\* for its nonce.
LEMMA TxLoopCoinbase ==
    ASSUME NEW st \in Accounts, NEW txs \in Seq(Tx), NEW height,
           TxLoop(st, txs, height)[Len(txs)].ok
    PROVE  \A j \in 1 .. Len(txs) : txs[j].type = "coinbase" => j = 1 /\ txs[j].nonce = height
<1>. DEFINE n == Len(txs)
            g == TxLoop(st, txs, height)
            H == {i \in 0 .. n : g[i].ok => \A j \in 1 .. i : txs[j].type = "coinbase" =>
                                               j = 1 /\ txs[j].nonce = height}
<1>1. /\ g[0] = [ok |-> TRUE, st |-> st]
      /\ \A i \in 1 .. n : g[i] = TxStep(g[i - 1], txs[i], height, i = 1)
      /\ n \in Nat
  BY TxLoopDef
<1>. HIDE DEF g, n
<1>2. 0 \in H
  BY <1>1
<1>3. ASSUME NEW i \in 1 .. n, i - 1 \in H PROVE i \in H
  <2>. SUFFICES ASSUME g[i].ok, NEW j \in 1 .. i, txs[j].type = "coinbase"
                PROVE  j = 1 /\ txs[j].nonce = height
    BY <1>1
  <2>1. g[i] = TxStep(g[i - 1], txs[i], height, i = 1)
    BY <1>1
  <2>2. g[i - 1].ok /\ TxOk(g[i - 1].st, txs[i], height, i = 1)
    BY <2>1 DEF TxStep
  <2>3. CASE j = i
    BY <2>2, <2>3 DEF TxOk
  <2>4. CASE j # i
    <3>1. j \in 1 .. i - 1
      BY <1>1, <2>4
    <3>. QED BY <1>3, <2>2, <3>1
  <2>. QED BY <2>3, <2>4
<1>4. H \in SUBSET Nat
  BY <1>1
<1>. HIDE DEF H
<1>5. n \in H
  <2>1. 0 .. n \subseteq H
    BY <1>1, <1>2, <1>3, <1>4, UpTo
  <2>. QED BY <1>1, <2>1
<1>. QED BY <1>5 DEF H, g, n

\* Every block is at its height, solved, and under its merkle root; its
\* coinbase is its first transaction and names the height; and the work is
\* that of so many blocks.
BlockAtPlace(b, i) ==
    /\ b.h.height = i - 1 /\ PowOk(b.h)
    /\ TxRoot(b.txs) = b.h.merkle
    /\ \A j \in DOMAIN b.txs : b.txs[j].type = "coinbase" => j = 1 /\ b.txs[j].nonce = i - 1

PlacesOf(c) ==
    /\ \A i \in DOMAIN c.blocks : BlockAtPlace(c.blocks[i], i)
    /\ c.work = IF c.blocks = << >> THEN 0 ELSE 1 + BlockWork * Height(c)

\* The chain without blocks has no work.
LEMMA EmptyPlaces == PlacesOf(EmptyChain)
BY DEF PlacesOf, EmptyChain

\* connect_block puts a block at its place.
LEMMA PlacesConnected ==
    ASSUME NEW B, \A x \in B : BlockOK(x), NEW c \in ChainOver(B), NEW b \in B,
           NEW timely \in BOOLEAN, CanConnect(c, b, timely), PlacesOf(c)
    PROVE  PlacesOf(Connected(c, b))
<1>. DEFINE d == Connected(c, b)
            n == Len(c.blocks)
            e == n + 1
<1>1. /\ c.blocks \in Seq(B) /\ n \in Nat /\ c.st \in Accounts /\ c.work \in Nat
      /\ b.txs \in Seq(Tx) /\ Len(b.txs) \in Nat
  BY DEF ChainOver, BlockOK
<1>2. d.blocks = Append(c.blocks, b) /\ d.work = c.work + (IF c.blocks = << >> THEN 1 ELSE BlockWork)
  BY DEF Connected
<1>3. /\ DOMAIN c.blocks = 1 .. n /\ DOMAIN d.blocks = 1 .. e /\ Len(d.blocks) = e /\ e \in Nat
      /\ d.blocks[e] = b /\ (\A i \in 1 .. n : d.blocks[i] = c.blocks[i]) /\ d.blocks # << >>
  BY <1>1, <1>2, AppendProperties
<1>4. b.h.height = e - 1
  <2>1. b.h.height = n
    BY ConnectHeight, Zenon
  <2>. QED BY <1>1, <2>1
<1>5. BlockAtPlace(b, e)
  <2>1. CASE c.blocks = << >>
    <3>1. BlockHash(b) = BlockHash(Genesis) /\ b.txs = << >>
      BY <2>1 DEF CanConnect
    <3>2. PowOk(b.h) /\ b.h.merkle = << >>
      BY <3>1 DEF BlockHash, HeaderHash, Genesis, ZeroHash, PowOk
    <3>3. TxRoot(b.txs) = << >>
      BY <3>1 DEF TxRoot, MerkleRoot, ZeroHash
    <3>. QED BY <1>4, <3>1, <3>2, <3>3 DEF BlockAtPlace
  <2>2. CASE c.blocks # << >>
    <3>1. PowOk(b.h) /\ TxRoot(b.txs) = b.h.merkle /\ TxLoop(c.st, b.txs, b.h.height)[Len(b.txs)].ok
      BY <2>2 DEF CanConnect, HeaderOk, PowOk
    <3>2. \A j \in 1 .. Len(b.txs) : b.txs[j].type = "coinbase" => j = 1 /\ b.txs[j].nonce = b.h.height
      BY <1>1, <3>1, TxLoopCoinbase
    <3>. QED BY <1>1, <1>4, <3>1, <3>2 DEF BlockAtPlace
  <2>. QED BY <2>1, <2>2
<1>6. d.work = 1 + BlockWork * Height(d)
  <2>1. Height(d) = n /\ Height(c) = n - 1
    BY <1>1, <1>3 DEF Height
  <2>2. CASE c.blocks = << >>
    <3>1. n = 0 /\ c.work = 0
      BY <2>2 DEF PlacesOf
    <3>2. BlockWork * 0 = 0
      BY BlockWorkAssumption
    <3>. QED BY <1>2, <2>1, <2>2, <3>1, <3>2
  <2>3. CASE c.blocks # << >>
    <3>1. c.work = 1 + BlockWork * (n - 1) /\ d.work = c.work + BlockWork
      BY <1>2, <2>1, <2>3 DEF PlacesOf
    <3>2. BlockWork * (n - 1) + BlockWork = BlockWork * n /\ BlockWork * (n - 1) \in Int
      BY <1>1, BlockWorkAssumption
    <3>. HIDE DEF d
    <3>. QED BY <2>1, <3>1, <3>2, BlockWorkAssumption
  <2>. QED BY <2>2, <2>3
<1>7. ASSUME NEW i \in 1 .. e PROVE BlockAtPlace(d.blocks[i], i)
  <2>1. CASE i = e
    BY <1>3, <1>5, <2>1
  <2>2. CASE i \in 1 .. n
    BY <1>3, <2>2 DEF PlacesOf
  <2>. QED BY <1>1, <2>1, <2>2
<1>. HIDE DEF d
<1>8. PlacesOf(d)
  BY <1>3, <1>6, <1>7 DEF PlacesOf
<1>. QED BY <1>8 DEF d

\* More work is more blocks.
LEMMA WorkIsHeight ==
    ASSUME NEW c, ChainOK(c), PlacesOf(c), c.blocks # << >>,
           NEW d, ChainOK(d), PlacesOf(d), d.blocks # << >>, d.work >= c.work
    PROVE  Height(d) >= Height(c) /\ Height(c) \in Nat /\ Height(d) \in Nat
<1>1. ASSUME NEW x, ChainOK(x), x.blocks # << >> PROVE Height(x) \in Nat
  <2>. DEFINE R == {x.blocks[i] : i \in DOMAIN x.blocks}
  <2>1. x.blocks \in Seq(R)
    BY <1>1 DEF ChainOK
  <2>. HIDE DEF R
  <2>2. Len(x.blocks) \in Nat \ {0}
    BY <1>1, <2>1, EmptySeq
  <2>. QED BY <2>2 DEF Height
<1>2. Height(c) \in Nat /\ Height(d) \in Nat
  BY <1>1
<1>3. c.work = 1 + BlockWork * Height(c) /\ d.work = 1 + BlockWork * Height(d)
  BY DEF PlacesOf
<1>4. \A i, j, w \in Nat : w > 0 /\ 1 + w * j >= 1 + w * i => j >= i
  <2>. SUFFICES ASSUME NEW i \in Nat, NEW j \in Nat, NEW w \in Nat, w > 0, j < i
                PROVE  w * j < w * i
    OBVIOUS
  <2>1. PICK k \in Nat : i = j + k /\ k > 0
    <3>1. i - j \in Nat /\ i = j + (i - j) /\ i - j > 0
      OBVIOUS
    <3>. QED BY <3>1
  <2>2. w * i = w * j + w * k /\ w * k > 0 /\ w * j \in Nat
    BY <2>1
  <2>. QED BY <2>1, <2>2
<1>. QED BY <1>2, <1>3, <1>4, BlockWorkAssumption

---------------------------------------------------------------------------
(* Sums over finite sets *)

\* The element that a fold over T takes first.
First(T) == CHOOSE x \in T : TRUE

\* The sums of f over the subsets of S, as MapThenSumSet computes them.
IsSums(g, f, S) ==
    g = [T \in SUBSET S |-> IF T = {} THEN 0 ELSE f[First(T)] + g[T \ {First(T)}]]

\* What holds of the empty set and is passed on when the first element is put
\* back holds of every subset of a finite set.
LEMMA SubsetInduction ==
    ASSUME NEW S, IsFiniteSet(S), NEW Q, {} \in Q,
           \A T \in SUBSET S : T # {} /\ T \ {First(T)} \in Q => T \in Q
    PROVE  SUBSET S \subseteq Q
<1>. DEFINE n == Cardinality(S)
            H == {k \in 0 .. n : \A T \in SUBSET S : Cardinality(T) = k => T \in Q}
<1>1. /\ n \in Nat
      /\ \A T \in SUBSET S : IsFiniteSet(T) /\ Cardinality(T) \in 0 .. n
  BY FS_CardinalityType, FS_Subset
<1>2. \A T \in SUBSET S : Cardinality(T) = 0 <=> T = {}
  BY <1>1, FS_EmptySet
<1>3. 0 \in H
  BY <1>1, <1>2
<1>4. ASSUME NEW k \in 1 .. n, k - 1 \in H PROVE k \in H
  <2>1. ASSUME NEW T \in SUBSET S, Cardinality(T) = k PROVE T \in Q
    <3>1. T # {} /\ T \ {First(T)} \in SUBSET S
      BY <1>2, <2>1
    <3>2. First(T) \in T
      BY <3>1, Zenon DEF First
    <3>3. Cardinality(T \ {First(T)}) = k - 1
      BY <1>1, <2>1, <3>2, FS_RemoveElement
    <3>. QED BY <1>4, <3>1, <3>3
  <2>. QED BY <2>1
<1>5. H \in SUBSET Nat
  BY <1>1
<1>. HIDE DEF H
<1>6. 0 .. n \subseteq H
  BY <1>1, <1>3, <1>4, <1>5, UpTo
<1>. QED BY <1>1, <1>6 DEF H

\* The sums exist, and are integers.
LEMMA SumsExist ==
    ASSUME NEW S, IsFiniteSet(S), NEW f \in [S -> Int]
    PROVE  \E g \in [SUBSET S -> Int] : IsSums(g, f, S)
<1>. DEFINE n == Cardinality(S)
            A == [SUBSET S -> Int]
            more(g) == [T \in SUBSET S |-> IF T = {} THEN 0 ELSE f[First(T)] + g[T \ {First(T)}]]
            s0 == [T \in SUBSET S |-> 0]
            body == [x \in A \X (1 .. n) |-> more(x[1])]
<1>1. \A T \in SUBSET S : T # {} => First(T) \in T
  BY Zenon DEF First
<1>2. ASSUME NEW g \in A PROVE more(g) \in A
  <2>1. ASSUME NEW T \in SUBSET S, T # {} PROVE f[First(T)] + g[T \ {First(T)}] \in Int
    <3>1. First(T) \in S /\ T \ {First(T)} \in SUBSET S
      BY <1>1, <2>1
    <3>. QED BY <3>1
  <2>. QED BY <2>1
<1>3. s0 \in A
  OBVIOUS
<1>4. n \in Nat /\ \A T \in SUBSET S : IsFiniteSet(T) /\ Cardinality(T) \in 0 .. n
  BY FS_CardinalityType, FS_Subset
<1>5. body \in [A \X (1 .. n) -> A]
  <2>. HIDE DEF A, more
  <2>. QED BY <1>2
<1>6. PICK r \in [0 .. n -> A] : IsLoop(r, s0, n, body)
  <2>. HIDE DEF A, body, n, s0
  <2>. QED BY <1>3, <1>4, <1>5, LoopExists
<1>7. r[0] = s0 /\ \A i \in 1 .. n : r[i] = more(r[i - 1])
  <2>1. ASSUME NEW i \in 1 .. n PROVE r[i] = more(r[i - 1])
    <3>1. i - 1 \in 0 .. n
      BY <1>4
    <3>2. <<r[i - 1], i>> \in A \X (1 .. n)
      <4>. HIDE DEF A
      <4>. QED BY <3>1
    <3>. HIDE DEF more, A
    <3>. QED BY <1>6, <3>2 DEF IsLoop
  <2>. QED BY <1>6, <2>1 DEF IsLoop
<1>. DEFINE sum == [T \in SUBSET S |-> r[Cardinality(T)][T]]
<1>8. sum \in A
  <2>1. ASSUME NEW T \in SUBSET S PROVE r[Cardinality(T)][T] \in Int
    <3>1. r[Cardinality(T)] \in A
      BY <1>4, <1>6
    <3>. QED BY <3>1
  <2>. QED BY <2>1
<1>9. ASSUME NEW T \in SUBSET S
      PROVE  sum[T] = IF T = {} THEN 0 ELSE f[First(T)] + sum[T \ {First(T)}]
  <2>1. CASE T = {}
    BY <1>7, <2>1, FS_EmptySet
  <2>2. CASE T # {}
    <3>. DEFINE k == Cardinality(T)
                U == T \ {First(T)}
    <3>1. First(T) \in T
      BY <1>1, <2>2
    <3>2. U \in SUBSET S /\ k # 0 /\ k \in 1 .. n
      BY <1>4, <2>2, FS_EmptySet
    <3>3. Cardinality(U) = k - 1
      BY <1>4, <3>1, FS_RemoveElement
    <3>4. sum[T] = r[k][T] /\ sum[U] = r[k - 1][U]
      BY <3>2, <3>3
    <3>5. r[k] = more(r[k - 1])
      BY <1>7, <3>2
    <3>6. r[k][T] = f[First(T)] + r[k - 1][U]
      BY <2>2, <3>5
    <3>. QED BY <2>2, <3>4, <3>6
  <2>. QED BY <2>1, <2>2
<1>10. IsSums(sum, f, S)
  <2>. HIDE DEF sum
  <2>1. DOMAIN sum = SUBSET S /\ sum = [T \in SUBSET S |-> sum[T]]
    BY <1>8
  <2>. QED BY <1>9, <2>1 DEF IsSums
<1>. HIDE DEF sum
<1>. QED BY <1>8, <1>10

\* e is f with d more at a.
Differ(f, e, a, d, S) == \A x \in S : e[x] = f[x] + (IF x = a THEN d ELSE 0)

\* Two functions that differ by d at a, and their sums.
LEMMA SumsDiffer ==
    ASSUME NEW S, IsFiniteSet(S), NEW f \in [S -> Int], NEW e \in [S -> Int],
           NEW a \in S, NEW d \in Int,
           Differ(f, e, a, d, S), NEW g, IsSums(g, f, S), NEW h, IsSums(h, e, S)
    PROVE  g[S] \in Int /\ h[S] = g[S] + d
<1>. DEFINE Q == {T \in SUBSET S : g[T] \in Int /\ h[T] = g[T] + (IF a \in T THEN d ELSE 0)}
<1>1. /\ g[{}] = 0 /\ h[{}] = 0
      /\ \A T \in SUBSET S : T # {} => /\ g[T] = f[First(T)] + g[T \ {First(T)}]
                                       /\ h[T] = e[First(T)] + h[T \ {First(T)}]
  <2>1. {} \in SUBSET S
    OBVIOUS
  <2>. QED BY <2>1 DEF IsSums
<1>2. {} \in Q
  BY <1>1
<1>3. ASSUME NEW T \in SUBSET S, T # {}, T \ {First(T)} \in Q PROVE T \in Q
  <2>. DEFINE x == First(T)
              U == T \ {x}
  <2>1. x \in T
    BY <1>3, Zenon DEF First
  <2>2. g[T] = f[x] + g[U] /\ h[T] = e[x] + h[U]
    BY <1>1, <1>3
  <2>3. U \in Q
    BY <1>3
  <2>. HIDE DEF x
  <2>4. f[x] \in Int /\ e[x] = f[x] + (IF x = a THEN d ELSE 0)
    BY <2>1 DEF Differ
  <2>5. g[U] \in Int /\ h[U] = g[U] + (IF a \in U THEN d ELSE 0)
    BY <2>3
  <2>6. CASE x = a
    <3>1. a \in T /\ a \notin U
      BY <2>1, <2>6
    <3>. HIDE DEF U
    <3>2. h[T] = g[T] + d /\ g[T] \in Int
      BY <2>2, <2>4, <2>5, <2>6, <3>1
    <3>. QED BY <3>1, <3>2
  <2>7. CASE x # a
    <3>1. a \in T <=> a \in U
      BY <2>7
    <3>. HIDE DEF U
    <3>2. h[T] = g[T] + (IF a \in T THEN d ELSE 0) /\ g[T] \in Int
      BY <2>2, <2>4, <2>5, <2>7, <3>1
    <3>. QED BY <3>2
  <2>. QED BY <2>6, <2>7
<1>4. S \in Q
  <2>1. SUBSET S \subseteq Q
    <3>. HIDE DEF Q
    <3>. QED BY <1>2, <1>3, SubsetInduction
  <2>2. S \in SUBSET S
    OBVIOUS
  <2>. QED BY <2>1, <2>2
<1>. QED BY <1>4

\* A function that is zero everywhere adds up to zero.
LEMMA SumsZero ==
    ASSUME NEW S, IsFiniteSet(S), NEW f, \A x \in S : f[x] = 0, NEW g, IsSums(g, f, S)
    PROVE  g[S] = 0
<1>. DEFINE Q == {T \in SUBSET S : g[T] = 0}
<1>1. /\ g[{}] = 0
      /\ \A T \in SUBSET S : T # {} => g[T] = f[First(T)] + g[T \ {First(T)}]
  <2>1. {} \in SUBSET S
    OBVIOUS
  <2>. QED BY <2>1 DEF IsSums
<1>2. {} \in Q
  BY <1>1
<1>3. ASSUME NEW T \in SUBSET S, T # {}, T \ {First(T)} \in Q PROVE T \in Q
  <2>1. First(T) \in S
    BY <1>3, Zenon DEF First
  <2>2. g[T] = f[First(T)] + g[T \ {First(T)}] /\ g[T \ {First(T)}] = 0 /\ f[First(T)] = 0
    BY <1>1, <1>3, <2>1
  <2>. QED BY <2>2
<1>4. SUBSET S \subseteq Q
  <2>. HIDE DEF Q
  <2>. QED BY <1>2, <1>3, SubsetInduction
<1>. QED BY <1>4

---------------------------------------------------------------------------
(* The supply of coin *)

\* All the coin there is in the accounts st.
Total(st) == MapThenSumSet(LAMBDA a : st[a].balance, Addr)

\* Total is the sum that the fold computes.
LEMMA TotalIs ==
    ASSUME NEW st \in Accounts
    PROVE  LET f == [a \in Addr |-> st[a].balance]
           IN  f \in [Addr -> Int] /\ \E g : IsSums(g, f, Addr) /\ Total(st) = g[Addr]
<1>. DEFINE f == [a \in Addr |-> st[a].balance]
            F(g) == [T \in SUBSET Addr |->
                       IF T = {} THEN 0
                       ELSE st[First(T)].balance + g[T \ {First(T)}]]
            L == CHOOSE g : g = F(g)
<1>1. f \in [Addr -> Int]
  BY DEF Accounts
<1>2. PICK h \in [SUBSET Addr -> Int] : IsSums(h, f, Addr)
  BY <1>1, AddrFiniteAssumption, SumsExist
<1>3. \A g : IsSums(g, f, Addr) <=> g = F(g)
  <2>1. \A T \in SUBSET Addr : T # {} => f[First(T)] = st[First(T)].balance
    <3>1. \A T \in SUBSET Addr : T # {} => First(T) \in Addr
      BY Zenon DEF First
    <3>. QED BY <3>1
  <2>2. ASSUME NEW g
        PROVE  F(g) = [T \in SUBSET Addr |->
                         IF T = {} THEN 0 ELSE f[First(T)] + g[T \ {First(T)}]]
    BY <2>1
  <2>. QED BY <2>2, Zenon DEF IsSums
<1>4. L = F(L)
  <2>. HIDE DEF F
  <2>1. \E g : g = F(g)
    BY <1>2, <1>3, Zenon
  <2>. QED BY <2>1, Zenon
<1>5. Total(st) = L[Addr]
  BY Zenon DEF Total, MapThenSumSet, MapThenFoldSet, First
<1>. HIDE DEF F, L, f
<1>6. IsSums(L, f, Addr)
  BY <1>3, <1>4
<1>. QED BY <1>1, <1>5, <1>6 DEF f

\* A balance that changes by d changes the total by d.
LEMMA TotalChanges ==
    ASSUME NEW st \in Accounts, NEW u \in Accounts, NEW a \in Addr, NEW d \in Int,
           \A x \in Addr : u[x].balance = st[x].balance + (IF x = a THEN d ELSE 0)
    PROVE  Total(st) \in Int /\ Total(u) = Total(st) + d
<1>. DEFINE f == [x \in Addr |-> st[x].balance]
            e == [x \in Addr |-> u[x].balance]
<1>1. f \in [Addr -> Int] /\ \E g : IsSums(g, f, Addr) /\ Total(st) = g[Addr]
  BY TotalIs
<1>2. e \in [Addr -> Int] /\ \E h : IsSums(h, e, Addr) /\ Total(u) = h[Addr]
  BY TotalIs
<1>3. \A x \in Addr : e[x] = f[x] + (IF x = a THEN d ELSE 0)
  OBVIOUS
<1>. HIDE DEF f, e
<1>4. PICK g : IsSums(g, f, Addr) /\ Total(st) = g[Addr]
  BY <1>1
<1>5. PICK h : IsSums(h, e, Addr) /\ Total(u) = h[Addr]
  BY <1>2
<1>6. g[Addr] \in Int /\ h[Addr] = g[Addr] + d
  <2>1. Differ(f, e, a, d, Addr)
    BY <1>3 DEF Differ
  <2>. QED BY <1>1, <1>2, <1>4, <1>5, <2>1, AddrFiniteAssumption, SumsDiffer
<1>. QED BY <1>4, <1>5, <1>6

\* apply_tx creates the reward of a coinbase and nothing else.
LEMMA TotalAfterTx ==
    ASSUME NEW st \in Accounts, NEW t \in Tx, NEW h, NEW first \in BOOLEAN,
           TxOk(st, t, h, first)
    PROVE  /\ Total(st) \in Int
           /\ Total(AfterTx(st, t)) = Total(st) + (IF first THEN Reward ELSE 0)
<1>. DEFINE u == AfterTx(st, t)
<1>1. /\ t.to \in Addr /\ t.amount \in Nat /\ u \in Accounts
      /\ t.type # "coinbase" => t.from \in Addr /\ t.type \in {"transfer", "record"}
  BY AfterTxType DEF Tx, TxOk, WellFormed
<1>2. first <=> t.type = "coinbase"
  BY DEF TxOk
<1>3. \A x \in Addr : st[x].balance \in Nat /\ u[x].balance \in Nat
  BY <1>1 DEF Accounts
<1>4. \A x \in Addr : u[x].balance
         = st[x].balance - (IF t.type = "transfer" /\ x = t.from THEN t.amount ELSE 0)
                         + (IF t.type # "record" /\ x = t.to THEN t.amount ELSE 0)
  BY AfterTxBalance
<1>. HIDE DEF u
<1>5. CASE t.type = "coinbase"
  <2>1. \A x \in Addr : u[x].balance = st[x].balance + (IF x = t.to THEN t.amount ELSE 0)
    BY <1>1, <1>3, <1>4, <1>5
  <2>2. t.amount = Reward
    BY <1>5 DEF TxOk
  <2>3. t.amount \in Int
    BY <1>1
  <2>4. Total(st) \in Int /\ Total(u) = Total(st) + t.amount
    BY <1>1, <2>1, <2>3, TotalChanges
  <2>. QED BY <1>2, <1>5, <2>2, <2>4 DEF u
<1>6. CASE t.type = "record"
  <2>1. PICK d \in Int : d = 0
    OBVIOUS
  <2>2. \A x \in Addr : u[x].balance = st[x].balance + (IF x = t.to THEN d ELSE 0)
    BY <1>1, <1>3, <1>4, <1>6, <2>1
  <2>3. Total(st) \in Int /\ Total(u) = Total(st) + d
    BY <1>1, <2>2, TotalChanges
  <2>. QED BY <1>2, <1>6, <2>1, <2>3 DEF u
<1>7. CASE t.type = "transfer"
  <2>. DEFINE mid == [st EXCEPT ![t.from].balance = @ - t.amount]
  <2>1. t.from \in Addr /\ st[t.from].balance >= t.amount
    BY <1>1, <1>7 DEF TxOk
  <2>2. st \in [Addr -> [balance: Nat, nonce: Nat]]
    BY DEF Accounts
  <2>3. mid \in Accounts
    <3>1. st[t.from].balance - t.amount \in Nat
      BY <1>1, <1>3, <2>1
    <3>. QED BY <2>1, <2>2, <3>1 DEF Accounts
  <2>4. \A x \in Addr : mid[x].balance = st[x].balance + (IF x = t.from THEN -t.amount ELSE 0)
    BY <1>1, <1>3, <2>1, <2>2
  <2>. HIDE DEF mid
  <2>5. \A x \in Addr : u[x].balance = mid[x].balance + (IF x = t.to THEN t.amount ELSE 0)
    BY <1>1, <1>3, <1>4, <1>7, <2>4
  <2>6. -t.amount \in Int /\ t.amount \in Int
    BY <1>1
  <2>7. Total(st) \in Int /\ Total(mid) = Total(st) + (-t.amount)
    BY <2>1, <2>3, <2>4, <2>6, TotalChanges
  <2>8. Total(u) = Total(mid) + t.amount
    BY <1>1, <2>3, <2>5, <2>6, TotalChanges
  <2>. QED BY <1>1, <1>2, <1>7, <2>7, <2>8 DEF u
<1>. QED BY <1>1, <1>5, <1>6, <1>7

\* The transactions of a block create one reward, that of its coinbase.
LEMMA TxLoopTotal ==
    ASSUME NEW st \in Accounts, NEW txs \in Seq(Tx), NEW h, Len(txs) > 0,
           TxLoop(st, txs, h)[Len(txs)].ok
    PROVE  /\ Total(st) \in Int
           /\ Total(TxLoop(st, txs, h)[Len(txs)].st) = Total(st) + Reward
<1>. DEFINE n == Len(txs)
            g == TxLoop(st, txs, h)
            Sum(i) == IF i = 0 THEN 0 ELSE Reward
            H == {i \in 0 .. n : g[i].ok => Total(g[i].st) = Total(st) + Sum(i)}
<1>1. n \in Nat /\ n # 0 /\ Reward \in Nat
  BY RewardAssumption
<1>2. /\ g \in [0 .. n -> [ok: BOOLEAN, st: Accounts]]
      /\ g[0] = [ok |-> TRUE, st |-> st]
      /\ \A i \in 1 .. n : g[i] = TxStep(g[i - 1], txs[i], h, i = 1)
  BY TxLoopDef
<1>3. Total(st) \in Int
  <2>1. txs[1] \in Tx
    BY <1>1
  <2>2. txs[1].to \in Addr
    BY <2>1 DEF Tx
  <2>3. \A x \in Addr : st[x].balance = st[x].balance + (IF x = txs[1].to THEN 0 ELSE 0)
    BY DEF Accounts
  <2>. QED BY <2>2, <2>3, TotalChanges
<1>. HIDE DEF g, n
<1>4. 0 \in H
  BY <1>1, <1>2, <1>3
<1>5. ASSUME NEW i \in 1 .. n, i - 1 \in H PROVE i \in H
  <2>. DEFINE s == g[i - 1]
              t == txs[i]
  <2>1. i - 1 \in 0 .. n /\ i \in 0 .. n
    BY <1>1
  <2>2. s \in [ok: BOOLEAN, st: Accounts] /\ t \in Tx /\ g[i] = TxStep(s, t, h, i = 1)
    BY <1>2, <2>1 DEF n
  <2>3. s.ok => Total(s.st) = Total(st) + Sum(i - 1)
    BY <1>5
  <2>. HIDE DEF s, t
  <2>4. CASE ~(s.ok /\ TxOk(s.st, t, h, i = 1))
    <3>1. ~g[i].ok
      BY <2>2, <2>4 DEF TxStep
    <3>. QED BY <2>1, <3>1
  <2>5. CASE s.ok /\ TxOk(s.st, t, h, i = 1)
    <3>1. g[i] = [ok |-> TRUE, st |-> AfterTx(s.st, t)]
      BY <2>2, <2>5 DEF TxStep
    <3>2. Total(AfterTx(s.st, t)) = Total(s.st) + (IF i = 1 THEN Reward ELSE 0)
      BY <2>2, <2>5, TotalAfterTx
    <3>3. Total(g[i].st) = Total(st) + Sum(i)
      BY <1>1, <1>3, <2>3, <2>5, <3>1, <3>2
    <3>. QED BY <2>1, <3>3
  <2>. QED BY <2>4, <2>5
<1>6. H \in SUBSET Nat
  BY <1>1
<1>. HIDE DEF H
<1>7. n \in H
  <2>1. 0 .. n \subseteq H
    BY <1>1, <1>4, <1>5, <1>6, UpTo
  <2>. QED BY <1>1, <2>1
<1>8. g[n].ok
  BY DEF g, n
<1>. QED BY <1>1, <1>3, <1>7, <1>8 DEF H, g, n

\* One reward per block above genesis.
SupplyOf(c) == Total(c.st) = IF c.blocks = << >> THEN 0 ELSE Reward * Height(c)

\* The chain that try_replace starts from has no coin.
LEMMA EmptySupply == SupplyOf(EmptyChain)
<1>1. NoAccounts \in Accounts /\ \A a \in Addr : NoAccounts[a].balance = 0
  BY DEF NoAccounts, Accounts
<1>. DEFINE f == [a \in Addr |-> NoAccounts[a].balance]
<1>2. \E g : IsSums(g, f, Addr) /\ Total(NoAccounts) = g[Addr]
  BY <1>1, TotalIs
<1>3. \A a \in Addr : f[a] = 0
  BY <1>1
<1>. HIDE DEF f
<1>4. Total(NoAccounts) = 0
  BY <1>2, <1>3, AddrFiniteAssumption, SumsZero
<1>. QED BY <1>4 DEF SupplyOf, EmptyChain

\* connect_block adds a reward for every block but genesis.
LEMMA SupplyConnected ==
    ASSUME NEW B, \A x \in B : BlockOK(x), NEW c \in ChainOver(B), NEW b \in B,
           NEW timely \in BOOLEAN, CanConnect(c, b, timely), SupplyOf(c)
    PROVE  SupplyOf(Connected(c, b))
<1>. DEFINE d == Connected(c, b)
            n == Len(c.blocks)
            txs == b.txs
            now == TxLoop(c.st, txs, b.h.height)[Len(txs)].st
<1>1. /\ c.blocks \in Seq(B) /\ n \in Nat /\ c.st \in Accounts
      /\ txs \in Seq(Tx) /\ Len(txs) \in Nat
  BY DEF ChainOver, BlockOK
<1>2. d.blocks = Append(c.blocks, b) /\ d.st = now
  BY DEF Connected
<1>3. Len(d.blocks) = n + 1 /\ d.blocks # << >>
  BY <1>1, <1>2, AppendProperties
<1>4. Height(d) = n /\ Height(c) = n - 1
  BY <1>1, <1>3 DEF Height
<1>5. CASE c.blocks = << >>
  <2>1. txs = << >> /\ Len(txs) = 0 /\ n = 0
    BY <1>5 DEF CanConnect
  <2>2. TxLoop(c.st, txs, b.h.height)[0] = [ok |-> TRUE, st |-> c.st]
    BY <1>1, TxLoopDef
  <2>3. now = c.st
    BY <2>1, <2>2
  <2>4. Total(c.st) = 0
    BY <1>5 DEF SupplyOf
  <2>5. Reward * 0 = 0
    BY RewardAssumption
  <2>6. Total(d.st) = Reward * Height(d)
    BY <1>2, <1>4, <2>1, <2>3, <2>4, <2>5
  <2>. QED BY <1>3, <2>6 DEF SupplyOf
<1>6. CASE c.blocks # << >>
  <2>1. /\ TxLoop(c.st, txs, b.h.height)[Len(txs)].ok
        /\ Len(txs) > 0
    BY <1>1, <1>6, LimitsAssumption DEF CanConnect
  <2>2. Total(now) = Total(c.st) + Reward
    BY <1>1, <2>1, TxLoopTotal
  <2>3. Total(c.st) = Reward * (n - 1)
    BY <1>4, <1>6 DEF SupplyOf
  <2>4. Reward * (n - 1) + Reward = Reward * n
    BY <1>1, RewardAssumption
  <2>5. Total(d.st) = Reward * Height(d)
    BY <1>2, <1>4, <2>2, <2>3, <2>4
  <2>. HIDE DEF d
  <2>6. SupplyOf(d)
    BY <1>3, <2>5 DEF SupplyOf
  <2>. QED BY <2>6 DEF d
<1>. QED BY <1>5, <1>6

---------------------------------------------------------------------------
(* The invariant of a chain, and the three ways the node changes it *)

\* What is true of a chain that was built by connecting blocks.
GoodChain(c) ==
    /\ ChainOK(c) /\ Replays(c, TRUE) /\ IndexOf(c) /\ NoncesOf(c)
    /\ PlacesOf(c) /\ SupplyOf(c)

\* The tmp chain that try_replace starts from is good.
LEMMA EmptyGood == GoodChain(EmptyChain)
<1>1. EmptyChain \in ChainOver({}) /\ \A b \in {} : BlockOK(b)
  BY EmptyChainOver
<1>2. ChainOK(EmptyChain)
  BY <1>1, OverChainOK
<1>. QED BY <1>2, EmptyReplays, EmptyIndex, EmptyNonces, EmptyPlaces, EmptySupply, Zenon
   DEF GoodChain

\* connect_block.
LEMMA ConnectGood ==
    ASSUME NEW c, GoodChain(c), NEW b, BlockOK(b), NEW timely \in BOOLEAN,
           CanConnect(c, b, timely)
    PROVE  /\ GoodChain(Connected(c, b))
           /\ Connected(c, b).work > c.work
           /\ Connected(c, b).blocks # << >>
<1>. DEFINE B == {c.blocks[i] : i \in DOMAIN c.blocks} \cup {b}
<1>1. /\ ChainOK(c) /\ Replays(c, TRUE) /\ IndexOf(c) /\ NoncesOf(c)
      /\ PlacesOf(c) /\ SupplyOf(c)
  BY Zenon DEF GoodChain
<1>2. (\A x \in B : BlockOK(x)) /\ b \in B
  BY <1>1 DEF ChainOK
<1>3. {c.blocks[i] : i \in DOMAIN c.blocks} \subseteq B
  OBVIOUS
<1>. HIDE DEF B
<1>4. c \in ChainOver(B)
  BY <1>1, <1>3, ChainOKOver
<1>5. /\ Connected(c, b) \in ChainOver(B)
      /\ Connected(c, b).work > c.work
      /\ Connected(c, b).blocks = Append(c.blocks, b)
  BY <1>2, <1>4, ConnectedType
<1>6. ChainOK(Connected(c, b))
  BY <1>2, <1>5, OverChainOK
<1>7. CanConnect(c, b, TRUE)
  BY <1>4, ConnectHeight, Zenon
<1>8. Replays(Connected(c, b), TRUE)
  BY <1>1, <1>2, <1>4, <1>7, ReplayConnected, Zenon
<1>9. IndexOf(Connected(c, b))
  BY <1>1, <1>2, <1>4, IndexConnected
<1>10. Connected(c, b).blocks # << >>
  <2>1. c.blocks \in Seq(B)
    BY <1>4 DEF ChainOver
  <2>. QED BY <2>1, <1>2, <1>5, AppendProperties
<1>11. NoncesOf(Connected(c, b))
  BY <1>1, <1>2, <1>4, NoncesConnected
<1>12. SupplyOf(Connected(c, b))
  BY <1>1, <1>2, <1>4, SupplyConnected
<1>13. PlacesOf(Connected(c, b))
  BY <1>1, <1>2, <1>4, PlacesConnected
<1>. QED BY <1>5, <1>6, <1>8, <1>9, <1>10, <1>11, <1>12, <1>13, Zenon DEF GoodChain

\* The loops of handle_blocks and try_replace: as soon as a block has been
\* connected, they leave a good chain with more work.
LEMMA ConnectAllGood ==
    ASSUME NEW c, GoodChain(c), NEW v, v \in Seq({v[i] : i \in DOMAIN v}),
           \A i \in DOMAIN v : BlockOK(v[i]), NEW timely \in BOOLEAN,
           ConnectAll(c, v, timely).okc > 0
    PROVE  LET d == ConnectAll(c, v, timely).chain
           IN  /\ GoodChain(d) /\ d.work > c.work /\ d.blocks # << >>
               /\ \A i \in DOMAIN d.blocks :
                     d.blocks[i] \in {c.blocks[j] : j \in DOMAIN c.blocks} \cup {v[j] : j \in DOMAIN v}
<1>. DEFINE n == Len(v)
            B == {c.blocks[i] : i \in DOMAIN c.blocks} \cup {v[i] : i \in DOMAIN v}
            G == {x \in ChainOver(B) : GoodChain(x)}
            g == ConnectLoop(c, v, timely)
            Good(s) == /\ s.okc = 0 => s.chain = c
                       /\ s.okc > 0 => s.chain.work > c.work /\ s.chain.blocks # << >>
            H == {i \in 0 .. n : Good(g[i])}
<1>1. ChainOK(c)
  BY Zenon DEF GoodChain
<1>2. \A x \in B : BlockOK(x)
  BY <1>1 DEF ChainOK
<1>3. /\ {c.blocks[i] : i \in DOMAIN c.blocks} \subseteq B
      /\ n \in Nat /\ \A i \in 1 .. n : v[i] \in B
  OBVIOUS
<1>. HIDE DEF B
<1>4. c \in G
  BY <1>1, <1>3, ChainOKOver
<1>5. ASSUME NEW x \in G, NEW b \in B, CanConnect(x, b, timely)
      PROVE  /\ Connected(x, b) \in G /\ x.work \in Nat /\ Connected(x, b).work \in Nat
             /\ Connected(x, b).work > x.work /\ Connected(x, b).blocks # << >>
  <2>1. Connected(x, b) \in ChainOver(B)
    BY <1>2, ConnectedType
  <2>2. /\ GoodChain(Connected(x, b))
        /\ Connected(x, b).work > x.work /\ Connected(x, b).blocks # << >>
    BY <1>2, <1>5, ConnectGood
  <2>3. x.work \in Nat /\ Connected(x, b).work \in Nat
    BY <2>1 DEF ChainOver
  <2>. QED BY <2>1, <2>2, <2>3
<1>6. \A x \in G : GoodChain(x) /\ x.work \in Nat /\ \A i \in DOMAIN x.blocks : x.blocks[i] \in B
  BY DEF ChainOver
<1>. HIDE DEF G
<1>7. /\ g \in [0 .. n -> [chain: G, okc: Nat]]
      /\ g[0] = [chain |-> c, okc |-> 0]
      /\ \A i \in 1 .. n : g[i] = ConnectStep(g[i - 1], v[i], i, timely)
  <2>1. \A x \in G : \A i \in 1 .. n : CanConnect(x, v[i], timely) => Connected(x, v[i]) \in G
    BY <1>3, <1>5
  <2>2. ASSUME NEW t,
               \A x \in G : \A i \in 1 .. n : CanConnect(x, v[i], t) => Connected(x, v[i]) \in G
        PROVE  /\ ConnectLoop(c, v, t) \in [0 .. n -> [chain: G, okc: Nat]]
               /\ ConnectLoop(c, v, t)[0] = [chain |-> c, okc |-> 0]
               /\ \A i \in 1 .. n : ConnectLoop(c, v, t)[i]
                                       = ConnectStep(ConnectLoop(c, v, t)[i - 1], v[i], i, t)
    BY <1>3, <1>4, <2>2, ConnectLoopDef
  <2>. QED BY <2>1, <2>2, Zenon
<1>. HIDE DEF g, n
<1>8. 0 \in H
  BY <1>3, <1>7
<1>9. ASSUME NEW i \in 1 .. n, i - 1 \in H PROVE i \in H
  <2>. DEFINE s == g[i - 1]
              d == Connected(s.chain, v[i])
  <2>1. i - 1 \in 0 .. n /\ i \in 0 .. n /\ i > 0
    BY <1>3
  <2>2. s \in [chain: G, okc: Nat] /\ Good(s)
    BY <2>1, <1>7, <1>9
  <2>3. g[i] = ConnectStep(s, v[i], i, timely)
    BY <1>7
  <2>4. CASE ~(s.okc = i - 1 /\ CanConnect(s.chain, v[i], timely))
    <3>1. g[i] = s
      BY <2>3, <2>4 DEF ConnectStep
    <3>. QED BY <2>1, <2>2, <3>1
  <2>5. CASE s.okc = i - 1 /\ CanConnect(s.chain, v[i], timely)
    <3>1. g[i] = [chain |-> d, okc |-> i]
      BY <2>3, <2>5 DEF ConnectStep
    <3>2. /\ d.work > s.chain.work /\ d.blocks # << >>
          /\ d.work \in Nat /\ s.chain.work \in Nat /\ c.work \in Nat
      BY <1>3, <1>4, <1>5, <1>6, <2>2, <2>5
    <3>3. s.chain.work >= c.work
      BY <2>2, <3>2
    <3>. HIDE DEF s, d
    <3>. QED BY <2>1, <3>1, <3>2, <3>3
  <2>. QED BY <2>4, <2>5
<1>10. H \in SUBSET Nat
  BY <1>3
<1>. HIDE DEF H
<1>11. n \in H
  <2>1. 0 .. n \subseteq H
    BY <1>3, <1>8, <1>9, <1>10, UpTo
  <2>. QED BY <2>1, <1>3
<1>12. Good(g[n]) /\ g[n] \in [chain: G, okc: Nat]
  BY <1>3, <1>7, <1>11 DEF H
<1>13. g[n].okc > 0
  BY DEF ConnectAll, g, n
<1>14. /\ GoodChain(g[n].chain)
       /\ \A i \in DOMAIN g[n].chain.blocks : g[n].chain.blocks[i] \in B
  BY <1>6, <1>12
<1>. QED BY <1>12, <1>13, <1>14 DEF ConnectAll, g, n, B

\* Every block of d is one of the candidate's.
BlocksFrom(d, v) == \A i \in DOMAIN d.blocks : \E j \in DOMAIN v : d.blocks[i] = v[j]

\* try_replace.
LEMMA ReplaceGood ==
    ASSUME NEW c, NEW v, v \in Seq({v[i] : i \in DOMAIN v}),
           \A i \in DOMAIN v : BlockOK(v[i]), NEW timely \in BOOLEAN,
           CanReplace(c, v, timely)
    PROVE  LET d == Replaced(v, timely)
           IN  GoodChain(d) /\ d.work > c.work /\ d.blocks # << >> /\ BlocksFrom(d, v)
<1>. DEFINE r == ConnectAll(EmptyChain, v, timely)
<1>1. v # << >> /\ r.okc = Len(v) /\ r.chain.work > c.work
  BY Zenon DEF CanReplace
<1>2. Len(v) \in Nat /\ Len(v) # 0
  <2>. DEFINE B == {v[i] : i \in DOMAIN v}
  <2>1. v \in Seq(B)
    OBVIOUS
  <2>. HIDE DEF B
  <2>. QED BY <1>1, <2>1, EmptySeq
<1>. HIDE DEF r
<1>3. r.okc > 0
  BY <1>1, <1>2
<1>4. /\ GoodChain(r.chain) /\ r.chain.blocks # << >>
      /\ \A i \in DOMAIN r.chain.blocks :
            r.chain.blocks[i] \in {EmptyChain.blocks[j] : j \in DOMAIN EmptyChain.blocks}
                                 \cup {v[j] : j \in DOMAIN v}
  BY <1>3, EmptyGood, ConnectAllGood DEF r
<1>5. DOMAIN EmptyChain.blocks = {}
  BY DEF EmptyChain
<1>. QED BY <1>1, <1>4, <1>5 DEF Replaced, BlocksFrom, r

---------------------------------------------------------------------------
(* The mempool *)

\* A nonempty set of keys has a least one in the order of std::map.
LEMMA LeastKeyIn ==
    ASSUME NEW K, K \subseteq Nat \X Nat, K # {}
    PROVE  LeastKey(K) \in K
<1>. DEFINE T1 == {k[1] : k \in K}
<1>1. T1 # {} /\ T1 \subseteq Nat
  OBVIOUS
<1>2. PICK x \in T1 : \A y \in T1 : x <= y
  BY <1>1, LeastNat
<1>. DEFINE T2 == {k[2] : k \in {j \in K : j[1] = x}}
<1>3. T2 # {} /\ T2 \subseteq Nat
  OBVIOUS
<1>4. PICK z \in T2 : \A y \in T2 : z <= y
  <2>. HIDE DEF T2
  <2>. QED BY <1>3, LeastNat
<1>5. PICK k \in K : k[1] = x /\ k[2] = z
  OBVIOUS
<1>6. ASSUME NEW j \in K \ {k} PROVE KeyLess(k, j)
  <2>1. j \in Nat \X Nat /\ k \in Nat \X Nat /\ j # k
    OBVIOUS
  <2>2. x <= j[1]
    BY <1>2
  <2>3. j[1] = x => z <= j[2]
    BY <1>4
  <2>4. j[1] # k[1] \/ j[2] # k[2]
    BY <2>1
  <2>5. j[1] \in Nat /\ j[2] \in Nat /\ k[1] \in Nat /\ k[2] \in Nat
    BY <2>1
  <2>. QED BY <1>5, <2>2, <2>3, <2>4, <2>5 DEF KeyLess
<1>7. \E y \in K : \A j \in K \ {y} : KeyLess(y, j)
  BY <1>6
<1>. QED BY <1>7, Zenon DEF LeastKey

\* A pool by type, as TypeOK of Node has it.
PoolOK(pool) ==
    /\ DOMAIN pool.m \subseteq Addr \X Nat
    /\ pool.m \in [DOMAIN pool.m -> Tx]

\* The values of collect's loop.
Collecting(pool) == [out: Seq(Tx), st: Accounts, last: DOMAIN pool.m \cup {<<-1, 0>>}]

\* A turn of collect takes a pooled transaction that apply_tx accepts, or
\* nothing.
LEMMA CollectTakes ==
    ASSUME NEW pool, PoolOK(pool), NEW s \in Collecting(pool), NEW height
    PROVE  \/ CollectStep(pool, s, height) = s
           \/ \E k \in DOMAIN pool.m :
                 /\ TxOk(s.st, pool.m[k], height, FALSE)
                 /\ CollectStep(pool, s, height)
                       = [out  |-> Append(s.out, pool.m[k]),
                          st   |-> AfterTx(s.st, pool.m[k]),
                          last |-> k]
<1>. DEFINE K == Applicable(pool, s.st, height)
            later == {k \in K : KeyLess(s.last, k)}
            k0 == NextKey(pool, s, height)
<1>1. CASE K = {}
  BY <1>1 DEF CollectStep
<1>2. CASE K # {}
  <2>1. K \subseteq DOMAIN pool.m /\ later \subseteq K
    BY DEF Applicable
  <2>2. K \subseteq Nat \X Nat /\ later \subseteq Nat \X Nat
    BY <2>1, AddrAssumption DEF PoolOK
  <2>3. LeastKey(K) \in K /\ (later # {} => LeastKey(later) \in later)
    <3>. HIDE DEF K, later
    <3>. QED BY <1>2, <2>2, LeastKeyIn
  <2>4. k0 = LeastKey(IF later # {} THEN later ELSE K)
    BY Zenon DEF NextKey
  <2>5. k0 \in K
    <3>. HIDE DEF K, later, k0
    <3>1. CASE later # {}
      BY <3>1, <2>1, <2>3, <2>4
    <3>2. CASE later = {}
      BY <3>2, <2>3, <2>4
    <3>. QED BY <3>1, <3>2
  <2>6. k0 \in DOMAIN pool.m /\ TxOk(s.st, pool.m[k0], height, FALSE)
    <3>. HIDE DEF k0
    <3>. QED BY <2>5 DEF Applicable
  <2>7. CollectStep(pool, s, height)
           = [out |-> Append(s.out, pool.m[k0]), st |-> AfterTx(s.st, pool.m[k0]), last |-> k0]
    BY <1>2, Zenon DEF CollectStep
  <2>. HIDE DEF k0
  <2>. QED BY <2>6, <2>7
<1>. QED BY <1>1, <1>2

\* The loop of collect: its values, and its equation.
LEMMA CollectLoopDef ==
    ASSUME NEW pool, PoolOK(pool), NEW base \in Accounts, NEW height
    PROVE  LET L == CollectLoop(pool, base, height)
           IN  /\ L[0] = [out |-> << >>, st |-> base, last |-> <<-1, 0>>]
               /\ \A i \in 1 .. MaxCollect : L[i] = CollectStep(pool, L[i - 1], height)
               /\ \A i \in 0 .. MaxCollect : L[i] \in Collecting(pool)
<1>. DEFINE n == MaxCollect
            S == Collecting(pool)
            s0 == [out |-> << >>, st |-> base, last |-> <<-1, 0>>]
            f == [x \in S \X (1 .. n) |-> CollectStep(pool, x[1], height)]
            F(g) == [i \in 0 .. n |-> IF i = 0 THEN s0
                                      ELSE CollectStep(pool, g[i - 1], height)]
            L == CollectLoop(pool, base, height)
<1>1. n \in Nat /\ s0 \in S
  BY PoolLimitsAssumption DEF Collecting
<1>2. ASSUME NEW s \in S PROVE CollectStep(pool, s, height) \in S
  <2>1. CASE CollectStep(pool, s, height) = s
    BY <2>1
  <2>2. ASSUME NEW k \in DOMAIN pool.m, TxOk(s.st, pool.m[k], height, FALSE),
               CollectStep(pool, s, height) = [out |-> Append(s.out, pool.m[k]),
                                               st |-> AfterTx(s.st, pool.m[k]), last |-> k]
        PROVE  CollectStep(pool, s, height) \in S
    <3>1. pool.m[k] \in Tx /\ s.st \in Accounts /\ s.out \in Seq(Tx)
      BY DEF PoolOK, Collecting
    <3>2. AfterTx(s.st, pool.m[k]) \in Accounts
      BY <2>2, <3>1, AfterTxType
    <3>. QED BY <2>2, <3>1, <3>2 DEF Collecting
  <2>. QED BY <2>1, <2>2, CollectTakes
<1>3. f \in [S \X (1 .. n) -> S]
  BY <1>2
<1>4. L = CHOOSE x : x = F(x)
  BY Zenon DEF CollectLoop
<1>. HIDE DEF S, s0, f, n, L
<1>5. \E g \in [0 .. n -> S] : IsLoop(g, s0, n, f)
  BY <1>1, <1>3, LoopExists
<1>6. PICK g \in [0 .. n -> S] : IsLoop(g, s0, n, f)
  BY <1>5
<1>7. ASSUME NEW i \in 1 .. n PROVE g[i] = CollectStep(pool, g[i - 1], height)
  <2>1. i - 1 \in 0 .. n
    BY <1>1
  <2>2. <<g[i - 1], i>> \in S \X (1 .. n)
    BY <2>1
  <2>. QED BY <2>2, <1>6 DEF f, IsLoop
<1>8. g = F(g)
  BY <1>6, <1>7, <1>1 DEF IsLoop
<1>9. L = F(L)
  BY <1>4, <1>8, Zenon
<1>10. L[0] = s0 /\ \A i \in 1 .. n : L[i] = CollectStep(pool, L[i - 1], height)
  BY <1>9, <1>1
<1>11. \A i \in 0 .. n : L[i] \in S
  <2>. DEFINE H == {i \in 0 .. n : L[i] \in S}
  <2>1. 0 \in H
    BY <1>10, <1>1
  <2>2. ASSUME NEW i \in 1 .. n, i - 1 \in H PROVE i \in H
    BY <2>2, <1>10, <1>1, <1>2
  <2>3. H \in SUBSET Nat
    BY <1>1
  <2>. HIDE DEF H
  <2>4. 0 .. n \subseteq H
    BY <2>1, <2>2, <2>3, <1>1, UpTo
  <2>. QED BY <2>4, <1>1 DEF H
<1>. QED BY <1>10, <1>11 DEF L, n, S, s0

\* Mempool::collect returns transactions.
LEMMA CollectType ==
    ASSUME NEW pool, PoolOK(pool), NEW base \in Accounts, NEW height
    PROVE  Collect(pool, base, height) \in Seq(Tx)
<1>1. CollectLoop(pool, base, height)[MaxCollect] \in Collecting(pool)
  <2>1. MaxCollect \in 0 .. MaxCollect
    BY PoolLimitsAssumption
  <2>. QED BY <2>1, CollectLoopDef
<1>. QED BY <1>1 DEF Collect, Collecting

---------------------------------------------------------------------------
(* What collect returns can be mined *)

\* Account states are equal when every balance and every nonce is.
LEMMA SameAccounts ==
    ASSUME NEW s \in Accounts, NEW u \in Accounts,
           \A a \in Addr : s[a].balance = u[a].balance /\ s[a].nonce = u[a].nonce
    PROVE  s = u
<1>1. ASSUME NEW a \in Addr PROVE s[a] = u[a]
  <2>1. s[a] \in [balance: Nat, nonce: Nat] /\ u[a] \in [balance: Nat, nonce: Nat]
    BY DEF Accounts
  <2>. QED BY <2>1
<1>. QED BY <1>1 DEF Accounts

\* The state with the reward of the coinbase for to.
Credited(st, to) == [st EXCEPT ![to].balance = @ + Reward]

\* The reward in each account.
LEMMA CreditedIs ==
    ASSUME NEW st \in Accounts, NEW to \in Addr
    PROVE  /\ Credited(st, to) \in Accounts
           /\ \A a \in Addr :
                 /\ Credited(st, to)[a].balance = st[a].balance + (IF a = to THEN Reward ELSE 0)
                 /\ Credited(st, to)[a].nonce = st[a].nonce
<1>1. st \in [Addr -> [balance: Nat, nonce: Nat]]
  BY DEF Accounts
<1>2. Credited(st, to) \in Accounts
  BY RewardAssumption DEF Credited, Accounts
<1>3. ASSUME NEW a \in Addr
      PROVE  /\ Credited(st, to)[a].balance = st[a].balance + (IF a = to THEN Reward ELSE 0)
             /\ Credited(st, to)[a].nonce = st[a].nonce
  BY <1>1, RewardAssumption DEF Credited
<1>. QED BY <1>2, <1>3

\* What apply_tx accepts without the reward it accepts with it, and the reward
\* stays where it is.
LEMMA CreditCommutes ==
    ASSUME NEW st \in Accounts, NEW to \in Addr, NEW t \in Tx, NEW h, TxOk(st, t, h, FALSE)
    PROVE  /\ TxOk(Credited(st, to), t, h, FALSE)
           /\ AfterTx(Credited(st, to), t) = Credited(AfterTx(st, t), to)
<1>. DEFINE r == Credited(st, to)
            q == AfterTx(st, t)
<1>1. t.type # "coinbase" /\ t.from \in Addr /\ t.to \in Addr /\ t.amount \in Nat
  BY DEF TxOk, WellFormed, Tx
<1>2. \A a \in Addr : st[a].balance \in Nat /\ st[a].nonce \in Nat
  BY DEF Accounts
<1>3. /\ r \in Accounts
      /\ \A a \in Addr : /\ r[a].balance = st[a].balance + (IF a = to THEN Reward ELSE 0)
                         /\ r[a].nonce = st[a].nonce
  BY CreditedIs
<1>4. q \in Accounts
  BY AfterTxType
<1>. HIDE DEF r
<1>5. TxOk(r, t, h, FALSE)
  BY <1>1, <1>2, <1>3, RewardAssumption DEF TxOk
<1>6. AfterTx(r, t) \in Accounts /\ Credited(q, to) \in Accounts
  BY <1>3, <1>4, <1>5, AfterTxType, CreditedIs
<1>7. ASSUME NEW a \in Addr
      PROVE  /\ AfterTx(r, t)[a].balance = Credited(q, to)[a].balance
             /\ AfterTx(r, t)[a].nonce = Credited(q, to)[a].nonce
  <2>. DEFINE out == IF t.type = "transfer" /\ a = t.from THEN t.amount ELSE 0
              in == IF t.type # "record" /\ a = t.to THEN t.amount ELSE 0
              spends == t.type # "coinbase" /\ t.from = a
              bonus == IF a = to THEN Reward ELSE 0
  <2>1. q[a].balance = st[a].balance - out + in
    BY AfterTxBalance
  <2>2. q[a].nonce = IF spends THEN st[a].nonce + 1 ELSE st[a].nonce
    BY AfterTxNonces
  <2>3. AfterTx(r, t)[a].balance = r[a].balance - out + in
    BY <1>3, <1>5, AfterTxBalance
  <2>4. AfterTx(r, t)[a].nonce = IF spends THEN r[a].nonce + 1 ELSE r[a].nonce
    BY <1>3, <1>5, AfterTxNonces
  <2>. HIDE DEF q
  <2>5. /\ Credited(q, to)[a].balance = q[a].balance + bonus
        /\ Credited(q, to)[a].nonce = q[a].nonce
    BY <1>4, CreditedIs
  <2>6. out \in Nat /\ in \in Nat /\ bonus \in Nat
    BY <1>1, RewardAssumption
  <2>7. r[a].balance = st[a].balance + bonus /\ r[a].nonce = st[a].nonce /\ st[a].balance \in Nat
    BY <1>2, <1>3
  <2>. HIDE DEF out, in, spends, bonus
  <2>. QED BY <2>1, <2>2, <2>3, <2>4, <2>5, <2>6, <2>7
<1>. HIDE DEF q
<1>8. AfterTx(r, t) = Credited(q, to)
  BY <1>6, <1>7, SameAccounts
<1>. QED BY <1>5, <1>8 DEF r, q

\* connect_block's loop over a list of transactions and one more takes the same
\* turns, and then one more.
LEMMA TxLoopAppend ==
    ASSUME NEW st \in Accounts, NEW txs \in Seq(Tx), NEW t \in Tx, NEW h
    PROVE  /\ Len(Append(txs, t)) = Len(txs) + 1
           /\ TxLoop(st, Append(txs, t), h)[Len(txs) + 1]
                 = TxStep(TxLoop(st, txs, h)[Len(txs)], t, h, Len(txs) + 1 = 1)
<1>. DEFINE n == Len(txs)
            m == n + 1
            w == Append(txs, t)
            f == TxLoop(st, txs, h)
            g == TxLoop(st, w, h)
            H == {i \in 0 .. n : g[i] = f[i]}
<1>1. n \in Nat /\ w \in Seq(Tx) /\ Len(w) = m /\ w[m] = t /\ \A i \in 1 .. n : w[i] = txs[i]
  BY AppendProperties
<1>2. f[0] = [ok |-> TRUE, st |-> st] /\ \A i \in 1 .. n : f[i] = TxStep(f[i - 1], txs[i], h, i = 1)
  BY TxLoopDef
<1>3. g[0] = [ok |-> TRUE, st |-> st] /\ \A i \in 1 .. m : g[i] = TxStep(g[i - 1], w[i], h, i = 1)
  <2>. HIDE DEF w
  <2>. QED BY <1>1, TxLoopDef
<1>. HIDE DEF f, g, w, n
<1>4. 0 \in H BY <1>1, <1>2, <1>3
<1>5. ASSUME NEW i \in 1 .. n, i - 1 \in H PROVE i \in H
  BY <1>1, <1>2, <1>3, <1>5
<1>6. H \in SUBSET Nat BY <1>1
<1>. HIDE DEF H
<1>7. n \in H
  <2>1. 0 .. n \subseteq H BY <1>1, <1>4, <1>5, <1>6, UpTo
  <2>. QED BY <1>1, <2>1
<1>8. g[n] = f[n] BY <1>7 DEF H
<1>9. g[m] = TxStep(f[n], t, h, m = 1)
  <2>1. m \in 1 .. m /\ m - 1 = n BY <1>1
  <2>. QED BY <1>1, <1>3, <1>8, <2>1
<1>. QED BY <1>1, <1>9 DEF n, w, f, g

\* A list of transactions that connect_block accepts in the block after c.
Mineable(c, txs) ==
    /\ txs \in Seq(Tx)
    /\ Len(txs) \in 1 .. MaxBlockTxs
    /\ TxLoop(c.st, txs, Height(c) + 1)[Len(txs)].ok

\* What collect returns, which it validated without the coinbase, connects
\* behind the coinbase, and there is room for both in a block.
LEMMA CollectMineable ==
    ASSUME NEW c, c.st \in Accounts, Height(c) + 1 \in Nat, NEW pool, PoolOK(pool),
           NEW to \in Addr
    PROVE  Mineable(c, <<Coinbase(to, Height(c) + 1)>> \o Collect(pool, c.st, Height(c) + 1))
<1>. DEFINE h == Height(c) + 1
            cb == Coinbase(to, h)
            n == MaxCollect
            L == CollectLoop(pool, c.st, h)
            block(out) == <<cb>> \o out
            Good(s, i) == /\ Len(s.out) <= i
                          /\ TxLoop(c.st, block(s.out), h)[Len(s.out) + 1]
                                = [ok |-> TRUE, st |-> Credited(s.st, to)]
            H == {i \in 0 .. n : Good(L[i], i)}
<1>1. n \in Nat /\ n < MaxBlockTxs /\ MaxBlockTxs \in Nat
  BY PoolLimitsAssumption, CollectAssumption, LimitsAssumption
<1>2. cb \in Tx /\ cb.type = "coinbase" /\ TxOk(c.st, cb, h, TRUE)
      /\ AfterTx(c.st, cb) = Credited(c.st, to)
  <2>1. cb \in Tx
    BY RewardAssumption DEF Coinbase, Tx
  <2>. QED BY <2>1 DEF Coinbase, TxOk, AfterTx, Credited
<1>3. /\ L[0] = [out |-> << >>, st |-> c.st, last |-> <<-1, 0>>]
      /\ \A i \in 1 .. n : L[i] = CollectStep(pool, L[i - 1], h)
      /\ \A i \in 0 .. n : L[i] \in Collecting(pool)
  BY CollectLoopDef
<1>. HIDE DEF L, n, cb, h
<1>4. \A out \in Seq(Tx) : block(out) \in Seq(Tx) /\ Len(block(out)) = Len(out) + 1
  BY <1>2
<1>5. 0 \in H
  <2>1. PICK e : e = << >>
    OBVIOUS
  <2>2. e \in Seq(Tx) /\ block(e) = Append(e, cb) /\ Len(e) = 0
    BY <1>2, <2>1
  <2>. HIDE DEF block
  <2>3. TxLoop(c.st, Append(e, cb), h)[Len(e) + 1]
           = TxStep(TxLoop(c.st, e, h)[Len(e)], cb, h, Len(e) + 1 = 1)
    BY <1>2, <2>2, TxLoopAppend
  <2>4. TxLoop(c.st, e, h)[0] = [ok |-> TRUE, st |-> c.st]
    <3>1. ASSUME NEW st \in Accounts, NEW txs \in Seq(Tx)
          PROVE  TxLoop(st, txs, h)[0] = [ok |-> TRUE, st |-> st]
      BY TxLoopDef
    <3>. QED BY <2>2, <3>1
  <2>5. (Len(e) + 1 = 1) = TRUE
    BY <2>2
  <2>6. TxLoop(c.st, block(e), h)[Len(e) + 1]
           = TxStep([ok |-> TRUE, st |-> c.st], cb, h, TRUE)
    BY <2>2, <2>3, <2>4, <2>5
  <2>7. TxLoop(c.st, block(e), h)[Len(e) + 1] = [ok |-> TRUE, st |-> Credited(c.st, to)]
    BY <1>2, <2>6 DEF TxStep
  <2>8. L[0].out = e /\ L[0].st = c.st
    BY <1>3, <2>1
  <2>9. Good(L[0], 0)
    BY <2>2, <2>7, <2>8
  <2>. QED BY <1>1, <2>9
<1>6. ASSUME NEW i \in 1 .. n, i - 1 \in H PROVE i \in H
  <2>. DEFINE s == L[i - 1]
  <2>1. i - 1 \in 0 .. n /\ i \in 0 .. n
    BY <1>1
  <2>2. s \in Collecting(pool) /\ Good(s, i - 1) /\ L[i] = CollectStep(pool, s, h)
    BY <1>3, <1>6, <2>1
  <2>3. s.out \in Seq(Tx) /\ s.st \in Accounts /\ Len(s.out) \in Nat
    BY <2>2 DEF Collecting
  <2>. HIDE DEF s
  <2>4. ASSUME L[i] = s PROVE Good(L[i], i)
    <3>1. Good(s, i)
      BY <2>1, <2>2, <2>3
    <3>. QED BY <2>4, <3>1
  <2>5. ASSUME NEW k \in DOMAIN pool.m, TxOk(s.st, pool.m[k], h, FALSE),
               L[i] = [out |-> Append(s.out, pool.m[k]), st |-> AfterTx(s.st, pool.m[k]), last |-> k]
        PROVE  Good(L[i], i)
    <3>. DEFINE t == pool.m[k]
                now == Append(s.out, t)
    <3>1. t \in Tx
      BY DEF PoolOK
    <3>2. Len(now) = Len(s.out) + 1 /\ block(now) = Append(block(s.out), t)
      BY <1>2, <2>3, <3>1
    <3>3. /\ TxOk(Credited(s.st, to), t, h, FALSE)
          /\ AfterTx(Credited(s.st, to), t) = Credited(AfterTx(s.st, t), to)
      BY <2>3, <2>5, <3>1, CreditCommutes
    <3>. HIDE DEF t
    <3>4. TxLoop(c.st, Append(block(s.out), t), h)[Len(block(s.out)) + 1]
             = TxStep(TxLoop(c.st, block(s.out), h)[Len(block(s.out))], t, h,
                      Len(block(s.out)) + 1 = 1)
      <4>. HIDE DEF block
      <4>. QED BY <1>4, <2>3, <3>1, TxLoopAppend
    <3>5. Len(block(s.out)) = Len(s.out) + 1
      BY <1>4, <2>3
    <3>6. TxLoop(c.st, block(now), h)[Len(now) + 1]
             = TxStep([ok |-> TRUE, st |-> Credited(s.st, to)], t, h, FALSE)
      <4>. HIDE DEF block, now
      <4>1. TxLoop(c.st, block(s.out), h)[Len(s.out) + 1]
               = [ok |-> TRUE, st |-> Credited(s.st, to)]
        BY <2>2
      <4>2. (Len(block(s.out)) + 1 = 1) = FALSE /\ Len(now) + 1 = Len(block(s.out)) + 1
        BY <2>3, <3>2, <3>5
      <4>. QED BY <3>2, <3>4, <3>5, <4>1, <4>2
    <3>7. TxLoop(c.st, block(now), h)[Len(now) + 1]
             = [ok |-> TRUE, st |-> Credited(AfterTx(s.st, t), to)]
      <4>. HIDE DEF block, now
      <4>. QED BY <3>3, <3>6 DEF TxStep
    <3>8. L[i].out = now /\ L[i].st = AfterTx(s.st, t)
      BY <2>5 DEF t
    <3>. HIDE DEF block, now
    <3>9. Len(now) <= i
      BY <2>1, <2>2, <2>3, <3>2
    <3>. QED BY <3>7, <3>8, <3>9
  <2>6. L[i] = s \/ \E k \in DOMAIN pool.m :
                       /\ TxOk(s.st, pool.m[k], h, FALSE)
                       /\ L[i] = [out |-> Append(s.out, pool.m[k]),
                                  st |-> AfterTx(s.st, pool.m[k]), last |-> k]
    BY <2>2, CollectTakes
  <2>. HIDE DEF Good
  <2>7. Good(L[i], i)
    BY <2>4, <2>5, <2>6
  <2>. QED BY <2>1, <2>7
<1>7. H \in SUBSET Nat
  BY <1>1
<1>. HIDE DEF H
<1>8. n \in H
  <2>1. 0 .. n \subseteq H
    BY <1>1, <1>5, <1>6, <1>7, UpTo
  <2>. QED BY <1>1, <2>1
<1>9. Good(L[n], n) /\ L[n].out \in Seq(Tx)
  BY <1>1, <1>3, <1>8 DEF H, Collecting
<1>10. Collect(pool, c.st, h) = L[n].out
  BY DEF Collect, L, n
<1>. DEFINE out == L[n].out
<1>11. /\ block(out) \in Seq(Tx) /\ Len(block(out)) = Len(out) + 1
       /\ Len(out) \in Nat /\ Len(out) <= n
       /\ TxLoop(c.st, block(out), h)[Len(out) + 1].ok
  BY <1>4, <1>9
<1>12. Mineable(c, block(out))
  <2>. HIDE DEF block, out
  <2>. QED BY <1>1, <1>11 DEF Mineable, h
<1>. QED BY <1>10, <1>12 DEF cb, h

---------------------------------------------------------------------------
(* The two maps of the mempool *)

\* The two maps of the mempool agree, as PoolConsistent of Node has it.
PoolAgrees(pool) ==
    /\ \A k \in DOMAIN pool.m : Key(pool.m[k]) = k /\ WellFormed(pool.m[k])
    /\ pool.ids = {TxId(pool.m[k]) : k \in DOMAIN pool.m}

\* Mempool::purge leaves a pool, whose maps agree if they did before, and
\* nothing of it that the accounts st have consumed.
LEMMA PurgedType ==
    ASSUME NEW pool, PoolOK(pool), NEW st
    PROVE  LET p == Purged(pool, st)
           IN  /\ p = [m |-> p.m, ids |-> p.ids]
               /\ PoolOK(p)
               /\ \A k \in DOMAIN p.m : ~(k[2] < st[k[1]].nonce)
               /\ PoolAgrees(pool) => PoolAgrees(p)
<1>. DEFINE gone == {k \in DOMAIN pool.m : k[2] < st[k[1]].nonce}
            kept == DOMAIN pool.m \ gone
            m == [k \in kept |-> pool.m[k]]
            ids == pool.ids \ {TxId(pool.m[k]) : k \in gone}
<1>1. Purged(pool, st) = [m |-> m, ids |-> ids]
  BY Zenon DEF Purged
<1>2. PoolOK([m |-> m, ids |-> ids])
  BY DEF PoolOK
<1>3. \A k \in DOMAIN m : ~(k[2] < st[k[1]].nonce)
  OBVIOUS
<1>4. ASSUME PoolAgrees(pool) PROVE PoolAgrees([m |-> m, ids |-> ids])
  <2>1. \A k \in DOMAIN m : Key(m[k]) = k /\ WellFormed(m[k])
    BY <1>4 DEF PoolAgrees
  <2>2. ids = {TxId(m[k]) : k \in DOMAIN m}
    <3>1. pool.ids = {pool.m[k] : k \in DOMAIN pool.m}
      BY <1>4 DEF PoolAgrees, TxId
    <3>2. \A k \in DOMAIN pool.m : Key(pool.m[k]) = k
      BY <1>4 DEF PoolAgrees
    <3>3. \A j, k \in DOMAIN pool.m : pool.m[j] = pool.m[k] => j = k
      BY <3>2
    <3>4. \A x : x \in ids <=> \E k \in kept : x = pool.m[k]
      BY <3>1, <3>3 DEF TxId
    <3>5. DOMAIN m = kept /\ \A k \in kept : m[k] = pool.m[k]
      OBVIOUS
    <3>. HIDE DEF m, kept, ids
    <3>. QED BY <3>4, <3>5 DEF TxId
  <2>. QED BY <2>1, <2>2 DEF PoolAgrees
<1>. HIDE DEF m, ids
<1>. QED BY <1>1, <1>2, <1>3, <1>4

\* Mempool::add keeps the maps in agreement, and its transaction is not one
\* the accounts have consumed.
LEMMA AddedType ==
    ASSUME NEW pool, PoolOK(pool), NEW st \in Accounts, NEW t \in Tx, CanAdd(pool, t, st)
    PROVE  LET p == Added(pool, t)
           IN  /\ p = [m |-> p.m, ids |-> p.ids]
               /\ PoolOK(p)
               /\ \A k \in DOMAIN p.m : k \in DOMAIN pool.m \/ k[2] >= st[k[1]].nonce
               /\ PoolAgrees(pool) => PoolAgrees(p)
<1>. DEFINE D == DOMAIN pool.m \cup {Key(t)}
            m == [k \in D |-> IF k = Key(t) THEN t ELSE pool.m[k]]
            ids == pool.ids \cup {TxId(t)}
<1>1. Added(pool, t) = [m |-> m, ids |-> ids]
  BY Zenon DEF Added
<1>2. /\ WellFormed(t) /\ Key(t) \notin DOMAIN pool.m
      /\ t.nonce \in st[t.from].nonce .. st[t.from].nonce + NonceWindow
  BY DEF CanAdd
<1>3. t.from \in Addr /\ t.nonce \in Nat /\ Key(t) = <<t.from, t.nonce>>
  BY <1>2 DEF WellFormed, Tx, Key
<1>4. PoolOK([m |-> m, ids |-> ids])
  BY <1>3 DEF PoolOK
<1>5. \A k \in DOMAIN m : k \in DOMAIN pool.m \/ k[2] >= st[k[1]].nonce
  <2>1. st[t.from].nonce \in Nat
    BY <1>3 DEF Accounts
  <2>2. t.nonce >= st[t.from].nonce
    BY <1>2, <1>3, <2>1, PoolLimitsAssumption
  <2>. QED BY <1>3, <2>2
<1>6. ASSUME PoolAgrees(pool) PROVE PoolAgrees([m |-> m, ids |-> ids])
  <2>1. \A k \in DOMAIN m : Key(m[k]) = k /\ WellFormed(m[k])
    BY <1>2, <1>6 DEF PoolAgrees
  <2>2. ids = {TxId(m[k]) : k \in DOMAIN m}
    <3>1. pool.ids = {pool.m[k] : k \in DOMAIN pool.m}
      BY <1>6 DEF PoolAgrees, TxId
    <3>2. /\ DOMAIN m = DOMAIN pool.m \cup {Key(t)} /\ m[Key(t)] = t
          /\ \A k \in DOMAIN pool.m : m[k] = pool.m[k]
      BY <1>2
    <3>3. ids = pool.ids \cup {t}
      BY DEF TxId
    <3>. HIDE DEF m, ids
    <3>4. \A x : x \in ids <=> \E k \in DOMAIN m : x = m[k]
      BY <3>1, <3>2, <3>3
    <3>. QED BY <3>4 DEF TxId
  <2>. QED BY <2>1, <2>2 DEF PoolAgrees
<1>. HIDE DEF m, ids
<1>. QED BY <1>1, <1>4, <1>5, <1>6

=============================================================================
