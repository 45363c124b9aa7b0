------------------------------- MODULE Loops --------------------------------
(***************************************************************************)
(* Loops that carry a value: g[0] is the value before the loop and g[i]    *)
(* the value after its i-th turn.  The facts the proofs need: such a       *)
(* function exists, and what holds before the loop and is kept by every    *)
(* turn holds after it.  Both follow from the least counterexample.        *)
(***************************************************************************)
EXTENDS Integers, WellFoundedInduction, TLAPS

\* A nonempty set of naturals has a least element.
LEMMA LeastNat ==
    ASSUME NEW T, T \subseteq Nat, T # {}
    PROVE  \E x \in T : \A y \in T : x <= y
<1>1. PICK x \in T : \A y \in T : ~(<<y, x>> \in OpToRel(<, Nat))
  BY NatLessThanWellFounded, WFMin
<1>2. ASSUME NEW y \in T PROVE x <= y
  <2>1. y < x => <<y, x>> \in OpToRel(<, Nat)
    BY Zenon DEF OpToRel
  <2>2. ~(y < x)
    BY <1>1, <2>1, Zenon
  <2>. QED BY <2>2
<1>. QED BY <1>2

\* What holds at 0 and is passed on from i - 1 to i holds up to n.
LEMMA UpTo ==
    ASSUME NEW n \in Nat, NEW H \in SUBSET Nat,
           0 \in H, \A i \in 1 .. n : i - 1 \in H => i \in H
    PROVE  0 .. n \subseteq H
<1>. DEFINE T == (0 .. n) \ H
<1>. SUFFICES ASSUME T # {} PROVE FALSE
  OBVIOUS
<1>1. T \subseteq Nat
  OBVIOUS
<1>. HIDE DEF T
<1>2. PICK x \in T : \A y \in T : x <= y
  BY LeastNat, <1>1
<1>3. x \in 0 .. n /\ x \notin H /\ x # 0
  BY DEF T
<1>4. x - 1 \in H
  BY <1>2, <1>3 DEF T
<1>. QED BY <1>3, <1>4

\* g is the run of a loop of n turns from s0, whose body is f.
IsLoop(g, s0, n, f) ==
    /\ g[0] = s0
    /\ \A i \in 1 .. n : g[i] = f[<<g[i - 1], i>>]

\* A loop over values of S can be run.
LEMMA LoopExists ==
    ASSUME NEW S, NEW s0 \in S, NEW n \in Nat, NEW f \in [S \X (1 .. n) -> S]
    PROVE  \E g \in [0 .. n -> S] : IsLoop(g, s0, n, f)
<1>. DEFINE Run(k, g) == /\ g[0] = s0
                         /\ \A i \in 1 .. k : g[i] = f[<<g[i - 1], i>>]
            H == {k \in 0 .. n : \E g \in [0 .. k -> S] : Run(k, g)}
<1>1. 0 \in H
  <2>. DEFINE g0 == [i \in 0 .. 0 |-> s0]
  <2>1. g0 \in [0 .. 0 -> S] /\ Run(0, g0)
    OBVIOUS
  <2>. HIDE DEF g0, Run
  <2>. QED BY <2>1
<1>2. ASSUME NEW k \in 1 .. n, k - 1 \in H PROVE k \in H
  <2>1. PICK g \in [0 .. k - 1 -> S] : Run(k - 1, g)
    BY <1>2
  <2>. DEFINE last == f[<<g[k - 1], k>>]
              h == [i \in 0 .. k |-> IF i = k THEN last ELSE g[i]]
  <2>2. last \in S
    <3>1. k - 1 \in 0 .. k - 1 /\ k \in 1 .. n
      OBVIOUS
    <3>2. <<g[k - 1], k>> \in S \X (1 .. n)
      BY <3>1
    <3>. QED BY <3>2
  <2>. HIDE DEF last
  <2>3. h \in [0 .. k -> S]
    BY <2>2
  <2>4. Run(k, h)
    <3>1. h[0] = s0
      BY <2>1
    <3>2. ASSUME NEW i \in 1 .. k PROVE h[i] = f[<<h[i - 1], i>>]
      <4>1. h[i - 1] = g[i - 1]
        OBVIOUS
      <4>2. CASE i = k
        <5>1. h[k] = last
          OBVIOUS
        <5>2. last = f[<<h[i - 1], i>>]
          BY <4>1, <4>2 DEF last
        <5>. QED BY <5>1, <5>2, <4>2
      <4>3. CASE i # k
        <5>1. i \in 1 .. k - 1
          BY <4>3
        <5>2. h[i] = g[i]
          BY <4>3
        <5>. QED BY <5>1, <5>2, <4>1, <2>1
      <4>. QED BY <4>2, <4>3
    <3>. QED BY <3>1, <3>2
  <2>5. k \in 0 .. n
    OBVIOUS
  <2>. HIDE DEF h, Run
  <2>. QED BY <2>3, <2>4, <2>5
<1>. HIDE DEF H
<1>3. H \in SUBSET Nat
  BY DEF H
<1>4. 0 .. n \subseteq H
  BY <1>1, <1>2, <1>3, UpTo
<1>5. n \in H
  BY <1>4
<1>. QED BY <1>5 DEF H, IsLoop

=============================================================================
