------------------------------ MODULE ScanLemmas ------------------------------
(***************************************************************************)
(* Induction for the proofs about the models' scans: recursive functions   *)
(* that go once through a sequence, what they have after i elements made   *)
(* from what they had after i - 1.  A step is a function here and an       *)
(* assertion a set of pairs, so that every lemma is of first order.        *)
(***************************************************************************)
EXTENDS Naturals, Sequences, WellFoundedInduction, TLAPS

\* A set of naturals has a least member.
LEMMA LeastNat ==
  ASSUME NEW T \in SUBSET Nat, T # {}
  PROVE  \E x \in T : \A y \in T : x <= y
<1>1. IsWellFoundedOn(OpToRel(<, Nat), Nat)
  BY NatLessThanWellFounded
<1>2. \A x, y \in Nat : x < y => <<x, y>> \in OpToRel(<, Nat)
  BY DEF OpToRel
<1>3. PICK x \in T : \A y \in T : ~(<<y, x>> \in OpToRel(<, Nat))
  BY <1>1, WFMin
<1>4. ASSUME NEW y \in T PROVE x <= y
  <2>1. ~(y < x)
    BY <1>2, <1>3
  <2> QED
    BY <2>1
<1> QED
  BY <1>4

\* A set with zero and, up to N, every successor has N.
LEMMA CountsTo ==
  ASSUME NEW N \in Nat, NEW S, 0 \in S, \A n \in 0 .. N - 1 : n \in S => n + 1 \in S
  PROVE  N \in S
<1> SUFFICES ASSUME N \notin S PROVE FALSE
  OBVIOUS
<1> DEFINE Rest == {n \in Nat : n <= N /\ n \notin S}
<1>1. Rest \in SUBSET Nat /\ Rest # {}
  OBVIOUS
<1>2. PICK x \in Rest : \A y \in Rest : x <= y
  BY <1>1, LeastNat
<1>3. x - 1 \in Nat /\ x - 1 \notin Rest
  BY <1>2
<1> QED
  BY <1>2, <1>3

\* g is a scan of the first k elements, and there is one.
IsScan(g, k, init, step) ==
  \A i \in 0 .. k : g[i] = IF i = 0 THEN init ELSE step[<<i, g[i - 1]>>]
Scans(k, S, init, step) == \E g \in [0 .. k -> S] : IsScan(g, k, init, step)

\* The scan of n elements by a step that stays in S exists.
LEMMA ScanExists ==
  ASSUME NEW n \in Nat, NEW S, NEW init \in S, NEW step \in [(1 .. n) \X S -> S]
  PROVE  Scans(n, S, init, step)
<1> DEFINE Good == {k \in 0 .. n : Scans(k, S, init, step)}
<1>1. 0 \in Good
  <2> DEFINE h == [i \in 0 .. 0 |-> init]
  <2>1. h \in [0 .. 0 -> S] /\ \A i \in 0 .. 0 : i = 0 /\ h[i] = init
    OBVIOUS
  <2> HIDE DEF h
  <2>2. IsScan(h, 0, init, step)
    BY <2>1 DEF IsScan
  <2> QED
    BY <2>1, <2>2 DEF Scans
<1>2. ASSUME NEW k \in 0 .. n - 1, k \in Good PROVE k + 1 \in Good
  <2>1. PICK g \in [0 .. k -> S] : IsScan(g, k, init, step)
    BY <1>2 DEF Scans
  <2> DEFINE next == step[<<k + 1, g[k]>>]
             h == [i \in 0 .. k + 1 |-> IF i = k + 1 THEN next ELSE g[i]]
  <2>2. next \in S
    BY <2>1
  <2> HIDE DEF next
  <2>3. h \in [0 .. k + 1 -> S]
    BY <2>1, <2>2
  <2>4. ASSUME NEW i \in 0 .. k + 1
        PROVE  h[i] = IF i = 0 THEN init ELSE step[<<i, h[i - 1]>>]
    <3>1. CASE i = k + 1
      <4>1. i # 0 /\ i - 1 = k /\ k \in 0 .. k + 1 /\ k # k + 1
        BY <3>1
      <4>2. h[i] = next /\ h[i - 1] = g[k]
        BY <3>1, <4>1
      <4> QED
        BY <3>1, <4>1, <4>2 DEF next
    <3>2. CASE i # k + 1
      <4>1. i \in 0 .. k /\ h[i] = g[i]
        BY <3>2
      <4>2. i # 0 => i - 1 \in 0 .. k + 1 /\ i - 1 # k + 1 /\ h[i - 1] = g[i - 1]
        BY <4>1
      <4> QED
        BY <2>1, <4>1, <4>2 DEF IsScan
    <3> QED
      BY <3>1, <3>2
  <2> HIDE DEF h
  <2>5. IsScan(h, k + 1, init, step)
    BY <2>4 DEF IsScan
  <2>6. Scans(k + 1, S, init, step)
    BY <2>3, <2>5 DEF Scans
  <2> QED
    BY <2>6
<1> HIDE DEF Good
<1>3. n \in Good
  BY <1>1, <1>2, CountsTo
<1> QED
  BY <1>3 DEF Good

\* What holds at first and is kept by every step holds throughout.
LEMMA ScanHolds ==
  ASSUME NEW n \in Nat, NEW g, NEW P, <<0, g[0]>> \in P,
         \A i \in 1 .. n : <<i - 1, g[i - 1]>> \in P => <<i, g[i]>> \in P
  PROVE  \A i \in 0 .. n : <<i, g[i]>> \in P
<1> DEFINE Held == {i \in 0 .. n : <<i, g[i]>> \in P}
<1>1. ASSUME NEW m \in 0 .. n PROVE m \in Held
  <2>1. 0 \in Held
    OBVIOUS
  <2>2. ASSUME NEW i \in 0 .. m - 1, i \in Held PROVE i + 1 \in Held
    <3>1. i + 1 \in 1 .. n /\ i + 1 - 1 = i
      OBVIOUS
    <3> QED
      BY <2>2, <3>1
  <2> HIDE DEF Held
  <2> QED
    BY <2>1, <2>2, CountsTo
<1> QED
  BY <1>1
=============================================================================
