------------------------------ MODULE NatFacts ------------------------------
(***************************************************************************)
(* Induction and recursion on the natural numbers, in a form that needs no *)
(* operator as a parameter: induction is stated of a set of numbers, and   *)
(* rests on the pigeonhole principle; a recursive function exists because  *)
(* by induction its restrictions to 0 .. n do, and agree.                  *)
(***************************************************************************)
EXTENDS Integers, FiniteSets, FiniteSetTheorems, TLAPS

(* A set of natural numbers with 0 and the successor of each is all of Nat. *)
LEMMA NatSetInduction ==
    ASSUME NEW T \in SUBSET Nat, 0 \in T, \A n \in T : n + 1 \in T
    PROVE  T = Nat
<1>1. SUFFICES ASSUME NEW N \in Nat, N \notin T PROVE FALSE
  OBVIOUS
<1>. DEFINE U == T \cap 0 .. N
            V == U \ {0}
            f == [n \in U |-> n + 1]
<1>2. IsFiniteSet(U) /\ IsFiniteSet(V)
  <2>1. IsFiniteSet(0 .. N)
    BY FS_Interval
  <2>. QED  BY <2>1, FS_Subset
<1>3. Cardinality(U) \in Nat /\ Cardinality(V) \in Nat /\ Cardinality(V) < Cardinality(U)
  <2>1. 0 \in U
    OBVIOUS
  <2>. HIDE DEF U
  <2>. QED  BY <1>2, <2>1, FS_RemoveElement, FS_CardinalityType
<1>4. f \in [U -> V]
  BY <1>1
<1>5. PICK u1 \in U, u2 \in U : u1 # u2 /\ f[u1] = f[u2]
  <2>. HIDE DEF U, V, f
  <2>. QED  BY <1>2, <1>3, <1>4, FS_PigeonHole
<1>. QED  BY <1>5

(* f starts at a, and G[n] gives its value at n from the one before. *)
Recursion(f, S, a, G) ==
    f \in [Nat -> S] /\ \A n \in Nat : f[n] = IF n = 0 THEN a ELSE G[n][f[n - 1]]

(* Such a function exists. *)
LEMMA RecursiveFunction ==
    ASSUME NEW S, NEW a \in S, NEW G \in [Nat -> [S -> S]]
    PROVE  \E f : Recursion(f, S, a, G)
<1>. DEFINE Upto(n) == {f \in [0 .. n -> S] :
                          \A i \in 0 .. n : f[i] = IF i = 0 THEN a ELSE G[i][f[i - 1]]}
            T == {n \in Nat : \E v \in S : (\E f \in Upto(n) : f[n] = v)
                                             /\ \A f \in Upto(n) : f[n] = v}
<1>1. 0 \in T
  <2>1. [i \in 0 .. 0 |-> a] \in Upto(0)
    OBVIOUS
  <2>. QED  BY <2>1
<1>2. ASSUME NEW n \in T PROVE n + 1 \in T
  <2>1. PICK v \in S : (\E f \in Upto(n) : f[n] = v) /\ \A f \in Upto(n) : f[n] = v
    OBVIOUS
  <2>2. PICK f \in Upto(n) : f[n] = v
    BY <2>1
  <2>. DEFINE w == G[n + 1][v]
              h == [i \in 0 .. n + 1 |-> IF i = n + 1 THEN w ELSE f[i]]
  <2>3. w \in S
    OBVIOUS
  <2>4. h \in Upto(n + 1) /\ h[n + 1] = w
    BY <2>2, <2>3
  <2>5. ASSUME NEW k \in Upto(n + 1) PROVE k[n + 1] = w
    <3>1. [i \in 0 .. n |-> k[i]] \in Upto(n)
      OBVIOUS
    <3>2. [i \in 0 .. n |-> k[i]][n] = v
      <4>. HIDE DEF Upto
      <4>. QED  BY <3>1, <2>1
    <3>. QED  BY <3>2
  <2>. HIDE DEF Upto, h, w
  <2>. QED  BY <2>3, <2>4, <2>5
<1>3. T = Nat
  <2>. HIDE DEF T
  <2>1. T \in SUBSET Nat
    BY DEF T
  <2>. QED  BY <1>1, <1>2, <2>1, NatSetInduction
<1>. DEFINE val(n) == CHOOSE v \in S : (\E f \in Upto(n) : f[n] = v) /\ \A f \in Upto(n) : f[n] = v
            r == [n \in Nat |-> val(n)]
<1>4. ASSUME NEW n \in Nat
      PROVE  /\ val(n) \in S /\ \E f \in Upto(n) : f[n] = val(n)
             /\ \A f \in Upto(n) : f[n] = val(n)
  <2>. HIDE DEF Upto
  <2>. QED  BY <1>3
<1>5. ASSUME NEW n \in Nat PROVE val(n) = IF n = 0 THEN a ELSE G[n][val(n - 1)]
  <2>1. PICK f \in Upto(n) : f[n] = val(n)
    BY <1>4
  <2>2. n # 0 => [i \in 0 .. n - 1 |-> f[i]] \in Upto(n - 1)
    OBVIOUS
  <2>3. n # 0 => f[n - 1] = val(n - 1)
    <3>. HIDE DEF val, Upto
    <3>. SUFFICES ASSUME n # 0 PROVE f[n - 1] = val(n - 1)
      OBVIOUS
    <3>1. n - 1 \in Nat /\ n - 1 \in 0 .. n - 1
      OBVIOUS
    <3>2. [i \in 0 .. n - 1 |-> f[i]][n - 1] = val(n - 1)
      BY <3>1, <2>2, <1>4
    <3>. QED  BY <3>1, <3>2
  <2>4. f[n] = IF n = 0 THEN a ELSE G[n][f[n - 1]]
    <3>. HIDE DEF val
    <3>. QED OBVIOUS
  <2>. QED  BY <2>1, <2>3, <2>4
<1>6. r \in [Nat -> S]
  <2>. HIDE DEF val
  <2>. QED BY <1>4
<1>7. ASSUME NEW n \in Nat PROVE r[n] = IF n = 0 THEN a ELSE G[n][r[n - 1]]
  <2>. HIDE DEF val
  <2>1. n # 0 => n - 1 \in Nat /\ r[n - 1] = val(n - 1)
    OBVIOUS
  <2>. QED  BY <1>5, <2>1
<1>. HIDE DEF r
<1>. QED  BY <1>6, <1>7 DEF Recursion
=============================================================================
