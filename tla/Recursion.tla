------------------------------- MODULE Recursion -------------------------------
(***************************************************************************)
(* Induction and recursion over numbers, for the modules that prove what   *)
(* the recursive functions of the models are.                              *)
(***************************************************************************)
EXTENDS Integers, WellFoundedInduction, TLAPS

\* Induction over the naturals, for a set instead of a predicate.
LEMMA NatSetInduction ==
  ASSUME NEW S, 0 \in S, \A n \in Nat : n \in S => n + 1 \in S
  PROVE  Nat \subseteq S
<1> DEFINE T == Nat \ S
<1> SUFFICES ASSUME T # {} PROVE FALSE
  OBVIOUS
<1>1. PICK x \in T : \A y \in T : <<y, x>> \notin OpToRel(<, Nat)
  <2>1. IsWellFoundedOn(OpToRel(<, Nat), Nat) /\ T \subseteq Nat
    BY NatLessThanWellFounded
  <2> HIDE DEF T
  <2> QED BY <2>1, WFMin, Zenon
<1>2. x - 1 \in T
  OBVIOUS
<1>3. <<x - 1, x>> \in OpToRel(<, Nat)
  BY <1>2 DEF OpToRel
<1> QED BY <1>1, <1>2, <1>3

\* f starts with b and takes m steps, the n-th of them by G[n], all within V.
Steps(m, V, b, G, f) ==
  f \in [0 .. m -> V] /\ f[0] = b /\ \A n \in 1 .. m : f[n] = G[n][f[n - 1]]

\* A recursion over 0 .. m whose steps stay in V has a solution in V.
LEMMA RecursionExists ==
  ASSUME NEW m \in Nat, NEW V, NEW b \in V, NEW G \in [1 .. m -> [V -> V]]
  PROVE  \E f : Steps(m, V, b, G, f)
<1> DEFINE Good(f, k) == f \in [0 .. m -> V] /\ f[0] = b
                         /\ \A n \in 1 .. m : n <= k => f[n] = G[n][f[n - 1]]
           S == {k \in Nat : \E f : Good(f, k)}
<1>1. 0 \in S
  <2>1. Good([n \in 0 .. m |-> b], 0)
    OBVIOUS
  <2> QED BY <2>1
<1>2. ASSUME NEW k \in Nat, k \in S PROVE k + 1 \in S
  <2>1. PICK f : Good(f, k)
    BY <1>2
  <2>2. CASE k + 1 > m
    <3>1. Good(f, k + 1)
      BY <2>1, <2>2
    <3> QED BY <3>1
  <2>3. CASE k + 1 <= m
    <3> DEFINE e == [f EXCEPT ![k + 1] = G[k + 1][f[k]]]
    <3>1. G[k + 1][f[k]] \in V
      BY <2>1, <2>3
    <3>2. /\ e \in [0 .. m -> V] /\ e[k + 1] = G[k + 1][f[k]]
          /\ \A n \in 0 .. m : n # k + 1 => e[n] = f[n]
      BY <2>1, <2>3, <3>1
    <3> HIDE DEF e
    <3>3. e[0] = b
      BY <2>1, <3>2
    <3>4. ASSUME NEW n \in 1 .. m, n <= k + 1 PROVE e[n] = G[n][e[n - 1]]
      <4>1. n - 1 \in 0 .. m /\ n - 1 # k + 1
        BY <3>4
      <4>2. e[n - 1] = f[n - 1]
        BY <3>2, <4>1
      <4>3. n = k + 1 => f[n - 1] = f[k]
        OBVIOUS
      <4>4. n # k + 1 => n <= k /\ n \in 0 .. m
        BY <3>4
      <4> QED BY <2>1, <3>2, <4>2, <4>3, <4>4
    <3>5. Good(e, k + 1)
      BY <3>2, <3>3, <3>4
    <3> QED BY <3>5
  <2> QED BY <2>2, <2>3
<1>3. m \in S
  <2> HIDE DEF S
  <2> QED BY <1>1, <1>2, NatSetInduction
<1>4. PICK f : Good(f, m)
  BY <1>3
<1> QED BY <1>4 DEF Steps

\* What satisfies the equations of such a recursion is one.
LEMMA RecursionIsIn ==
  ASSUME NEW m \in Nat, NEW V, NEW b \in V, NEW G \in [1 .. m -> [V -> V]], NEW h,
         h = [n \in 0 .. m |-> h[n]], h[0] = b,
         \A n \in 1 .. m : h[n - 1] \in V => h[n] = G[n][h[n - 1]]
  PROVE  Steps(m, V, b, G, h)
<1> DEFINE S == {n \in Nat : n <= m => h[n] \in V}
<1>1. 0 \in S
  OBVIOUS
<1>2. ASSUME NEW n \in Nat, n \in S PROVE n + 1 \in S
  <2>1. CASE n + 1 <= m
    <3>1. n + 1 \in 1 .. m /\ (n + 1) - 1 = n /\ h[n] \in V
      BY <1>2, <2>1
    <3>2. h[n + 1] = G[n + 1][h[n]]
      BY <3>1
    <3>3. G[n + 1][h[n]] \in V
      BY <3>1
    <3> QED BY <3>2, <3>3
  <2>2. CASE ~(n + 1 <= m)
    BY <2>2
  <2> QED BY <2>1, <2>2
<1>3. \A n \in 0 .. m : h[n] \in V
  <2>1. Nat \subseteq S
    <3> HIDE DEF S
    <3> QED BY <1>1, <1>2, NatSetInduction
  <2> QED BY <2>1
<1>4. h \in [0 .. m -> V]
  BY <1>3
<1>5. \A n \in 1 .. m : n - 1 \in 0 .. m
  OBVIOUS
<1>6. \A n \in 1 .. m : h[n] = G[n][h[n - 1]]
  BY <1>3, <1>5
<1> QED BY <1>4, <1>6 DEF Steps

================================================================================
