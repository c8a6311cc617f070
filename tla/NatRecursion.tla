---------------------------- MODULE NatRecursion ----------------------------
(* Induction and recursion over the natural numbers, stated with sets and   *)
(* functions, for the proofs about recursive functions of other modules.    *)
EXTENDS Naturals, WellFoundedInduction, TLAPS

(* A set of numbers that holds 0 and with n also n + 1 holds them all. *)
LEMMA NatSetInduction ==
  ASSUME NEW S, 0 \in S, \A n \in Nat : n \in S => n + 1 \in S
  PROVE  \A n \in Nat : n \in S
<1> DEFINE Missing == Nat \ S
<1> SUFFICES ASSUME Missing # {} PROVE FALSE
  OBVIOUS
<1>1. PICK x \in Missing : \A y \in Missing : ~(<<y, x>> \in OpToRel(<, Nat))
  BY NatLessThanWellFounded, WFMin, Zenon
<1>2. x - 1 \in Nat /\ x - 1 < x /\ (x - 1) + 1 = x
  <2>1. x \in Nat /\ x # 0
    OBVIOUS
  <2>2. QED
    BY <2>1, SMT
<1>3. <<x - 1, x>> \in OpToRel(<, Nat)
  BY <1>2, Zenon DEF OpToRel
<1>4. x - 1 \in S
  BY <1>1, <1>2, <1>3
<1>5. x \in S
  BY <1>2, <1>4, Zenon
<1> QED
  BY <1>5

(* f starts with `first' and goes on by the steps. *)
Iterates(f, first, step) ==
    f[0] = first /\ \A n \in Nat : f[n + 1] = step[n][f[n]]

(* For a first value and steps there is such a function. *)
LEMMA NatRecursionExists ==
  \A V : \A first \in V : \A step \in [Nat -> [V -> V]] :
      \E f \in [Nat -> V] : Iterates(f, first, step)
<1> SUFFICES ASSUME NEW V, NEW first \in V, NEW step \in [Nat -> [V -> V]]
             PROVE  \E f \in [Nat -> V] : Iterates(f, first, step)
  OBVIOUS
<1> DEFINE Starts(n) == {g \in [0..n -> V] :
                            g[0] = first /\ \A k \in 0..(n - 1) : g[k + 1] = step[k][g[k]]}
<1>1. \A n \in Nat : Starts(n) # {}
  <2> DEFINE S == {n \in Nat : Starts(n) # {}}
  <2>1. 0 \in S
    <3> DEFINE g == [k \in 0..0 |-> first]
    <3>1. g \in [0..0 -> V] /\ g[0] = first
      OBVIOUS
    <3>2. g \in Starts(0)
      BY <3>1
    <3>3. QED
      BY <3>2
  <2>2. ASSUME NEW n \in Nat, n \in S PROVE n + 1 \in S
    <3>1. PICK g : g \in Starts(n)
      BY <2>2
    <3> DEFINE h == [k \in 0..(n + 1) |-> IF k <= n THEN g[k] ELSE step[n][g[n]]]
    <3>2. g \in [0..n -> V] /\ g[0] = first /\ \A k \in 0..(n - 1) : g[k + 1] = step[k][g[k]]
      BY <3>1
    <3>3. g[n] \in V /\ step[n][g[n]] \in V
      BY <3>2
    <3>4. h \in [0..(n + 1) -> V] /\ h[0] = first
      BY <3>2, <3>3
    <3>5. ASSUME NEW k \in 0..((n + 1) - 1) PROVE h[k + 1] = step[k][h[k]]
      <4>1. CASE k = n
        BY <4>1
      <4>2. CASE k \in 0..(n - 1)
        BY <3>2, <4>2
      <4>3. QED
        BY <4>1, <4>2
    <3>6. h \in Starts(n + 1)
      BY <3>4, <3>5
    <3> HIDE DEF Starts, h
    <3>7. n + 1 \in Nat /\ Starts(n + 1) # {}
      BY <3>6
    <3>8. QED
      BY <3>7
  <2> HIDE DEF S
  <2>3. \A n \in Nat : n \in S
    BY <2>1, <2>2, NatSetInduction
  <2>4. QED
    BY <2>3 DEF S
<1>2. ASSUME NEW n \in Nat, NEW g \in Starts(n), NEW h \in Starts(n + 1)
      PROVE  h[n] = g[n]
  <2> DEFINE S == {k \in Nat : k <= n => h[k] = g[k]}
  <2>1. 0 \in S
    OBVIOUS
  <2>2. ASSUME NEW k \in Nat, k \in S PROVE k + 1 \in S
    BY <2>2
  <2> HIDE DEF S
  <2>3. \A k \in Nat : k \in S
    BY <2>1, <2>2, NatSetInduction
  <2>4. QED
    BY <2>3 DEF S
<1> DEFINE at(n) == CHOOSE g : g \in Starts(n)
           f == [n \in Nat |-> at(n)[n]]
<1>3. \A n \in Nat : at(n) \in Starts(n)
  BY <1>1, Zenon
<1>4. f \in [Nat -> V] /\ f[0] = first
  <2>1. \A n \in Nat : at(n) \in [0..n -> V]
    BY <1>3
  <2>2. at(0)[0] = first
    BY <1>3
  <2> HIDE DEF at
  <2>3. QED
    BY <2>1, <2>2
<1>5. ASSUME NEW n \in Nat PROVE f[n + 1] = step[n][f[n]]
  <2>1. at(n) \in Starts(n) /\ at(n + 1) \in Starts(n + 1)
    <3>1. n + 1 \in Nat
      OBVIOUS
    <3> HIDE DEF at, Starts
    <3>2. QED
      BY <1>3, <3>1
  <2> HIDE DEF at
  <2>2. at(n + 1)[n + 1] = step[n][at(n + 1)[n]]
    BY <2>1
  <2>3. at(n + 1)[n] = at(n)[n]
    BY <1>2, <2>1
  <2>4. QED
    BY <2>2, <2>3
<1> HIDE DEF f
<1>6. QED
  BY <1>4, <1>5 DEF Iterates
=============================================================================
