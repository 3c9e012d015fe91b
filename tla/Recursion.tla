----------------------------- MODULE Recursion -----------------------------
(***************************************************************************)
(* Functions defined by recursion from below exist: there is a function    *)
(* that is base(x) at 0 and step(x, n, f[n - 1]) behind it.  A module that *)
(* proves something about such a definition takes an INSTANCE of this one  *)
(* with the definition's own base and step.                                *)
(***************************************************************************)
EXTENDS Integers, WellFoundedInduction, TLAPS

CONSTANTS
  base(_),      \* the value at 0, of what the function is defined for
  step(_, _, _) \* the value at n, of that, n and the value before

IsUpTo(f, x, N) == f = [n \in 0 .. N |-> IF n = 0 THEN base(x) ELSE step(x, n, f[n - 1])]

LEMMA LeastNumber ==
  ASSUME NEW S \in SUBSET Nat, S # {}
  PROVE  \E m \in S : \A k \in S : m <= k
<1>1. PICK m \in S : \A k \in S : ~ (<<k, m>> \in OpToRel(<, Nat))
  BY WFMin, NatLessThanWellFounded, Zenon
<1>2. \A k \in S : ~ (k < m)
  BY <1>1, Zenon DEF OpToRel
<1> QED BY <1>2

(* Induction over the numbers, or over those up to some N. *)
LEMMA FromBelow ==
  ASSUME NEW S, 0 \in S, \A i \in Nat : i \in S => i + 1 \in S
  PROVE  Nat \subseteq S
<1> DEFINE T == {i \in Nat : i \notin S}
<1> SUFFICES ASSUME T # {} PROVE FALSE
  OBVIOUS
<1>1. PICK m \in T : \A k \in T : m <= k
  <2>1. T \in SUBSET Nat
    OBVIOUS
  <2> HIDE DEF T
  <2> QED BY <2>1, LeastNumber
<1>2. m \in Nat /\ m # 0 /\ m \notin S
  OBVIOUS
<1>3. m - 1 \in Nat /\ (m - 1) + 1 = m /\ ~ (m <= m - 1)
  BY <1>2
<1>4. m - 1 \in S
  BY <1>1, <1>3
<1> QED BY <1>2, <1>3, <1>4

LEMMA Unfolds ==
  ASSUME NEW f, NEW x, NEW N \in Nat, IsUpTo(f, x, N)
  PROVE  /\ f[0] = base(x)
         /\ \A n \in 1 .. N : f[n] = step(x, n, f[n - 1])
<1> DEFINE g == [n \in 0 .. N |-> IF n = 0 THEN base(x) ELSE step(x, n, f[n - 1])]
<1>1. f = g
  BY DEF IsUpTo
<1>2. g[0] = base(x) /\ \A n \in 1 .. N : g[n] = step(x, n, f[n - 1])
  OBVIOUS
<1> QED BY <1>1, <1>2, Zenon

THEOREM Exists ==
  ASSUME NEW x, NEW N \in Nat
  PROVE  \E f : f = [n \in 0 .. N |-> IF n = 0 THEN base(x) ELSE step(x, n, f[n - 1])]
<1> DEFINE S == {k \in Nat : \E f : IsUpTo(f, x, k)}
<1>1. 0 \in S
  <2> DEFINE f == [n \in 0 .. 0 |-> base(x)]
  <2>1. f = [n \in 0 .. 0 |-> IF n = 0 THEN base(x) ELSE step(x, n, f[n - 1])]
    OBVIOUS
  <2> QED BY <2>1 DEF IsUpTo
<1>2. ASSUME NEW k \in Nat, k \in S
      PROVE  k + 1 \in S
  <2>1. PICK f : IsUpTo(f, x, k)
    BY <1>2
  <2> DEFINE v == step(x, k + 1, f[k])
             g == [n \in 0 .. k + 1 |-> IF n = k + 1 THEN v ELSE f[n]]
  <2>2. f[0] = base(x) /\ \A n \in 1 .. k : f[n] = step(x, n, f[n - 1])
    BY <2>1, Unfolds
  <2>3. ASSUME NEW n \in 0 .. k + 1
        PROVE  g[n] = IF n = 0 THEN base(x) ELSE step(x, n, g[n - 1])
    <3>1. CASE n = 0
      BY <3>1, <2>2
    <3>2. CASE n \in 1 .. k
      <4>1. g[n] = f[n] /\ g[n - 1] = f[n - 1]
        BY <3>2
      <4>2. g[n] = step(x, n, g[n - 1])
        BY <3>2, <4>1, <2>2, Zenon
      <4> HIDE DEF g
      <4> QED BY <3>2, <4>2
    <3>3. CASE n = k + 1
      <4>1. g[n] = v /\ g[n - 1] = f[k] /\ n - 1 = k
        BY <3>3
      <4> HIDE DEF g
      <4> QED BY <3>3, <4>1
    <3> QED BY <3>1, <3>2, <3>3
  <2>4. g = [n \in 0 .. k + 1 |-> g[n]]
    OBVIOUS
  <2>5. IsUpTo(g, x, k + 1)
    <3> HIDE DEF g
    <3> QED BY <2>3, <2>4 DEF IsUpTo
  <2> QED BY <2>5
<1>3. N \in S
  <2> HIDE DEF S
  <2> QED BY <1>1, <1>2, FromBelow
<1> QED BY <1>3 DEF IsUpTo

(* One that exists agrees with a longer one as far as it goes. *)
LEMMA Agree ==
  ASSUME NEW x, NEW N \in Nat, NEW M \in Nat, N <= M, NEW f, NEW g,
         IsUpTo(f, x, N), IsUpTo(g, x, M)
  PROVE  \A n \in 0 .. N : f[n] = g[n]
<1> DEFINE S == {n \in Nat : n <= N => f[n] = g[n]}
<1>0. /\ f[0] = base(x) /\ \A n \in 1 .. N : f[n] = step(x, n, f[n - 1])
      /\ g[0] = base(x) /\ \A n \in 1 .. M : g[n] = step(x, n, g[n - 1])
  BY Unfolds
<1>1. 0 \in S
  BY <1>0
<1>2. ASSUME NEW n \in Nat, n \in S
      PROVE  n + 1 \in S
  <2> SUFFICES ASSUME n + 1 <= N PROVE f[n + 1] = g[n + 1]
    OBVIOUS
  <2>1. f[n] = g[n] /\ n + 1 \in 1 .. N /\ n + 1 \in 1 .. M /\ n + 1 - 1 = n
    BY <1>2
  <2>2. f[n + 1] = step(x, n + 1, f[n]) /\ g[n + 1] = step(x, n + 1, g[n])
    BY <2>1, <1>0
  <2> QED BY <2>1, <2>2, Zenon
<1>3. Nat \subseteq S
  <2> HIDE DEF S
  <2> QED BY <1>1, <1>2, FromBelow
<1> QED BY <1>3

THEOREM ExistsOnNat ==
  ASSUME NEW x
  PROVE  \E f : f = [n \in Nat |-> IF n = 0 THEN base(x) ELSE step(x, n, f[n - 1])]
<1> DEFINE Up(N) == CHOOSE f : IsUpTo(f, x, N)
           h == [n \in Nat |-> Up(n)[n]]
<1>1. \A N \in Nat : IsUpTo(Up(N), x, N)
  <2>1. \A N \in Nat : \E f : IsUpTo(f, x, N)
    BY Exists DEF IsUpTo
  <2> QED BY <2>1, Zenon
<1>2. ASSUME NEW n \in Nat
      PROVE  h[n] = IF n = 0 THEN base(x) ELSE step(x, n, h[n - 1])
  <2>1. h[n] = Up(n)[n] /\ IsUpTo(Up(n), x, n)
    BY <1>1
  <2> HIDE DEF Up
  <2>2. CASE n = 0
    <3>1. Up(n)[0] = base(x)
      BY <2>1, Unfolds
    <3> HIDE DEF h
    <3> QED BY <3>1, <2>1, <2>2
  <2>3. CASE n # 0
    <3>1. n - 1 \in Nat /\ n - 1 <= n /\ n \in 1 .. n /\ n - 1 \in 0 .. n - 1
      BY <2>3
    <3>2. Up(n)[n] = step(x, n, Up(n)[n - 1])
      BY <2>1, <3>1, Unfolds
    <3>3. IsUpTo(Up(n - 1), x, n - 1)
      BY <1>1, <3>1
    <3>4. Up(n - 1)[n - 1] = Up(n)[n - 1]
      BY <2>1, <3>1, <3>3, Agree
    <3>5. h[n - 1] = Up(n - 1)[n - 1]
      BY <3>1
    <3> HIDE DEF h
    <3> QED BY <2>1, <2>3, <3>2, <3>4, <3>5
  <2> QED BY <2>2, <2>3
<1>3. h = [n \in Nat |-> h[n]]
  OBVIOUS
<1> HIDE DEF h
<1> QED BY <1>2, <1>3
=============================================================================
