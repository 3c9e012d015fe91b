---------------------------- MODULE Packets_proof ----------------------------
(***************************************************************************)
(* Theorems of Packets, for every version, every packet, every size of a   *)
(* word and of the groups it is written in: what encode writes is read     *)
(* back to its last unit, by decode and by a server of the version.        *)
(*                                                                         *)
(* Each way of writing a field is read back in front of whatever follows   *)
(* (Undone); from there to a packet it is one induction over its fields.   *)
(* The loops of the model are recursive functions; that they exist is      *)
(* Recursion, an INSTANCE for each.                                        *)
(***************************************************************************)
EXTENDS Packets, SequenceTheorems, TLAPS

(* A unit of the stream. *)
AllUnits == [w : Nat, v : Int \cup Seq(Characters)]

-----------------------------------------------------------------------------
(* Powers of two. *)

OneBase(x) == 1
TwiceStep(x, n, before) == 2 * before
Powers == INSTANCE Recursion WITH base <- OneBase, step <- TwiceStep

LEMMA Power2Def ==
  /\ Power2[0] = 1
  /\ \A n \in Nat : Power2[n + 1] = 2 * Power2[n]
<1>1. \E f : f = [n \in Nat |-> IF n = 0 THEN OneBase(0) ELSE TwiceStep(0, n, f[n - 1])]
  BY Powers!ExistsOnNat
<1>2. Power2 = [n \in Nat |-> IF n = 0 THEN 1 ELSE 2 * Power2[n - 1]]
  BY <1>1, Zenon DEF Power2, OneBase, TwiceStep
<1> HIDE DEF Power2
<1>3. ASSUME NEW n \in Nat
      PROVE  Power2[n + 1] = 2 * Power2[n]
  <2>1. n + 1 \in Nat /\ n + 1 # 0 /\ (n + 1) - 1 = n
    OBVIOUS
  <2> QED BY <1>2, <2>1
<1> QED BY <1>2, <1>3

LEMMA Power2Type ==
  \A n \in Nat : Power2[n] \in Nat /\ Power2[n] > n
<1> DEFINE S == {n \in Nat : Power2[n] \in Nat /\ Power2[n] > n}
<1>1. 0 \in S
  BY Power2Def
<1>2. ASSUME NEW n \in Nat, n \in S PROVE n + 1 \in S
  BY <1>2, Power2Def
<1>3. Nat \subseteq S
  <2> HIDE DEF S
  <2> QED BY <1>1, <1>2, Powers!FromBelow
<1> QED BY <1>3

LEMMA Power2Sum ==
  ASSUME NEW a \in Nat, NEW b \in Nat
  PROVE  Power2[a + b] = Power2[a] * Power2[b]
<1> DEFINE S == {n \in Nat : Power2[a + n] = Power2[a] * Power2[n]}
<1>1. 0 \in S
  BY Power2Def, Power2Type
<1>2. ASSUME NEW n \in Nat, n \in S PROVE n + 1 \in S
  <2>1. Power2[a + (n + 1)] = 2 * Power2[a + n]
    <3>1. a + (n + 1) = (a + n) + 1 /\ a + n \in Nat
      OBVIOUS
    <3> QED BY <3>1, Power2Def
  <2>2. Power2[n + 1] = 2 * Power2[n]
    BY Power2Def
  <2>3. Power2[a] \in Nat /\ Power2[n] \in Nat /\ Power2[a + n] = Power2[a] * Power2[n]
    BY <1>2, Power2Type
  <2>4. Power2[a] * (2 * Power2[n]) = 2 * (Power2[a] * Power2[n])
    BY <2>3
  <2> QED BY <2>1, <2>2, <2>3, <2>4
<1>3. Nat \subseteq S
  <2> HIDE DEF S
  <2> QED BY <1>1, <1>2, Powers!FromBelow
<1> QED BY <1>3

LEMMA Power2Grows ==
  ASSUME NEW a \in Nat, NEW b \in Nat, a <= b
  PROVE  Power2[a] <= Power2[b]
<1>1. b - a \in Nat /\ a + (b - a) = b
  OBVIOUS
<1>2. Power2[b] = Power2[a] * Power2[b - a]
  BY <1>1, Power2Sum
<1>3. Power2[a] \in Nat /\ Power2[b - a] \in Nat /\ Power2[b - a] >= 1
  BY <1>1, Power2Type
<1>4. \A x, y \in Nat : y >= 1 => x <= x * y
  OBVIOUS
<1> QED BY <1>2, <1>3, <1>4

-----------------------------------------------------------------------------
(* VarUInt. *)

LEMMA Minimum ==
  ASSUME NEW S \in SUBSET Nat, S # {}
  PROVE  Min(S) \in S /\ \A k \in S : Min(S) <= k
BY Powers!LeastNumber, Zenon DEF Min

ZeroBase(x) == 0
GroupStep(x, n, before) == before + Power2[x[1] * (n - 1)] * (x[2][n].v % Power2[x[1]])
Groups == INSTANCE Recursion WITH base <- ZeroBase, step <- GroupStep
Summed(x, n) == CHOOSE f : f = [i \in 0 .. n |-> IF i = 0 THEN ZeroBase(x) ELSE GroupStep(x, i, f[i - 1])]

LEMMA AssembledStep ==
  ASSUME NEW g, NEW s
  PROVE  /\ Assembled(g, s, 0) = 0
         /\ \A n \in Nat : Assembled(g, s, n + 1) =
                             Assembled(g, s, n) + Power2[g * n] * (s[n + 1].v % Power2[g])
<1> DEFINE x == <<g, s>>
<1>0. x[1] = g /\ x[2] = s
  OBVIOUS
<1>1. \A n : Assembled(g, s, n) = Summed(x, n)[n]
  BY <1>0, Zenon DEF Assembled, Summed, ZeroBase, GroupStep
<1> HIDE DEF x
<1>2. \A n \in Nat : Groups!IsUpTo(Summed(x, n), x, n)
  BY Groups!Exists, Zenon DEF Summed, Groups!IsUpTo
<1>3. \A n \in Nat : /\ Summed(x, n)[0] = 0
                     /\ \A i \in 1 .. n : Summed(x, n)[i] = GroupStep(x, i, Summed(x, n)[i - 1])
  <2>1. ZeroBase(x) = 0
    BY DEF ZeroBase
  <2> QED BY <1>2, <2>1, Groups!Unfolds
<1>4. ASSUME NEW n \in Nat
      PROVE  Assembled(g, s, n + 1) = Assembled(g, s, n) + Power2[g * n] * (s[n + 1].v % Power2[g])
  <2>0. n + 1 \in Nat /\ n <= n + 1 /\ n + 1 \in 1 .. n + 1 /\ (n + 1) - 1 = n /\ n \in 0 .. n
    OBVIOUS
  <2>1. Summed(x, n)[n] = Summed(x, n + 1)[n]
    BY <2>0, <1>2, Groups!Agree
  <2>2. Summed(x, n + 1)[n + 1] = GroupStep(x, n + 1, Summed(x, n + 1)[n])
    BY <2>0, <1>3
  <2>3. GroupStep(x, n + 1, Summed(x, n)[n]) =
          Summed(x, n)[n] + Power2[g * n] * (s[n + 1].v % Power2[g])
    BY <2>0, <1>0, Zenon DEF GroupStep
  <2> QED BY <2>0, <2>1, <2>2, <2>3, <1>1
<1>5. Assembled(g, s, 0) = 0
  <2>1. 0 \in Nat
    OBVIOUS
  <2> QED BY <2>1, <1>1, <1>3
<1> QED BY <1>4, <1>5

(* The bytes of a number: all flagged but the last. *)
Group(g, x, i)   == (x \div Power2[g * (i - 1)]) % Power2[g]
Byte(g, n, x, i) == Group(g, x, i) + (IF i < n THEN Power2[g] ELSE 0)

(* The first k groups have been put together, what is above is missing. *)
PutTogether(g, s, x, k) ==
  /\ Assembled(g, s, k) \in Nat
  /\ Assembled(g, s, k) + Power2[g * k] * (x \div Power2[g * k]) = x

LEMMA VarUIntBytes ==
  ASSUME NEW g \in Nat \ {0}, NEW w \in Nat \ {0}, NEW x \in 0 .. Power2[w] - 1
  PROVE  \E n \in 1 .. w :
           /\ write_varuint(g, w, x) = [i \in 1 .. n |-> Unit(1, Byte(g, n, x, i))]
           /\ x < Power2[g * n] /\ g * (n - 1) < w
<1> DEFINE S == {k \in 1 .. w : x < Power2[g * k]}
           n == Min(S)
<1>1. x \in Nat /\ Power2[w] \in Nat /\ x < Power2[w]
  BY Power2Type
<1>2. w \in S
  <2>1. w <= g * w /\ g * w \in Nat /\ w \in 1 .. w
    OBVIOUS
  <2>2. Power2[w] <= Power2[g * w] /\ Power2[g * w] \in Nat
    BY <2>1, Power2Grows, Power2Type
  <2> QED BY <1>1, <2>1, <2>2
<1>3. n \in S /\ \A k \in S : n <= k
  <2>1. S \in SUBSET (1 .. w) /\ 1 .. w \in SUBSET Nat
    OBVIOUS
  <2> HIDE DEF S
  <2> QED BY <1>2, <2>1, Minimum
<1>4. write_varuint(g, w, x) = [i \in 1 .. n |-> Unit(1, Byte(g, n, x, i))]
  <2>1. DOMAIN [i \in 1 .. n |-> Byte(g, n, x, i)] = 1 .. n
    OBVIOUS
  <2>2. write_varuint(g, w, x) = Units(1, [i \in 1 .. n |-> Byte(g, n, x, i)])
    BY Zenon DEF write_varuint, Byte, Group
  <2> HIDE DEF n
  <2> QED BY <2>1, <2>2 DEF Units
<1>5. g * (n - 1) < w
  <2>1. n \in 1 .. w /\ (n # 1 => n - 1 \in 1 .. w) /\ ~ (n <= n - 1)
    BY <1>3
  <2>2. CASE n = 1
    <3>1. g * (1 - 1) = 0 /\ 0 < w
      OBVIOUS
    <3> HIDE DEF n
    <3> QED BY <2>2, <3>1
  <2>3. CASE n # 1
    <3>1. n - 1 \notin S
      BY <1>3, <2>1
    <3> HIDE DEF n
    <3>2. ~ (x < Power2[g * (n - 1)]) /\ n - 1 \in Nat
      BY <2>1, <2>3, <3>1
    <3>3. g * (n - 1) \in Nat
      BY <3>2
    <3>4. SUFFICES ASSUME w <= g * (n - 1) PROVE FALSE
      BY <3>3
    <3>5. Power2[w] <= Power2[g * (n - 1)] /\ Power2[g * (n - 1)] \in Nat
      BY <3>3, <3>4, Power2Grows, Power2Type
    <3> QED BY <1>1, <3>2, <3>5
  <2> QED BY <2>2, <2>3
<1> QED BY <1>3, <1>4, <1>5

LEMMA ByteValues ==
  ASSUME NEW g \in Nat \ {0}, NEW n \in Nat, NEW x \in Nat, NEW i \in 1 .. n
  PROVE  /\ Byte(g, n, x, i) \in Nat
         /\ Byte(g, n, x, i) % Power2[g] = Group(g, x, i)
         /\ Byte(g, n, x, i) < Power2[g] <=> i = n
<1>1. i - 1 \in Nat /\ g * (i - 1) \in Nat
  OBVIOUS
<1>2. Power2[g] \in Nat \ {0} /\ Power2[g * (i - 1)] \in Nat \ {0}
  BY <1>1, Power2Type
<1> DEFINE y == x \div Power2[g * (i - 1)]
<1>3. y \in Nat
  BY <1>2
<1>4. \A b \in Nat \ {0}, z \in Nat : /\ z % b \in 0 .. b - 1 /\ (z % b) % b = z % b
                                      /\ ((z % b) + b) % b = z % b
  OBVIOUS
<1> HIDE DEF y
<1>5. y % Power2[g] \in 0 .. Power2[g] - 1
  BY <1>2, <1>3, <1>4
<1>6. Byte(g, n, x, i) = (y % Power2[g]) + (IF i < n THEN Power2[g] ELSE 0)
  BY Zenon DEF Byte, Group, y
<1>7. CASE i < n
  <2>1. Byte(g, n, x, i) = (y % Power2[g]) + Power2[g] /\ i # n
    BY <1>6, <1>7
  <2>2. Byte(g, n, x, i) % Power2[g] = y % Power2[g]
    BY <2>1, <1>2, <1>3, <1>4
  <2>3. Byte(g, n, x, i) \in Nat /\ ~ (Byte(g, n, x, i) < Power2[g])
    BY <2>1, <1>2, <1>5
  <2> QED BY <2>1, <2>2, <2>3 DEF y, Group
<1>8. CASE i = n
  <2>1. Byte(g, n, x, i) = y % Power2[g]
    BY <1>5, <1>6, <1>8
  <2>2. (y % Power2[g]) % Power2[g] = y % Power2[g]
    BY <1>2, <1>3, <1>4
  <2> QED BY <2>1, <2>2, <1>2, <1>5, <1>8 DEF y, Group
<1> QED BY <1>7, <1>8

LEMMA Divided ==
  ASSUME NEW x \in Nat, NEW a \in Nat \ {0}, NEW b \in Nat \ {0}
  PROVE  x \div (a * b) = (x \div a) \div b
<1> DEFINE q == x \div a
           t == q \div b
           r == x % a
           u == q % b
<1>1. q \in Nat /\ r \in 0 .. a - 1 /\ x = a * q + r
  OBVIOUS
<1>2. t \in Nat /\ u \in 0 .. b - 1 /\ q = b * t + u
  <2> HIDE DEF q
  <2> QED BY <1>1
<1> HIDE DEF q, t, r, u
<1>3. a * b \in Nat \ {0} /\ a * u + r \in Nat /\ a * u + r < a * b
  <2>1. u <= b - 1 /\ r <= a - 1 /\ u \in Nat /\ r \in Nat
    BY <1>1, <1>2
  <2>2. a * u <= a * (b - 1) /\ a * u \in Nat
    BY <2>1
  <2>3. a * (b - 1) = a * b - a
    OBVIOUS
  <2>4. a * b \in Nat /\ a * b > 0
    OBVIOUS
  <2> QED BY <2>1, <2>2, <2>3, <2>4
<1>4. x = (a * b) * t + (a * u + r)
  <2>1. x = a * (b * t + u) + r
    BY <1>1, <1>2
  <2>2. a * (b * t + u) = (a * b) * t + a * u
    BY <1>2
  <2> QED BY <2>1, <2>2, <1>1, <1>2
<1>5. \A d \in Nat \ {0} : \A e \in 0 .. d - 1 : (d * t + e) \div d = t
  BY <1>2
<1>6. x \div (a * b) = t
  <2> DEFINE d == a * b
             e == a * u + r
  <2>1. d \in Nat \ {0} /\ e \in 0 .. d - 1 /\ x = d * t + e
    BY <1>3, <1>4
  <2> HIDE DEF d, e
  <2>2. x \div d = t
    BY <2>1, <1>5
  <2> QED BY <2>2 DEF d
<1> QED BY <1>6 DEF t, q

LEMMA Remainder ==
  ASSUME NEW p \in Nat, NEW y \in Nat, NEW b \in Nat \ {0}
  PROVE  p * y = p * (y % b) + (p * b) * (y \div b)
<1>1. y = b * (y \div b) + (y % b) /\ y \div b \in Nat /\ y % b \in Nat
  OBVIOUS
<1> DEFINE q == y \div b
           d == y % b
<1> HIDE DEF q, d
<1>2. p * (b * q + d) = p * d + (p * b) * q
  <2>1. q \in Nat /\ d \in Nat
    BY <1>1 DEF q, d
  <2> QED BY <2>1
<1>3. y = b * q + d
  BY <1>1 DEF q, d
<1> QED BY <1>2, <1>3 DEF q, d

(* Group by group the number is put together again. *)
LEMMA AssembledNumber ==
  ASSUME NEW g \in Nat \ {0}, NEW n \in Nat, NEW x \in Nat, NEW s,
         \A i \in 1 .. n : s[i].v = Byte(g, n, x, i)
  PROVE  \A k \in 0 .. n : PutTogether(g, s, x, k)
<1> DEFINE S == {k \in Nat : k <= n => /\ Assembled(g, s, k) \in Nat
                                       /\ Assembled(g, s, k) + Power2[g * k] * (x \div Power2[g * k]) = x}
<1>1. 0 \in S
  <2>1. g * 0 = 0 /\ x \div 1 = x
    OBVIOUS
  <2>2. Assembled(g, s, 0) = 0 /\ Power2[0] = 1
    BY AssembledStep, Power2Def
  <2> QED BY <2>1, <2>2
<1>2. ASSUME NEW k \in Nat, k \in S PROVE k + 1 \in S
  <2> SUFFICES ASSUME k + 1 <= n
               PROVE  /\ Assembled(g, s, k + 1) \in Nat
                      /\ Assembled(g, s, k + 1) + Power2[g * (k + 1)] * (x \div Power2[g * (k + 1)]) = x
    OBVIOUS
  <2> DEFINE a == Assembled(g, s, k)
             p == Power2[g * k]
             b == Power2[g]
             y == x \div p
  <2>1. a \in Nat /\ a + p * y = x
    BY <1>2
  <2>2. g * k \in Nat /\ k + 1 \in 1 .. n /\ (k + 1) - 1 = k /\ g * (k + 1) = g * k + g
    OBVIOUS
  <2>3. p \in Nat \ {0} /\ b \in Nat \ {0}
    BY <2>2, Power2Type
  <2>4. Power2[g * (k + 1)] = p * b
    BY <2>2, Power2Sum
  <2>5. s[k + 1].v % b = y % b
    <3>1. s[k + 1].v = Byte(g, n, x, k + 1)
      BY <2>2
    <3>2. Byte(g, n, x, k + 1) % Power2[g] = Group(g, x, k + 1)
      BY <2>2, ByteValues
    <3>3. s[k + 1].v % Power2[g] = (x \div Power2[g * k]) % Power2[g]
      BY <3>1, <3>2, <2>2, Zenon DEF Group
    <3> QED BY <3>3
  <2>6. Assembled(g, s, k + 1) = a + p * (y % b)
    BY <2>5, AssembledStep
  <2>7. y \in Nat
    BY <2>3
  <2>8. x \div (p * b) = y \div b
    BY <2>3, Divided
  <2> HIDE DEF a, p, b, y
  <2>9. y \div b \in Nat /\ y % b \in Nat
    BY <2>3, <2>7
  <2>11. p * y = p * (y % b) + (p * b) * (y \div b)
    BY <2>3, <2>7, Remainder
  <2>12. p * (y % b) \in Nat /\ (p * b) * (y \div b) \in Nat
    BY <2>3, <2>9
  <2>13. (a + p * (y % b)) + (p * b) * (y \div b) = x /\ a + p * (y % b) \in Nat
    BY <2>1, <2>11, <2>12
  <2> QED BY <2>4, <2>6, <2>8, <2>13
<1>3. Nat \subseteq S
  <2> HIDE DEF S
  <2> QED BY <1>1, <1>2, Powers!FromBelow
<1> QED BY <1>3 DEF PutTogether

(* Reading a VarUInt gives the number it was written from, whatever the    *)
(* groups and the word, and takes no unit behind it.                       *)
THEOREM VarUIntBack ==
  ASSUME NEW g \in Nat \ {0}, NEW w \in Nat \ {0}, NEW x \in 0 .. Power2[w] - 1,
         NEW rest \in Seq(AllUnits)
  PROVE  /\ write_varuint(g, w, x) \in Seq(AllUnits)
         /\ Len(write_varuint(g, w, x)) >= 1
         /\ read_varuint(g, w, write_varuint(g, w, x) \o rest) = Ok(x, rest)
<1>1. PICK n \in 1 .. w :
         /\ write_varuint(g, w, x) = [i \in 1 .. n |-> Unit(1, Byte(g, n, x, i))]
         /\ x < Power2[g * n] /\ g * (n - 1) < w
  BY VarUIntBytes
<1> DEFINE u == write_varuint(g, w, x)
           s == u \o rest
           last == {i \in DOMAIN s : s[i].w # 1 \/ s[i].v < Power2[g]}
<1>2. x \in Nat /\ n \in Nat /\ g * n \in Nat /\ Power2[g * n] \in Nat \ {0} /\ Power2[w] \in Nat \ {0}
      /\ x < Power2[w]
  <2>1. n \in Nat /\ g * n \in Nat
    OBVIOUS
  <2> QED BY <2>1, Power2Type
<1>3. \A i \in 1 .. n : Byte(g, n, x, i) \in Nat
  BY <1>2, ByteValues
<1>4. u \in Seq(AllUnits) /\ Len(u) = n
  <2>1. \A i \in 1 .. n : Unit(1, Byte(g, n, x, i)) \in AllUnits
    BY <1>3 DEF Unit, AllUnits
  <2> QED BY <1>1, <1>2, <2>1
<1>5. \A i \in 1 .. n : u[i].w = 1 /\ u[i].v = Byte(g, n, x, i)
  BY <1>1 DEF Unit
<1> HIDE DEF u
<1>6. /\ s \in Seq(AllUnits) /\ Len(s) = n + Len(rest) /\ Len(rest) \in Nat
      /\ DOMAIN s = 1 .. Len(s)
      /\ \A i \in 1 .. n : s[i] = u[i]
  BY <1>4
<1>7. SubSeq(s, n + 1, Len(s)) = rest
  BY <1>4, <1>6
<1> HIDE DEF s
<1>8. last \in SUBSET Nat /\ n \in last /\ \A i \in last : n <= i
  <2>1. last \in SUBSET Nat
    BY <1>6
  <2>2. n \in last
    <3>1. n \in 1 .. n /\ n \in DOMAIN s
      BY <1>2, <1>6
    <3>2. Byte(g, n, x, n) < Power2[g]
      BY <3>1, <1>2, ByteValues
    <3>3. s[n].v = Byte(g, n, x, n)
      BY <3>1, <1>5, <1>6
    <3> QED BY <3>1, <3>2, <3>3
  <2>3. ASSUME NEW i \in last, ~ (n <= i) PROVE FALSE
    <3>1. i \in 1 .. n /\ i # n
      BY <2>3, <1>6
    <3>2. ~ (Byte(g, n, x, i) < Power2[g])
      BY <3>1, <1>2, ByteValues
    <3>3. s[i].w = 1 /\ s[i].v = Byte(g, n, x, i)
      BY <3>1, <1>5, <1>6
    <3> QED BY <3>2, <3>3
  <2> QED BY <2>1, <2>2, <2>3
<1>9. Min(last) = n /\ last # {}
  <2> HIDE DEF last
  <2>1. Min(last) \in last /\ Min(last) <= n /\ Min(last) \in Nat
    BY <1>8, Minimum
  <2>2. n <= Min(last)
    BY <2>1, <1>8
  <2> QED BY <1>2, <1>8, <2>1, <2>2
<1>10. Assembled(g, s, n) % Power2[w] = x
  <2>1. \A i \in 1 .. n : s[i].v = Byte(g, n, x, i)
    BY <1>5, <1>6
  <2>2. /\ Assembled(g, s, n) \in Nat
        /\ Assembled(g, s, n) + Power2[g * n] * (x \div Power2[g * n]) = x
    <3>1. n \in 0 .. n
      BY <1>2
    <3> HIDE DEF s
    <3>2. \A k \in 0 .. n : PutTogether(g, s, x, k)
      BY <2>1, <1>2, AssembledNumber
    <3> QED BY <3>1, <3>2, Zenon DEF PutTogether
  <2>3. \A p \in Nat \ {0} : x < p => x \div p = 0 /\ x % p = x
    BY <1>2
  <2>4. x \div Power2[g * n] = 0 /\ x % Power2[w] = x
    BY <2>3, <1>1, <1>2
  <2> QED BY <2>2, <2>4, <1>2
<1>11. s[n].w = 1 /\ ~ (g * (n - 1) >= w)
  <2>1. n \in 1 .. n /\ g * (n - 1) \in Nat
    BY <1>2
  <2>2. s[n].w = 1
    BY <2>1, <1>5, <1>6
  <2>3. ~ (g * (n - 1) >= w)
    BY <2>1, <1>1
  <2> QED BY <2>2, <2>3
<1>12. read_varuint(g, w, s) = Ok(Assembled(g, s, n) % Power2[w], SubSeq(s, n + 1, Len(s)))
  <2> DEFINE m == Min(last)
  <2>1. read_varuint(g, w, s) =
          IF last = {} THEN Stop("eof")
          ELSE IF s[m].w # 1 THEN Stop("misaligned")
          ELSE IF g * (m - 1) >= w THEN Stop("panic")
          ELSE Ok(Assembled(g, s, m) % Power2[w], SubSeq(s, m + 1, Len(s)))
    BY Zenon DEF read_varuint
  <2>2. m = n /\ last # {}
    BY <1>9
  <2> HIDE DEF last, m
  <2> QED BY <2>1, <2>2, <1>11, Zenon
<1>13. read_varuint(g, w, s) = Ok(x, rest)
  BY <1>7, <1>10, <1>12
<1> QED BY <1>4, <1>13, <1>2 DEF s, u

-----------------------------------------------------------------------------
(* What is written in parts. *)

NothingBase(parts) == Written(<<>>)
NextPart(parts, n, before) == Followed(before, parts[n])
Parts == INSTANCE Recursion WITH base <- NothingBase, step <- NextPart
Joined(parts) == CHOOSE f : f = [n \in 0 .. Len(parts) |->
                   IF n = 0 THEN NothingBase(parts) ELSE NextPart(parts, n, f[n - 1])]

LEMMA JoinedParts ==
  ASSUME NEW parts, Len(parts) \in Nat
  PROVE  /\ AllWritten(parts) = Joined(parts)[Len(parts)]
         /\ Joined(parts)[0] = Written(<<>>)
         /\ \A n \in 1 .. Len(parts) : Joined(parts)[n] = Followed(Joined(parts)[n - 1], parts[n])
<1>1. \E f : f = [n \in 0 .. Len(parts) |->
                    IF n = 0 THEN NothingBase(parts) ELSE NextPart(parts, n, f[n - 1])]
  BY Parts!Exists
<1>2. Parts!IsUpTo(Joined(parts), parts, Len(parts))
  BY <1>1, Zenon DEF Joined, Parts!IsUpTo
<1>3. AllWritten(parts) = Joined(parts)[Len(parts)]
  BY Zenon DEF AllWritten, Joined, NothingBase, NextPart
<1>4. /\ Joined(parts)[0] = NothingBase(parts)
      /\ \A n \in 1 .. Len(parts) : Joined(parts)[n] = NextPart(parts, n, Joined(parts)[n - 1])
  BY <1>2, Parts!Unfolds
<1> QED BY <1>3, <1>4, Zenon DEF NothingBase, NextPart

LEMMA TwoFollow ==
  ASSUME NEW p, NEW q
  PROVE  Followed(Written(p), Written(q)) = Written(p \o q)
BY DEF Followed, Written

LEMMA PairWritten ==
  ASSUME NEW p \in Seq(AllUnits), NEW q \in Seq(AllUnits)
  PROVE  AllWritten(<<Written(p), Written(q)>>) = Written(p \o q)
<1> DEFINE parts == <<Written(p), Written(q)>>
           j == Joined(parts)
<1>1. Len(parts) = 2 /\ parts[1] = Written(p) /\ parts[2] = Written(q)
  OBVIOUS
<1>2. /\ AllWritten(parts) = j[2] /\ j[0] = Written(<<>>)
      /\ j[1] = Followed(j[0], Written(p)) /\ j[2] = Followed(j[1], Written(q))
  <2>1. Len(parts) \in Nat /\ 1 \in 1 .. Len(parts) /\ 2 \in 1 .. Len(parts) /\ 1 - 1 = 0 /\ 2 - 1 = 1
    BY <1>1
  <2> HIDE DEF parts
  <2>2. /\ AllWritten(parts) = Joined(parts)[Len(parts)]
        /\ Joined(parts)[0] = Written(<<>>)
        /\ \A n \in 1 .. Len(parts) : Joined(parts)[n] = Followed(Joined(parts)[n - 1], parts[n])
    BY <2>1, JoinedParts
  <2> QED BY <1>1, <2>1, <2>2
<1> HIDE DEF parts, j
<1>3. j[1] = Written(p)
  <2>1. j[1] = Written(<<>> \o p)
    BY <1>2, TwoFollow, Zenon
  <2> QED BY <2>1, ConcatEmptySeq
<1>4. j[2] = Written(p \o q)
  BY <1>2, <1>3, TwoFollow, Zenon
<1> QED BY <1>2, <1>4 DEF parts

LEMMA TripleWritten ==
  ASSUME NEW p \in Seq(AllUnits), NEW q \in Seq(AllUnits), NEW r \in Seq(AllUnits)
  PROVE  AllWritten(<<Written(p), Written(q), Written(r)>>) = Written(p \o (q \o r))
<1> DEFINE parts == <<Written(p), Written(q), Written(r)>>
           j == Joined(parts)
<1>1. Len(parts) = 3 /\ parts[1] = Written(p) /\ parts[2] = Written(q) /\ parts[3] = Written(r)
  OBVIOUS
<1>2. /\ AllWritten(parts) = j[3] /\ j[0] = Written(<<>>)
      /\ j[1] = Followed(j[0], Written(p)) /\ j[2] = Followed(j[1], Written(q))
      /\ j[3] = Followed(j[2], Written(r))
  <2>1. Len(parts) \in Nat /\ 1 \in 1 .. Len(parts) /\ 2 \in 1 .. Len(parts) /\ 3 \in 1 .. Len(parts)
        /\ 1 - 1 = 0 /\ 2 - 1 = 1 /\ 3 - 1 = 2
    BY <1>1
  <2> HIDE DEF parts
  <2>2. /\ AllWritten(parts) = Joined(parts)[Len(parts)]
        /\ Joined(parts)[0] = Written(<<>>)
        /\ \A n \in 1 .. Len(parts) : Joined(parts)[n] = Followed(Joined(parts)[n - 1], parts[n])
    BY <2>1, JoinedParts
  <2> QED BY <1>1, <2>1, <2>2
<1> HIDE DEF parts, j
<1>3. j[1] = Written(p)
  <2>1. j[1] = Written(<<>> \o p)
    BY <1>2, TwoFollow, Zenon
  <2> QED BY <2>1, ConcatEmptySeq
<1>4. j[3] = Written((p \o q) \o r)
  BY <1>2, <1>3, TwoFollow, Zenon
<1>5. (p \o q) \o r = p \o (q \o r)
  BY ConcatAssociative
<1> QED BY <1>2, <1>4, <1>5 DEF parts

-----------------------------------------------------------------------------
(* Numbers, units and strings are read back in front of what follows. *)

Bytes(x) == write_varuint(GroupBits, WordBits, x)

LEMMA NumberBack ==
  ASSUME NEW x \in Words
  PROVE  /\ Number(x) = Written(Bytes(x))
         /\ Bytes(x) \in Seq(AllUnits) /\ Len(Bytes(x)) >= 1
         /\ \A rest \in Seq(AllUnits) : TakeNumber(Bytes(x) \o rest) = Ok(x, rest)
<1>1. GroupBits \in Nat \ {0} /\ WordBits \in Nat \ {0} /\ x \in 0 .. Power2[WordBits] - 1
  BY NumbersAssumption DEF Words
<1>2. <<>> \in Seq(AllUnits)
  OBVIOUS
<1> QED BY <1>1, <1>2, VarUIntBack DEF Number, TakeNumber, Bytes

LEMMA SmallWords ==
  0 .. 7 \subseteq Words
<1>1. 3 \in Nat /\ Power2[3] <= Power2[WordBits] /\ Power2[WordBits] \in Nat
  BY NumbersAssumption, Power2Grows, Power2Type
<1>2. Power2[3] = 8
  <2>1. Power2[0 + 1] = 2 * Power2[0] /\ Power2[1 + 1] = 2 * Power2[1] /\ Power2[2 + 1] = 2 * Power2[2]
    BY Power2Def
  <2> QED BY <2>1, Power2Def
<1> QED BY <1>1, <1>2 DEF Words

LEMMA UnitsBack ==
  ASSUME NEW w \in Nat, NEW vs \in Seq(Int)
  PROVE  /\ Units(w, vs) \in Seq(AllUnits)
         /\ \A rest \in Seq(AllUnits) : Read(Len(vs), w, Units(w, vs) \o rest) = Ok(vs, rest)
<1> DEFINE u == Units(w, vs)
           n == Len(vs)
<1>1. n \in Nat /\ DOMAIN vs = 1 .. n /\ \A i \in 1 .. n : vs[i] \in Int
  OBVIOUS
<1>2. u = [i \in 1 .. n |-> [w |-> w, v |-> vs[i]]]
  BY <1>1 DEF Units, Unit
<1>3. \A i \in 1 .. n : [w |-> w, v |-> vs[i]] \in AllUnits
  BY <1>1 DEF AllUnits
<1>4. u \in Seq(AllUnits) /\ Len(u) = n
  <2> HIDE DEF n
  <2> QED BY <1>1, <1>2, <1>3
<1>5. \A i \in 1 .. n : u[i].w = w /\ u[i].v = vs[i]
  BY <1>2
<1> HIDE DEF u, n
<1>6. ASSUME NEW rest \in Seq(AllUnits)
      PROVE  Read(n, w, u \o rest) = Ok(vs, rest)
  <2> DEFINE s == u \o rest
  <2>1. s \in Seq(AllUnits) /\ Len(s) = n + Len(rest) /\ Len(rest) \in Nat
    BY <1>4
  <2>2. \A i \in 1 .. n : s[i] = u[i]
    BY <1>4
  <2>3. SubSeq(s, n + 1, Len(s)) = rest
    BY <1>4, <2>1
  <2> HIDE DEF s
  <2>4. \A i \in 1 .. n : s[i].w = w /\ s[i].v = vs[i]
    BY <1>5, <2>2
  <2>5. [i \in 1 .. n |-> s[i].v] = vs
    <3>1. [i \in 1 .. n |-> s[i].v] = [i \in 1 .. n |-> vs[i]]
      BY <2>4
    <3>2. vs = [i \in 1 .. n |-> vs[i]]
      BY DEF n
    <3> QED BY <3>1, <3>2
  <2>6. ~ (Len(s) < n) /\ ~ \E i \in 1 .. n : s[i].w \notin {w, AnyWidth}
    BY <1>1, <2>1, <2>4
  <2>7. Read(n, w, s) = Ok(vs, rest)
    BY <2>3, <2>5, <2>6, Zenon DEF Read
  <2> QED BY <2>7 DEF s
<1> QED BY <1>4, <1>6 DEF u, n

LEMMA UnitBack ==
  ASSUME NEW w \in Nat, NEW v \in Int \cup Seq(Characters)
  PROVE  /\ <<Unit(w, v)>> \in Seq(AllUnits) /\ Len(<<Unit(w, v)>>) = 1
         /\ \A rest \in Seq(AllUnits) : Read1(w, <<Unit(w, v)>> \o rest) = Ok(v, rest)
<1> DEFINE e == Unit(w, v)
<1>1. e \in AllUnits /\ e.w = w /\ e.v = v
  BY DEF Unit, AllUnits
<1> HIDE DEF e
<1>2. ASSUME NEW rest \in Seq(AllUnits)
      PROVE  Read1(w, <<e>> \o rest) = Ok(v, rest)
  <2> DEFINE s == <<e>> \o rest
  <2>1. s \in Seq(AllUnits) /\ Len(s) = 1 + Len(rest) /\ Len(rest) \in Nat /\ s[1] = e
    BY <1>1
  <2>2. SubSeq(s, 1 + 1, Len(s)) = rest
    BY <1>1, <2>1
  <2> HIDE DEF s
  <2>3. ~ (Len(s) < 1) /\ ~ \E i \in 1 .. 1 : s[i].w \notin {w, AnyWidth}
    BY <1>1, <2>1
  <2>4. Read(1, w, s) = Ok([i \in 1 .. 1 |-> s[i].v], rest)
    BY <2>2, <2>3, Zenon DEF Read
  <2>5. [i \in 1 .. 1 |-> s[i].v][1] = v
    BY <1>1, <2>1
  <2>6. Read1(w, s) = Ok(v, rest)
    BY <2>4, <2>5 DEF Read1, Then, Ok
  <2> QED BY <2>6 DEF s
<1> QED BY <1>1, <1>2 DEF e

Spelled(value) == Bytes(Len(value)) \o (IF value = <<>> THEN <<>> ELSE <<Unit(Text, value)>>)

LEMMA StringBack ==
  ASSUME NEW value \in Strings
  PROVE  /\ write_string(value) = Written(Spelled(value))
         /\ Spelled(value) \in Seq(AllUnits) /\ Len(Spelled(value)) >= 1
         /\ \A rest \in Seq(AllUnits) : read_string(Spelled(value) \o rest) = Ok(value, rest)
<1> DEFINE n == Len(value)
           a == Bytes(n)
           b == IF value = <<>> THEN <<>> ELSE <<Unit(Text, value)>>
<1>1. value \in Seq(Characters) /\ n \in Words /\ n \in Nat /\ (n = 0 <=> value = <<>>)
  BY DEF Strings
<1>2. Text \in Nat
  BY DEF Text
<1>3. b \in Seq(AllUnits)
  <2>1. CASE value = <<>>
    BY <2>1
  <2>2. CASE value # <<>>
    <3>1. b = <<Unit(Text, value)>> /\ value \in Int \cup Seq(Characters)
      BY <1>1, <2>2
    <3> HIDE DEF b
    <3> QED BY <3>1, <1>2, UnitBack
  <2> QED BY <2>1, <2>2
<1> HIDE DEF b, n
<1>4. /\ Number(n) = Written(a)
      /\ a \in Seq(AllUnits) /\ Len(a) >= 1
      /\ \A rest \in Seq(AllUnits) : TakeNumber(a \o rest) = Ok(n, rest)
  BY <1>1, NumberBack
<1>5. write_string(value) = Followed(Number(n), Written(b))
  BY DEF write_string, n, b
<1>6. Spelled(value) = a \o b
  BY DEF Spelled, n, b
<1> HIDE DEF a
<1>7. write_string(value) = Written(a \o b)
  BY <1>4, <1>5, TwoFollow, Zenon
<1>8. a \o b \in Seq(AllUnits) /\ Len(a \o b) >= 1
  BY <1>3, <1>4
<1>9. ASSUME NEW rest \in Seq(AllUnits)
      PROVE  read_string((a \o b) \o rest) = Ok(value, rest)
  <2> DEFINE at == b \o rest
  <2>1. (a \o b) \o rest = a \o at /\ at \in Seq(AllUnits)
    BY <1>3, <1>4, ConcatAssociative
  <2>2. value = <<>> => at = rest
    BY DEF b
  <2>3. value # <<>> => Read1(Text, at) = Ok(value, rest)
    BY <1>1, <1>2, UnitBack DEF b
  <2> HIDE DEF at
  <2>4. TakeNumber(a \o at) = Ok(n, at)
    BY <1>4, <2>1
  <2>5. Len(value) = n
    BY DEF n
  <2>6. read_string(a \o at) = Ok(value, rest)
    <3>1. CASE value = <<>>
      BY <1>1, <2>2, <2>4, <3>1 DEF read_string, Then, Ok
    <3>2. CASE value # <<>>
      BY <1>1, <2>3, <2>4, <2>5, <3>2 DEF read_string, Then, Ok
    <3> QED BY <3>1, <3>2
  <2> QED BY <2>1, <2>6
<1> QED BY <1>6, <1>7, <1>8, <1>9

-----------------------------------------------------------------------------
(* A field that has been written one way is read that way as what it is    *)
(* meant to say, whatever follows.                                         *)

Undone(as, v, meant) ==
  \E u \in Seq(AllUnits) : /\ Put(as, v) = Written(u)
                           /\ \A rest \in Seq(AllUnits) : Take(as, u \o rest) = Ok(meant, rest)

(* What is done with a value that has been read. *)
LEMMA Readings ==
  /\ \A v, rest : Some(Ok(v, rest)) = Ok(<<v>>, rest)
  /\ \A v \in 0 .. 1 : \A rest : Bit(Ok(v, rest)) = Ok(v, rest)
<1>1. \A v, rest : Some(Ok(v, rest)) = Ok(<<v>>, rest)
  BY DEF Some, Then, Ok
<1>2. \A v, rest : Bit(Ok(v, rest)) = Ok(IF v = 0 THEN 0 ELSE 1, rest)
  BY DEF Bit, Then, Ok
<1> QED BY <1>1, <1>2

LEMMA UnitFields ==
  /\ \A v \in 0 .. 1 : Undone("bool", v, v)
  /\ \A v \in 0 .. 2 : Undone("kind", v, v)
  /\ Undone("interface", 1, 1)
  /\ \A v \in Int : Undone("i32", v, v)
  /\ \A v \in Int : Undone("i64?", <<v>>, <<v>>)
  /\ \A v \in 0 .. 1 : Undone("bool or 0", <<v>>, <<v>>)
  /\ Undone("bool or 0", Absent, <<0>>)
  /\ \A v : Undone("trace", v, 0) /\ Undone("jwt", v, 0)
<1> DEFINE U(w, v) == <<Unit(w, v)>>
<1>1. \A w \in Nat, v \in Int :
        /\ U(w, v) \in Seq(AllUnits)
        /\ \A rest \in Seq(AllUnits) : Read1(w, U(w, v) \o rest) = Ok(v, rest)
  BY UnitBack
<1>2. \A w, v : <<Unit(w, v)>> = U(w, v)
  OBVIOUS
<1> HIDE DEF U
<1>3. ASSUME NEW v \in 0 .. 1 PROVE Undone("bool", v, v)
  <2>1. Put("bool", v) = Written(U(1, v))
    BY <1>2 DEF Put, Written
  <2>2. \A rest \in Seq(AllUnits) : Take("bool", U(1, v) \o rest) = Ok(v, rest)
    <3>1. \A s : Take("bool", s) = Bit(Read1(1, s))
      BY DEF Take
    <3>2. v \in Int /\ 1 \in Nat
      OBVIOUS
    <3>3. \A rest \in Seq(AllUnits) : Read1(1, U(1, v) \o rest) = Ok(v, rest)
      BY <1>1, <3>2, Zenon
    <3>4. \A rest : Bit(Ok(v, rest)) = Ok(v, rest)
      BY Readings
    <3> QED BY <3>1, <3>3, <3>4, Zenon
  <2> QED BY <1>1, <2>1, <2>2 DEF Undone
<1>4. ASSUME NEW v \in 0 .. 2 PROVE Undone("kind", v, v)
  <2>1. Put("kind", v) = Written(U(1, v))
    BY <1>2 DEF Put, Written
  <2>2. \A rest \in Seq(AllUnits) : Take("kind", U(1, v) \o rest) = Ok(v, rest)
    <3>1. \A s, rest : Read1(1, s) = Ok(v, rest) => Take("kind", s) = Ok(v, rest)
      BY DEF Take, Then, ThenIf, Ok
    <3>2. \A rest \in Seq(AllUnits) : Read1(1, U(1, v) \o rest) = Ok(v, rest)
      BY <1>1
    <3> QED BY <3>1, <3>2, Zenon
  <2> QED BY <1>1, <2>1, <2>2 DEF Undone
<1>5. Undone("interface", 1, 1)
  <2>1. Put("interface", 1) = Written(U(1, 1))
    BY <1>2 DEF Put, Written
  <2>2. \A rest \in Seq(AllUnits) : Take("interface", U(1, 1) \o rest) = Ok(1, rest)
    <3>1. \A s, rest : Read1(1, s) = Ok(1, rest) => Take("interface", s) = Ok(1, rest)
      BY DEF Take, Then, ThenIf, Ok
    <3>2. \A rest \in Seq(AllUnits) : Read1(1, U(1, 1) \o rest) = Ok(1, rest)
      BY <1>1
    <3> QED BY <3>1, <3>2, Zenon
  <2> QED BY <1>1, <2>1, <2>2 DEF Undone
<1>6. ASSUME NEW v \in Int PROVE Undone("i32", v, v)
  <2>1. Put("i32", v) = Written(U(4, v))
    BY <1>2 DEF Put
  <2>2. \A s : Take("i32", s) = Read1(4, s)
    BY DEF Take
  <2> QED BY <1>1, <2>1, <2>2 DEF Undone
<1>7. ASSUME NEW v \in Int PROVE Undone("i64?", <<v>>, <<v>>)
  <2>1. Put("i64?", <<v>>) = Written(U(8, v))
    BY <1>2 DEF Put, PutGiven, Absent
  <2>2. \A s : Take("i64?", s) = Some(Read1(8, s))
    BY DEF Take
  <2>3. \A rest \in Seq(AllUnits) : Take("i64?", U(8, v) \o rest) = Ok(<<v>>, rest)
    <3>1. 8 \in Nat
      OBVIOUS
    <3>2. ASSUME NEW rest \in Seq(AllUnits) PROVE Take("i64?", U(8, v) \o rest) = Ok(<<v>>, rest)
      <4>1. Read1(8, U(8, v) \o rest) = Ok(v, rest)
        BY <3>1, <1>1, Zenon
      <4>2. Some(Ok(v, rest)) = Ok(<<v>>, rest)
        BY Readings
      <4> QED BY <4>1, <4>2, <2>2
    <3> QED BY <3>2
  <2> QED BY <1>1, <2>1, <2>3 DEF Undone
<1>8. ASSUME NEW v \in 0 .. 1 PROVE Undone("bool or 0", <<v>>, <<v>>) /\ Undone("bool or 0", Absent, <<0>>)
  <2>1. Put("bool or 0", <<v>>) = Written(U(1, v)) /\ Put("bool or 0", Absent) = Written(U(1, 0))
    BY <1>2 DEF Put, Absent, OrElse
  <2>2. \A s : Take("bool or 0", s) = Some(Bit(Read1(1, s)))
    BY DEF Take
  <2>3. \A x \in 0 .. 1 : \A rest \in Seq(AllUnits) : Take("bool or 0", U(1, x) \o rest) = Ok(<<x>>, rest)
    <3>1. 1 \in Nat /\ 0 .. 1 \subseteq Int
      OBVIOUS
    <3>2. ASSUME NEW x \in 0 .. 1, NEW rest \in Seq(AllUnits)
          PROVE  Take("bool or 0", U(1, x) \o rest) = Ok(<<x>>, rest)
      <4>1. Read1(1, U(1, x) \o rest) = Ok(x, rest)
        BY <3>1, <1>1, Zenon
      <4>2. Bit(Ok(x, rest)) = Ok(x, rest) /\ Some(Ok(x, rest)) = Ok(<<x>>, rest)
        BY Readings
      <4> QED BY <4>1, <4>2, <2>2
    <3> QED BY <3>2
  <2>4. 1 \in Nat /\ 0 \in Int /\ v \in Int /\ 0 \in 0 .. 1
    OBVIOUS
  <2> QED BY <1>1, <2>1, <2>3, <2>4, Zenon DEF Undone
<1>9. ASSUME NEW v PROVE Undone("trace", v, 0) /\ Undone("jwt", v, 0)
  <2>1. Put("trace", v) = Written(U(1, 0)) /\ Put("jwt", v) = Written(U(1, 0))
    BY <1>2 DEF Put
  <2>2. \A s, rest : Read1(1, s) = Ok(0, rest) => Take("trace", s) = Ok(0, rest) /\ Take("jwt", s) = Ok(0, rest)
    BY DEF Take, Then, Ok
  <2>3. 1 \in Nat /\ 0 \in Int
    OBVIOUS
  <2>4. /\ U(1, 0) \in Seq(AllUnits)
        /\ \A rest \in Seq(AllUnits) : Read1(1, U(1, 0) \o rest) = Ok(0, rest)
    BY <1>1, <2>3, Zenon
  <2>5. Undone("trace", v, 0)
    BY <2>1, <2>2, <2>4, Zenon DEF Undone
  <2>6. Undone("jwt", v, 0)
    BY <2>1, <2>2, <2>4, Zenon DEF Undone
  <2> QED BY <2>5, <2>6
<1>10. 0 \in 0 .. 1
  OBVIOUS
<1> QED BY <1>3, <1>4, <1>5, <1>6, <1>7, <1>8, <1>9, <1>10, Zenon

LEMMA NumberWay ==
  ASSUME NEW as, NEW v, NEW meant, NEW x \in Words, Put(as, v) = Number(x),
         \A s, rest : TakeNumber(s) = Ok(x, rest) => Take(as, s) = Ok(meant, rest)
  PROVE  Undone(as, v, meant)
<1>1. /\ Number(x) = Written(Bytes(x)) /\ Bytes(x) \in Seq(AllUnits)
      /\ \A rest \in Seq(AllUnits) : TakeNumber(Bytes(x) \o rest) = Ok(x, rest)
  BY NumberBack, Zenon
<1>2. ASSUME NEW rest \in Seq(AllUnits) PROVE Take(as, Bytes(x) \o rest) = Ok(meant, rest)
  BY <1>1, Zenon
<1>3. Put(as, v) = Written(Bytes(x))
  BY <1>1, Zenon
<1> QED BY <1>1, <1>2, <1>3, Zenon DEF Undone

LEMMA NumberFields ==
  /\ \A v \in Words : /\ Undone("varuint", v, v)
                      /\ Undone("varuint?", <<v>>, <<v>>) /\ Undone("varuint or 0", <<v>>, <<v>>)
  /\ \A v \in 0 .. 1 : Undone("flag", v, v) /\ Undone("flag?", <<v>>, <<v>>)
  /\ \A v \in 0 .. 2 : Undone("stage", v, v)
  /\ Undone("varuint or 0", Absent, <<0>>)
<1>2. 0 \in Words /\ 0 .. 1 \subseteq Words /\ 0 .. 2 \subseteq Words
  BY SmallWords
<1>3. ASSUME NEW v \in Words PROVE Undone("varuint", v, v)
  <2>1. Put("varuint", v) = Number(v) /\ \A s : Take("varuint", s) = TakeNumber(s)
    BY DEF Put, Take
  <2> QED BY <2>1, NumberWay, Zenon
<1>4. ASSUME NEW v \in Words
      PROVE  Undone("varuint?", <<v>>, <<v>>) /\ Undone("varuint or 0", <<v>>, <<v>>)
  <2>1. /\ Put("varuint?", <<v>>) = Number(v) /\ Put("varuint or 0", <<v>>) = Number(v)
        /\ \A s, rest : TakeNumber(s) = Ok(v, rest) =>
             Take("varuint?", s) = Ok(<<v>>, rest) /\ Take("varuint or 0", s) = Ok(<<v>>, rest)
    BY DEF Put, PutGiven, Take, OrElse, Absent, Some, Then, Ok
  <2>2. Undone("varuint?", <<v>>, <<v>>)
    BY <2>1, NumberWay, Zenon
  <2>3. Undone("varuint or 0", <<v>>, <<v>>)
    BY <2>1, NumberWay, Zenon
  <2> QED BY <2>2, <2>3
<1>5. ASSUME NEW v \in 0 .. 1 PROVE Undone("flag", v, v) /\ Undone("flag?", <<v>>, <<v>>)
  <2>1. Put("flag", v) = Number(v) /\ Put("flag?", <<v>>) = Number(v) /\ v \in Words
    BY <1>2 DEF Put, PutGiven, Absent
  <2>2. \A s, rest : TakeNumber(s) = Ok(v, rest) =>
             Take("flag", s) = Ok(v, rest) /\ Take("flag?", s) = Ok(<<v>>, rest)
    BY DEF Take, Some, Bit, Then, Ok
  <2>3. Undone("flag", v, v)
    BY <2>1, <2>2, NumberWay, Zenon
  <2>4. Undone("flag?", <<v>>, <<v>>)
    BY <2>1, <2>2, NumberWay, Zenon
  <2> QED BY <2>3, <2>4
<1>6. ASSUME NEW v \in 0 .. 2 PROVE Undone("stage", v, v)
  <2>1. /\ Put("stage", v) = Number(v) /\ v \in Words
        /\ \A s, rest : TakeNumber(s) = Ok(v, rest) => Take("stage", s) = Ok(v, rest)
    BY <1>2 DEF Put, Take, Then, ThenIf, Ok
  <2> QED BY <2>1, NumberWay, Zenon
<1>7. Undone("varuint or 0", Absent, <<0>>)
  <2>1. /\ Put("varuint or 0", Absent) = Number(0)
        /\ \A s, rest : TakeNumber(s) = Ok(0, rest) => Take("varuint or 0", s) = Ok(<<0>>, rest)
    BY DEF Put, Take, OrElse, Absent, Some, Then, Ok
  <2> QED BY <1>2, <2>1, NumberWay, Zenon
<1> QED BY <1>3, <1>4, <1>5, <1>6, <1>7, Zenon

LEMMA StringWay ==
  ASSUME NEW as, NEW v, NEW meant, NEW x \in Strings, Put(as, v) = write_string(x),
         \A s, rest : read_string(s) = Ok(x, rest) => Take(as, s) = Ok(meant, rest)
  PROVE  Undone(as, v, meant)
<1>1. /\ write_string(x) = Written(Spelled(x)) /\ Spelled(x) \in Seq(AllUnits)
      /\ \A rest \in Seq(AllUnits) : read_string(Spelled(x) \o rest) = Ok(x, rest)
  BY StringBack, Zenon
<1>2. ASSUME NEW rest \in Seq(AllUnits) PROVE Take(as, Spelled(x) \o rest) = Ok(meant, rest)
  BY <1>1, Zenon
<1>3. Put(as, v) = Written(Spelled(x))
  BY <1>1, Zenon
<1> QED BY <1>1, <1>2, <1>3, Zenon DEF Undone

LEMMA StringFields ==
  /\ \A v \in Strings : Undone("string", v, v) /\ Undone("string?", <<v>>, <<v>>)
  /\ \A v : Undone("roles", v, <<"0">>)
<1>2. <<"0">> \in Strings
  <2>1. "0" \in Characters /\ 1 \in Words
    BY PacketsAssumption, SmallWords
  <2>2. <<"0">> \in Seq(Characters) /\ Len(<<"0">>) = 1
    BY <2>1
  <2> QED BY <2>1, <2>2 DEF Strings
<1>3. ASSUME NEW v \in Strings PROVE Undone("string", v, v) /\ Undone("string?", <<v>>, <<v>>)
  <2>1. /\ Put("string", v) = write_string(v) /\ \A s : Take("string", s) = read_string(s)
        /\ Put("string?", <<v>>) = write_string(v)
        /\ \A s, rest : read_string(s) = Ok(v, rest) => Take("string?", s) = Ok(<<v>>, rest)
    BY DEF Put, PutGiven, Take, Absent, Some, Then, Ok
  <2>2. Undone("string", v, v)
    BY <2>1, StringWay, Zenon
  <2>3. Undone("string?", <<v>>, <<v>>)
    BY <2>1, StringWay, Zenon
  <2> QED BY <2>2, <2>3
<1>4. ASSUME NEW v PROVE Undone("roles", v, <<"0">>)
  <2>1. Put("roles", v) = write_string(<<"0">>) /\ \A s : Take("roles", s) = read_string(s)
    BY DEF Put, Take
  <2> QED BY <1>2, <2>1, StringWay, Zenon
<1> QED BY <1>3, <1>4, Zenon

LEMMA Associative ==
  ASSUME NEW S
  PROVE  \A a, b, c \in Seq(S) : a \o b \in Seq(S) /\ (a \o b) \o c = a \o (b \o c)
<1>1. ASSUME NEW a \in Seq(S), NEW b \in Seq(S), NEW c \in Seq(S)
      PROVE  (a \o b) \o c = a \o (b \o c)
  BY ConcatAssociative
<1>2. \A a, b \in Seq(S) : a \o b \in Seq(S)
  OBVIOUS
<1> QED BY <1>1, <1>2

(* \o with only the laws that are stated of it. *)
Before(a, b) == a \o b

LEMMA BeforeLaws ==
  \A a, b, c \in Seq(AllUnits) :
    Before(a, b) \in Seq(AllUnits) /\ Before(Before(a, b), c) = Before(a, Before(b, c))
BY Associative DEF Before

LEMMA Regroup ==
  \A a, b, c, rest \in Seq(AllUnits) :
    /\ Before(a, Before(b, c)) \in Seq(AllUnits)
    /\ Before(c, rest) \in Seq(AllUnits) /\ Before(b, Before(c, rest)) \in Seq(AllUnits)
    /\ Before(Before(a, Before(b, c)), rest) = Before(a, Before(b, Before(c, rest)))
BY BeforeLaws

LEMMA ColumnsField ==
  ASSUME NEW block \in Blocks
  PROVE  Undone("columns", block, block)
<1> DEFINE columns == block.columns
           rows == block.rows
           n == Len(columns)
           a == Bytes(n)
           b == Bytes(rows)
           c == Units(Columned, columns)
<1>1. /\ block = [columns |-> columns, rows |-> rows]
      /\ columns \in Seq(Words) /\ rows \in Words /\ n \in Words
      /\ \A i \in DOMAIN columns : columns[i] = rows
  BY DEF Blocks
<1>2. columns \in Seq(Int) /\ n \in Nat /\ (n = 0 => columns = <<>>) /\ Columned \in Nat
  <2>1. Words \subseteq Int
    BY DEF Words
  <2>2. columns \in Seq(Int)
    BY <1>1, <2>1
  <2> HIDE DEF columns
  <2>3. Columned \in Nat
    BY DEF Columned
  <2> QED BY <2>2, <2>3
<1> HIDE DEF columns, rows, n
<1>3. /\ Number(n) = Written(a) /\ a \in Seq(AllUnits)
      /\ \A rest \in Seq(AllUnits) : TakeNumber(a \o rest) = Ok(n, rest)
  BY <1>1, NumberBack
<1>4. /\ Number(rows) = Written(b) /\ b \in Seq(AllUnits)
      /\ \A rest \in Seq(AllUnits) : TakeNumber(b \o rest) = Ok(rows, rest)
  BY <1>1, NumberBack
<1>5. /\ c \in Seq(AllUnits)
      /\ \A rest \in Seq(AllUnits) : Read(n, Columned, c \o rest) = Ok(columns, rest)
  BY <1>2, UnitsBack DEF n
<1>6. WriteColumns(block) = AllWritten(<<Number(n), Number(rows), Written(c)>>)
  BY Zenon DEF WriteColumns, n, rows, columns
<1> HIDE DEF a, b, c
<1>7. Put("columns", block) = Written(a \o (b \o c))
  <2>1. Put("columns", block) = WriteColumns(block)
    BY DEF Put
  <2> QED BY <1>3, <1>4, <1>5, <1>6, <2>1, TripleWritten
<1>8. a \o (b \o c) \in Seq(AllUnits)
  BY <1>3, <1>4, <1>5
<1>9. ASSUME NEW rest \in Seq(AllUnits)
      PROVE  Take("columns", (a \o (b \o c)) \o rest) = Ok(block, rest)
  <2> DEFINE at2 == c \o rest
             at1 == b \o at2
             s == (a \o (b \o c)) \o rest
  <2>1. at2 \in Seq(AllUnits) /\ at1 \in Seq(AllUnits) /\ s = a \o at1
    <3>1. a \in Seq(AllUnits) /\ b \in Seq(AllUnits) /\ c \in Seq(AllUnits)
      BY <1>3, <1>4, <1>5
    <3>2. at2 = Before(c, rest) /\ at1 = Before(b, at2) /\ s = Before(Before(a, Before(b, c)), rest)
      BY DEF Before
    <3>3. at2 \in Seq(AllUnits) /\ at1 \in Seq(AllUnits) /\ s = Before(a, at1)
      <4> HIDE DEF s, at1, at2
      <4> QED BY <3>1, <3>2, Regroup
    <3> QED BY <3>3, Zenon DEF Before
  <2>2. Take("columns", s) = TakeColumns(s)
    BY DEF Take
  <2>3. TakeNumber(s) = Ok(n, at1)
    BY <1>3, <2>1
  <2>4. TakeNumber(at1) = Ok(rows, at2)
    BY <1>4, <2>1
  <2>5. Read(n, Columned, at2) = Ok(columns, rest)
    BY <1>5
  <2>6. n = 0 => at2 = rest
    <3> SUFFICES ASSUME n = 0 PROVE at2 = rest
      OBVIOUS
    <3>1. columns = <<>>
      BY <1>2
    <3>2. c = <<>>
      BY <3>1 DEF c, Units
    <3> QED BY <3>2
  <2> HIDE DEF at1, at2, s
  <2>7. TakeColumns(s) = Ok(block, rest)
    <3>1. CASE n = 0
      BY <3>1, <1>1, <1>2, <2>3, <2>4, <2>6 DEF TakeColumns, Then, Ok
    <3>2. CASE n # 0
      BY <3>2, <1>1, <2>3, <2>4, <2>5 DEF TakeColumns, Then, Ok
    <3> QED BY <3>1, <3>2
  <2> QED BY <2>2, <2>7 DEF s
<1> QED BY <1>7, <1>8, <1>9 DEF Undone

-----------------------------------------------------------------------------
(* Quoting. *)

EmptyBase(value) == <<>>
DoubleStep(value, i, before) == before \o IF value[i] = "'" THEN <<"'", "'">> ELSE <<value[i]>>
Doubling == INSTANCE Recursion WITH base <- EmptyBase, step <- DoubleStep
DoubledUpTo(value) == CHOOSE f : f = [i \in 0 .. Len(value) |->
                        IF i = 0 THEN EmptyBase(value) ELSE DoubleStep(value, i, f[i - 1])]

NoneBase(value) == [text |-> <<>>, odd |-> FALSE]
UndoubleStep(value, i, before) ==
  IF value[i] = "'" /\ before.odd THEN [before EXCEPT !.odd = FALSE]
  ELSE [text |-> Append(before.text, value[i]), odd |-> value[i] = "'"]
Undoubling == INSTANCE Recursion WITH base <- NoneBase, step <- UndoubleStep
UndoubledUpTo(value) == CHOOSE f : f = [i \in 0 .. Len(value) |->
                          IF i = 0 THEN NoneBase(value) ELSE UndoubleStep(value, i, f[i - 1])]

LEMMA DoubledSteps ==
  ASSUME NEW value, Len(value) \in Nat
  PROVE  /\ Doubled(value) = DoubledUpTo(value)[Len(value)]
         /\ DoubledUpTo(value)[0] = <<>>
         /\ \A i \in 1 .. Len(value) :
              DoubledUpTo(value)[i] = DoubleStep(value, i, DoubledUpTo(value)[i - 1])
<1>1. Doubling!IsUpTo(DoubledUpTo(value), value, Len(value))
  BY Doubling!Exists, Zenon DEF DoubledUpTo, Doubling!IsUpTo
<1>2. Doubled(value) = DoubledUpTo(value)[Len(value)]
  BY Zenon DEF Doubled, DoubledUpTo, EmptyBase, DoubleStep
<1>3. EmptyBase(value) = <<>>
  BY DEF EmptyBase
<1> QED BY <1>1, <1>2, <1>3, Doubling!Unfolds

LEMMA UndoubledSteps ==
  ASSUME NEW value, Len(value) \in Nat
  PROVE  /\ Undoubled(value) = UndoubledUpTo(value)[Len(value)].text
         /\ UndoubledUpTo(value)[0] = [text |-> <<>>, odd |-> FALSE]
         /\ \A i \in 1 .. Len(value) :
              UndoubledUpTo(value)[i] = UndoubleStep(value, i, UndoubledUpTo(value)[i - 1])
<1>1. Undoubling!IsUpTo(UndoubledUpTo(value), value, Len(value))
  BY Undoubling!Exists, Zenon DEF UndoubledUpTo, Undoubling!IsUpTo
<1>2. Undoubled(value) = UndoubledUpTo(value)[Len(value)].text
  BY Zenon DEF Undoubled, UndoubledUpTo, NoneBase, UndoubleStep
<1>3. NoneBase(value) = [text |-> <<>>, odd |-> FALSE]
  BY DEF NoneBase
<1> QED BY <1>1, <1>2, <1>3, Undoubling!Unfolds

(* x goes on behind its first n characters with a character doubled; they  *)
(* are the text so far.                                                    *)
Twice(c)           == IF c = "'" THEN <<"'", "'">> ELSE <<c>>
GoesOn(x, n, e)    == n + Len(e) <= Len(x) /\ \A i \in 1 .. Len(e) : x[n + i] = e[i]
SoFar(x, n, text)  == UndoubledUpTo(x)[n] = [text |-> text, odd |-> FALSE]

LEMMA OneUndoubled ==
  ASSUME NEW n \in Nat, NEW text \in Seq(Characters), NEW c \in Characters,
         NEW x \in Seq(Characters), GoesOn(x, n, Twice(c)), SoFar(x, n, text)
  PROVE  SoFar(x, n + Len(Twice(c)), Append(text, c))
<1> DEFINE U(i) == UndoubledUpTo(x)[i]
           e == Twice(c)
<1>1. Len(x) \in Nat /\ n + Len(e) <= Len(x) /\ Len(e) \in 1 .. 2
  BY DEF GoesOn, Twice
<1>2. \A i \in 1 .. Len(x) : U(i) = UndoubleStep(x, i, U(i - 1))
  BY <1>1, UndoubledSteps
<1>3. \A i \in 1 .. Len(e) : x[n + i] = e[i]
  BY DEF GoesOn
<1>4. U(n) = [text |-> text, odd |-> FALSE]
  BY DEF SoFar
<1>7. e = IF c = "'" THEN <<"'", "'">> ELSE <<c>>
  BY DEF Twice
<1> HIDE DEF U, e
<1>5. CASE c # "'"
  <2>1. Len(e) = 1 /\ e[1] = c /\ n + 1 \in 1 .. Len(x) /\ (n + 1) - 1 = n
    BY <1>1, <1>5, <1>7
  <2>2. U(n + 1) = UndoubleStep(x, n + 1, U(n))
    BY <1>2, <2>1
  <2>3. x[n + 1] = c
    <3>1. 1 \in 1 .. Len(e)
      BY <2>1
    <3> QED BY <1>3, <2>1, <3>1
  <2>4. U(n + 1) = [text |-> Append(text, c), odd |-> FALSE]
    <3>1. U(n + 1) = UndoubleStep(x, n + 1, [text |-> text, odd |-> FALSE])
      BY <1>4, <2>2
    <3>2. x[n + 1] # "'"
      BY <1>5, <2>3
    <3>3. UndoubleStep(x, n + 1, [text |-> text, odd |-> FALSE]) = [text |-> Append(text, x[n + 1]), odd |-> FALSE]
      <4>1. (x[n + 1] = "'") = FALSE
        BY <3>2
      <4> QED BY <4>1 DEF UndoubleStep
    <3> QED BY <2>3, <3>1, <3>3
  <2> QED BY <2>1, <2>4 DEF U, e, SoFar
<1>6. CASE c = "'"
  <2>1. /\ Len(e) = 2 /\ e[1] = c /\ e[2] = c
        /\ n + 1 \in 1 .. Len(x) /\ n + 2 \in 1 .. Len(x) /\ (n + 1) - 1 = n /\ (n + 2) - 1 = n + 1
    BY <1>1, <1>6, <1>7
  <2>2. /\ U(n + 1) = UndoubleStep(x, n + 1, U(n)) /\ x[n + 1] = "'"
        /\ U(n + 2) = UndoubleStep(x, n + 2, U(n + 1)) /\ x[n + 2] = "'"
    <3>1. 1 \in 1 .. Len(e) /\ 2 \in 1 .. Len(e)
      BY <2>1
    <3>2. x[n + 1] = "'" /\ x[n + 2] = "'"
      BY <1>3, <1>6, <2>1, <3>1
    <3>3. U(n + 1) = UndoubleStep(x, n + 1, U(n))
      BY <1>2, <2>1
    <3>4. U(n + 2) = UndoubleStep(x, n + 2, U(n + 1))
      BY <1>2, <2>1
    <3> QED BY <3>2, <3>3, <3>4
  <2>3. U(n + 1) = [text |-> Append(text, c), odd |-> TRUE]
    <3>1. U(n + 1) = UndoubleStep(x, n + 1, [text |-> text, odd |-> FALSE])
      BY <1>4, <2>2
    <3>2. UndoubleStep(x, n + 1, [text |-> text, odd |-> FALSE]) = [text |-> Append(text, "'"), odd |-> TRUE]
      <4>1. (x[n + 1] = "'") = TRUE
        BY <2>2
      <4> QED BY <4>1 DEF UndoubleStep
    <3> QED BY <1>6, <3>1, <3>2
  <2>4. U(n + 2) = [text |-> Append(text, c), odd |-> FALSE]
    <3>1. U(n + 2) = UndoubleStep(x, n + 2, [text |-> Append(text, c), odd |-> TRUE])
      BY <2>2, <2>3
    <3>2. UndoubleStep(x, n + 2, [text |-> Append(text, c), odd |-> TRUE]) = [text |-> Append(text, c), odd |-> FALSE]
      BY <2>2 DEF UndoubleStep
    <3> QED BY <3>1, <3>2
  <2> QED BY <2>1, <2>4 DEF U, e, SoFar
<1> QED BY <1>5, <1>6

(* Undoubling gives back what was doubled: a quote of the text is never    *)
(* taken for the second of another one.                                    *)
LEMMA DoubledBack ==
  ASSUME NEW value \in Seq(Characters)
  PROVE  Doubled(value) \in Seq(Characters) /\ Undoubled(Doubled(value)) = value
<1> DEFINE D(k) == DoubledUpTo(value)[k]
           Back(k) == /\ D(k) \in Seq(Characters)
                      /\ \A t \in Seq(Characters) :
                           SoFar(D(k) \o t, Len(D(k)), SubSeq(value, 1, k))
           S == {k \in Nat : k <= Len(value) => Back(k)}
<1>0. Len(value) \in Nat /\ \A k \in 1 .. Len(value) : value[k] \in Characters
  OBVIOUS
<1>1. /\ Doubled(value) = D(Len(value)) /\ D(0) = <<>>
      /\ \A k \in 1 .. Len(value) : D(k) = DoubleStep(value, k, D(k - 1))
  BY <1>0, DoubledSteps
<1> HIDE DEF D
<1>2. Back(0)
  <2>1. D(0) \in Seq(Characters) /\ Len(D(0)) = 0 /\ SubSeq(value, 1, 0) = <<>>
    <3>1. <<>> \in Seq(Characters) /\ Len(<<>>) = 0
      OBVIOUS
    <3>2. SubSeq(value, 1, 0) = <<>>
      OBVIOUS
    <3> QED BY <1>1, <3>1, <3>2
  <2>2. ASSUME NEW t \in Seq(Characters)
        PROVE  SoFar(D(0) \o t, Len(D(0)), SubSeq(value, 1, 0))
    <3>1. D(0) \o t = t /\ Len(t) \in Nat
      BY <1>1
    <3>2. UndoubledUpTo(t)[0] = [text |-> <<>>, odd |-> FALSE]
      BY <3>1, UndoubledSteps
    <3> QED BY <2>1, <3>1, <3>2 DEF SoFar
  <2> QED BY <2>1, <2>2
<1>3. ASSUME NEW k \in Nat, k + 1 <= Len(value), Back(k) PROVE Back(k + 1)
  <2> DEFINE c == value[k + 1]
             e == Twice(c)
             text == SubSeq(value, 1, k)
             d == D(k)
  <2>1. k + 1 \in 1 .. Len(value) /\ (k + 1) - 1 = k
    BY <1>0, <1>3
  <2>2. c \in Characters /\ "'" \in Characters
    BY <1>0, <2>1, PacketsAssumption
  <2>3. e \in Seq(Characters) /\ text \in Seq(Characters) /\ SubSeq(value, 1, k + 1) = Append(text, c)
    <3>1. e \in Seq(Characters)
      <4> HIDE DEF c
      <4> QED BY <2>2 DEF Twice
    <3> QED BY <2>1, <3>1
  <2>4. D(k + 1) = d \o e
    BY <1>1, <2>1 DEF DoubleStep, Twice
  <2>5. /\ d \in Seq(Characters)
        /\ \A t \in Seq(Characters) : SoFar(d \o t, Len(d), text)
    BY <1>3
  <2> HIDE DEF c, e, text, d
  <2>7. d \o e \in Seq(Characters) /\ Len(d \o e) = Len(d) + Len(e)
    BY <2>3, <2>5
  <2>8. ASSUME NEW t \in Seq(Characters)
        PROVE  SoFar((d \o e) \o t, Len(d \o e), Append(text, c))
    <3> DEFINE x == d \o (e \o t)
    <3>1. e \o t \in Seq(Characters) /\ x \in Seq(Characters)
      <4>1. \A p, q \in Seq(Characters) : p \o q \in Seq(Characters)
        OBVIOUS
      <4> QED BY <4>1, <2>3, <2>5
    <3>2. (d \o e) \o t = x
      <4>1. \A p, q, r \in Seq(Characters) : (p \o q) \o r = p \o (q \o r)
        BY Associative, SMTT(60)
      <4> QED BY <4>1, <2>3, <2>5
    <3>3. SoFar(x, Len(d), text)
      BY <2>5, <3>1
    <3>5. GoesOn(x, Len(d), e)
      <4> DEFINE y == e \o t
      <4>1. y \in Seq(Characters) /\ Len(e) <= Len(y) /\ \A i \in 1 .. Len(e) : y[i] = e[i]
        BY <2>3
      <4> HIDE DEF y
      <4>2. Len(d \o y) = Len(d) + Len(y) /\ \A i \in 1 .. Len(y) : (d \o y)[Len(d) + i] = y[i]
        BY <2>5, <4>1
      <4>3. Len(d) \in Nat /\ Len(e) \in Nat /\ Len(y) \in Nat
        BY <2>3, <2>5, <4>1
      <4>4. x = d \o y
        BY DEF y
      <4> HIDE DEF x
      <4> QED BY <4>1, <4>2, <4>3, <4>4 DEF GoesOn
    <3> HIDE DEF x
    <3>4. SoFar(x, Len(d) + Len(e), Append(text, c))
      <4>1. Len(d) \in Nat /\ text \in Seq(Characters) /\ c \in Characters /\ x \in Seq(Characters)
        BY <2>2, <2>3, <2>5, <3>1
      <4> QED BY <4>1, <3>3, <3>5, OneUndoubled DEF e
    <3> QED BY <2>7, <3>2, <3>4
  <2>9. D(k + 1) \in Seq(Characters)
    BY <2>4, <2>7
  <2> QED BY <2>3, <2>4, <2>8, <2>9
<1>4. Back(Len(value))
  <2> HIDE DEF Back
  <2>1. 0 \in S
    BY <1>2
  <2>2. ASSUME NEW k \in Nat, k \in S PROVE k + 1 \in S
    BY <1>0, <1>3, <2>2
  <2>3. Nat \subseteq S
    <3> HIDE DEF S
    <3> QED BY <2>1, <2>2, Doubling!FromBelow
  <2> QED BY <1>0, <2>3
<1> DEFINE all == D(Len(value))
<1>5. all \in Seq(Characters) /\ all \o <<>> = all /\ Len(all) \in Nat /\ <<>> \in Seq(Characters)
  BY <1>4
<1>6. SoFar(all, Len(all), SubSeq(value, 1, Len(value)))
  BY <1>4, <1>5
<1>7. SubSeq(value, 1, Len(value)) = value
  OBVIOUS
<1>8. Undoubled(all) = UndoubledUpTo(all)[Len(all)].text
  BY <1>5, UndoubledSteps
<1> HIDE DEF all
<1>9. Undoubled(all) = value
  BY <1>6, <1>7, <1>8 DEF SoFar
<1> QED BY <1>1, <1>5, <1>9 DEF all

(* A quoted value is the value again. *)
THEOREM QuotedBack ==
  ASSUME NEW value \in Seq(Characters)
  PROVE  Quoted(value) \in Seq(Characters) /\ Unquoted(Quoted(value)) = value
<1> DEFINE d == Doubled(value)
           q == <<"'">> \o d \o <<"'">>
           n == Len(d)
<1>1. d \in Seq(Characters) /\ Undoubled(d) = value /\ n \in Nat /\ "'" \in Characters
  BY DoubledBack, PacketsAssumption
<1> HIDE DEF d
<1>2. q \in Seq(Characters) /\ Len(q) = n + 2 /\ q[1] = "'" /\ q[n + 2] = "'"
  BY <1>1
<1>3. SubSeq(q, 2, Len(q) - 1) = d
  BY <1>1, <1>2
<1>4. Quoted(value) = q
  BY DEF Quoted, d
<1> HIDE DEF q, n
<1>5. Len(q) >= 2 /\ Head(q) = "'" /\ Last(q) = "'"
  BY <1>1, <1>2 DEF Last
<1>6. Unquoted(q) = Undoubled(d)
  BY <1>3, <1>5, Zenon DEF Unquoted
<1> QED BY <1>1, <1>2, <1>4, <1>6

-----------------------------------------------------------------------------
(* Loops of rounds. *)

Round(kind, sofar, s) == IF kind = "settings" THEN TakeSetting(sofar, s) ELSE TakeInfoField(sofar, s)
Stream(x) == x[1]
Start(x)  == x[2]
Kind(x)   == x[3]
RoundBase(x) == Ok(Goes(Start(x)), Stream(x))
RoundStep(x, n, before) ==
  IF before.status = "ok"
  THEN IF before.value.over THEN Ok(before.value, before.rest)
       ELSE Round(Kind(x), before.value.sofar, before.rest)
  ELSE before
Rounds == INSTANCE Recursion WITH base <- RoundBase, step <- RoundStep

(* What a loop comes to after so many rounds. *)
IsLoop(f, x) == Rounds!IsUpTo(f, x, Len(Stream(x)) + 1)
Outcome(result_) == IF result_.status = "ok" THEN Ok(result_.value.sofar, result_.rest) ELSE result_

LEMMA SettingsLoop ==
  ASSUME NEW s, Len(s) \in Nat
  PROVE  \E f : IsLoop(f, <<s, <<>>, "settings">>) /\ TakeSettings(s) = Outcome(f[Len(s) + 1])
<1> DEFINE x == <<s, <<>>, "settings">>
           N == Len(s) + 1
           Rule(f) == [n \in 0 .. N |->
                        IF n = 0 THEN Ok(Goes(<<>>), s)
                        ELSE IF f[n - 1].status = "ok"
                             THEN IF f[n - 1].value.over THEN Ok(f[n - 1].value, f[n - 1].rest)
                                  ELSE TakeSetting(f[n - 1].value.sofar, f[n - 1].rest)
                             ELSE f[n - 1]]
           loop == CHOOSE f : f = Rule(f)
<1>1. Stream(x) = s /\ Start(x) = <<>> /\ Kind(x) = "settings"
  BY DEF Stream, Start, Kind
<1>2. TakeSettings(s) = Outcome(loop[N])
  BY Zenon DEF TakeSettings, Repeat, Then, Outcome
<1> HIDE DEF x
<1>3. ASSUME NEW f
      PROVE  Rule(f) = [n \in 0 .. N |-> IF n = 0 THEN RoundBase(x) ELSE RoundStep(x, n, f[n - 1])]
  <2>1. RoundBase(x) = Ok(Goes(<<>>), s)
    BY <1>1 DEF RoundBase
  <2>2. ASSUME NEW n
        PROVE  RoundStep(x, n, f[n - 1]) =
                 IF f[n - 1].status = "ok"
                 THEN IF f[n - 1].value.over THEN Ok(f[n - 1].value, f[n - 1].rest)
                      ELSE TakeSetting(f[n - 1].value.sofar, f[n - 1].rest)
                 ELSE f[n - 1]
    BY <1>1, Zenon DEF RoundStep, Round
  <2> QED BY <2>1, <2>2, Zenon
<1>4. loop = Rule(loop)
  <2>1. PICK f : f = [n \in 0 .. N |-> IF n = 0 THEN RoundBase(x) ELSE RoundStep(x, n, f[n - 1])]
    <3>1. N \in Nat
      OBVIOUS
    <3> QED BY <3>1, Rounds!Exists
  <2>2. f = Rule(f)
    BY <2>1, <1>3
  <2> HIDE DEF Rule
  <2> QED BY <2>2, Zenon
<1>5. IsLoop(loop, x)
  <2> HIDE DEF loop, Rule
  <2>1. loop = [n \in 0 .. N |-> IF n = 0 THEN RoundBase(x) ELSE RoundStep(x, n, loop[n - 1])]
    BY <1>3, <1>4
  <2> QED BY <1>1, <2>1 DEF IsLoop, Rounds!IsUpTo
<1> QED BY <1>2, <1>5 DEF x

LEMMA InfoLoop ==
  ASSUME NEW s, NEW info, Len(s) \in Nat
  PROVE  \E f : IsLoop(f, <<s, info, "info">>) /\ TakeInfo(s, info) = Outcome(f[Len(s) + 1])
<1> DEFINE x == <<s, info, "info">>
           N == Len(s) + 1
           Rule(f) == [n \in 0 .. N |->
                        IF n = 0 THEN Ok(Goes(info), s)
                        ELSE IF f[n - 1].status = "ok"
                             THEN IF f[n - 1].value.over THEN Ok(f[n - 1].value, f[n - 1].rest)
                                  ELSE TakeInfoField(f[n - 1].value.sofar, f[n - 1].rest)
                             ELSE f[n - 1]]
           loop == CHOOSE f : f = Rule(f)
<1>1. Stream(x) = s /\ Start(x) = info /\ Kind(x) = "info"
  BY DEF Stream, Start, Kind
<1>2. TakeInfo(s, info) = Outcome(loop[N])
  BY Zenon DEF TakeInfo, Repeat, Then, Outcome
<1> HIDE DEF x
<1>3. ASSUME NEW f
      PROVE  Rule(f) = [n \in 0 .. N |-> IF n = 0 THEN RoundBase(x) ELSE RoundStep(x, n, f[n - 1])]
  <2>1. RoundBase(x) = Ok(Goes(info), s)
    BY <1>1 DEF RoundBase
  <2>2. ASSUME NEW n
        PROVE  RoundStep(x, n, f[n - 1]) =
                 IF f[n - 1].status = "ok"
                 THEN IF f[n - 1].value.over THEN Ok(f[n - 1].value, f[n - 1].rest)
                      ELSE TakeInfoField(f[n - 1].value.sofar, f[n - 1].rest)
                 ELSE f[n - 1]
    <3>1. \A sofar, t : Round("info", sofar, t) = TakeInfoField(sofar, t)
      BY DEF Round
    <3> QED BY <1>1, <3>1, Zenon DEF RoundStep
  <2> QED BY <2>1, <2>2, Zenon
<1>4. loop = Rule(loop)
  <2>1. PICK f : f = [n \in 0 .. N |-> IF n = 0 THEN RoundBase(x) ELSE RoundStep(x, n, f[n - 1])]
    <3>1. N \in Nat
      OBVIOUS
    <3> QED BY <3>1, Rounds!Exists
  <2>2. f = Rule(f)
    BY <2>1, <1>3
  <2> HIDE DEF Rule
  <2> QED BY <2>2, Zenon
<1>5. IsLoop(loop, x)
  <2> HIDE DEF loop, Rule
  <2>1. loop = [n \in 0 .. N |-> IF n = 0 THEN RoundBase(x) ELSE RoundStep(x, n, loop[n - 1])]
    BY <1>3, <1>4
  <2> QED BY <1>1, <2>1 DEF IsLoop, Rounds!IsUpTo
<1> QED BY <1>2, <1>5 DEF x

LEMMA LoopSteps ==
  ASSUME NEW f, NEW x, IsLoop(f, x), Len(Stream(x)) \in Nat
  PROVE  /\ f[0] = Ok(Goes(Start(x)), Stream(x))
         /\ \A n \in Nat : n <= Len(Stream(x)) => f[n + 1] = RoundStep(x, n + 1, f[n])
<1>1. Len(Stream(x)) + 1 \in Nat
  OBVIOUS
<1>2. /\ f[0] = RoundBase(x)
      /\ \A n \in 1 .. Len(Stream(x)) + 1 : f[n] = RoundStep(x, n, f[n - 1])
  BY <1>1, Rounds!Unfolds, Zenon DEF IsLoop
<1>3. ASSUME NEW n \in Nat, n <= Len(Stream(x)) PROVE f[n + 1] = RoundStep(x, n + 1, f[n])
  <2>1. n + 1 \in 1 .. Len(Stream(x)) + 1 /\ (n + 1) - 1 = n
    BY <1>3
  <2> QED BY <1>2, <2>1
<1> QED BY <1>2, <1>3, Zenon DEF RoundBase

(* The i-th part, w[i], is read in one round, from the state behind the    *)
(* parts before it, and e ends the loop.                                   *)
Chained(kind, n, w, states, e) ==
  /\ \A i \in 1 .. n :
       /\ w[i] \in Seq(AllUnits) /\ Len(w[i]) >= 1
       /\ \A rest \in Seq(AllUnits) :
            Round(kind, states[i - 1], Before(w[i], rest)) = Ok(Goes(states[i]), rest)
  /\ e \in Seq(AllUnits)
  /\ \A rest \in Seq(AllUnits) : Round(kind, states[n], Before(e, rest)) = Ok(Ends(states[n]), rest)

(* u is the first k parts, read in k rounds in front of whatever follows.  *)
ReadSoFar(kind, parts, states, k, u) ==
  /\ Joined(parts)[k] = Written(u) /\ u \in Seq(AllUnits) /\ Len(u) >= k
  /\ \A rest \in Seq(AllUnits) :
       LET x == <<Before(u, rest), states[0], kind>>
       IN \A f : IsLoop(f, x) => f[k] = Ok(Goes(states[k]), rest)

LEMMA RoundsRead ==
  ASSUME NEW kind, NEW n \in Nat, NEW w, NEW states, NEW e, Chained(kind, n, w, states, e),
         NEW k \in 0 .. n
  PROVE  \E u : ReadSoFar(kind, [i \in 1 .. n |-> Written(w[i])], states, k, u)
<1> DEFINE parts == [i \in 1 .. n |-> Written(w[i])]
           S == {i \in Nat : i <= n => \E u : ReadSoFar(kind, parts, states, i, u)}
<1>1. /\ Len(parts) = n /\ Joined(parts)[0] = Written(<<>>)
      /\ \A i \in 1 .. n : Joined(parts)[i] = Followed(Joined(parts)[i - 1], Written(w[i]))
  <2>1. Len(parts) = n /\ \A i \in 1 .. n : parts[i] = Written(w[i])
    OBVIOUS
  <2> HIDE DEF parts
  <2> QED BY <2>1, JoinedParts
<1> HIDE DEF parts
<1>2. ReadSoFar(kind, parts, states, 0, <<>>)
  <2>1. <<>> \in Seq(AllUnits) /\ Len(<<>>) >= 0
    OBVIOUS
  <2>2. ASSUME NEW rest \in Seq(AllUnits), NEW f, IsLoop(f, <<Before(<<>>, rest), states[0], kind>>)
        PROVE  f[0] = Ok(Goes(states[0]), rest)
    <3> DEFINE x == <<Before(<<>>, rest), states[0], kind>>
    <3>1. Stream(x) = rest /\ Start(x) = states[0] /\ Len(rest) \in Nat
      BY DEF Stream, Start, Before
    <3>2. IsLoop(f, x)
      BY <2>2
    <3> HIDE DEF x
    <3> QED BY <3>1, <3>2, LoopSteps
  <2> QED BY <1>1, <2>1, <2>2, Zenon DEF ReadSoFar
<1>3. ASSUME NEW i \in Nat, i + 1 <= n, NEW u, ReadSoFar(kind, parts, states, i, u)
      PROVE  \E v : ReadSoFar(kind, parts, states, i + 1, v)
  <2> DEFINE j == i + 1
             wj == w[j]
             v == Before(u, wj)
  <2>0. j \in 1 .. n /\ j - 1 = i
    BY <1>3
  <2>1. /\ wj \in Seq(AllUnits) /\ Len(wj) >= 1
        /\ \A rest \in Seq(AllUnits) : Round(kind, states[i], Before(wj, rest)) = Ok(Goes(states[j]), rest)
    <3> HIDE DEF j
    <3> QED BY <2>0 DEF Chained
  <2>2. /\ Joined(parts)[i] = Written(u) /\ u \in Seq(AllUnits) /\ Len(u) >= i
        /\ \A rest \in Seq(AllUnits) :
             \A f : IsLoop(f, <<Before(u, rest), states[0], kind>>) => f[i] = Ok(Goes(states[i]), rest)
    BY <1>3, Zenon DEF ReadSoFar
  <2>3. Joined(parts)[j] = Written(v)
    <3>1. Joined(parts)[j] = Followed(Written(u), Written(wj))
      <4> HIDE DEF j
      <4> QED BY <1>1, <2>0, <2>2 DEF wj
    <3> QED BY <3>1, TwoFollow, Zenon DEF Before
  <2> HIDE DEF wj
  <2>4. v \in Seq(AllUnits) /\ Len(v) >= j
    BY <2>1, <2>2 DEF Before
  <2>5. ASSUME NEW rest \in Seq(AllUnits), NEW f, IsLoop(f, <<Before(v, rest), states[0], kind>>)
        PROVE  f[j] = Ok(Goes(states[j]), rest)
    <3> DEFINE s == Before(wj, rest)
               x == <<Before(u, s), states[0], kind>>
    <3>1. s \in Seq(AllUnits) /\ Before(v, rest) = Before(u, s)
      <4> HIDE DEF wj
      <4> QED BY <2>1, <2>2, BeforeLaws
    <3>2. IsLoop(f, x)
      BY <2>5, <3>1, Zenon
    <3>3. f[i] = Ok(Goes(states[i]), s)
      BY <2>2, <3>1, <3>2
    <3>4. /\ Stream(x) = Before(u, s) /\ Kind(x) = kind
          /\ Len(Before(u, s)) \in Nat /\ i <= Len(Before(u, s))
      <4>1. Stream(x) = Before(u, s) /\ Kind(x) = kind
        BY DEF Stream, Kind
      <4> HIDE DEF s
      <4>2. Len(Before(u, s)) \in Nat /\ i <= Len(Before(u, s))
        BY <2>2, <3>1 DEF Before
      <4> QED BY <4>1, <4>2
    <3> HIDE DEF x, s
    <3>5. f[j] = RoundStep(x, j, Ok(Goes(states[i]), s))
      BY <3>2, <3>3, <3>4, LoopSteps
    <3>6. RoundStep(x, j, Ok(Goes(states[i]), s)) = Round(kind, states[i], s)
      BY <3>4 DEF RoundStep, Ok, Goes
    <3>7. Round(kind, states[i], s) = Ok(Goes(states[j]), rest)
      BY <2>1 DEF s
    <3> QED BY <3>5, <3>6, <3>7
  <2> HIDE DEF v
  <2> QED BY <2>3, <2>4, <2>5, Zenon DEF ReadSoFar
<1>4. Nat \subseteq S
  <2>1. 0 \in S
    BY <1>2
  <2>2. ASSUME NEW i \in Nat, i \in S PROVE i + 1 \in S
    <3> SUFFICES ASSUME i + 1 <= n PROVE \E v : ReadSoFar(kind, parts, states, i + 1, v)
      OBVIOUS
    <3>1. PICK u : ReadSoFar(kind, parts, states, i, u)
      BY <2>2
    <3> QED BY <3>1, <1>3
  <2> HIDE DEF S
  <2> QED BY <2>1, <2>2, Rounds!FromBelow
<1> QED BY <1>4 DEF parts

(* A loop over parts reads them all and ends where they do. *)
ReadByLoop(kind, n, w, states, e, u) ==
  /\ u \in Seq(AllUnits) /\ AllWritten([i \in 1 .. n |-> Written(w[i])]) = Written(u)
  /\ \A rest \in Seq(AllUnits) :
       \A f : IsLoop(f, <<Before(u, Before(e, rest)), states[0], kind>>) =>
               Outcome(f[Len(Before(u, Before(e, rest))) + 1]) = Ok(states[n], rest)

LEMMA LoopRead ==
  ASSUME NEW kind, NEW n \in Nat, NEW w, NEW states, NEW e, Chained(kind, n, w, states, e)
  PROVE  \E u : ReadByLoop(kind, n, w, states, e, u)
<1> DEFINE parts == [i \in 1 .. n |-> Written(w[i])]
<1>1. PICK u : ReadSoFar(kind, parts, states, n, u)
  <2>1. n \in 0 .. n
    OBVIOUS
  <2> QED BY <2>1, RoundsRead
<1>2. AllWritten(parts) = Written(u)
  <2>1. Len(parts) = n
    OBVIOUS
  <2>2. AllWritten(parts) = Joined(parts)[n]
    <3> HIDE DEF parts
    <3> QED BY <2>1, JoinedParts
  <2> QED BY <1>1, <2>2 DEF ReadSoFar
<1> HIDE DEF parts
<1>3. /\ u \in Seq(AllUnits) /\ Len(u) >= n
      /\ \A rest \in Seq(AllUnits) :
           \A f : IsLoop(f, <<Before(u, rest), states[0], kind>>) => f[n] = Ok(Goes(states[n]), rest)
  BY <1>1, Zenon DEF ReadSoFar
<1>4. ASSUME NEW rest \in Seq(AllUnits), NEW f,
             IsLoop(f, <<Before(u, Before(e, rest)), states[0], kind>>)
      PROVE  Outcome(f[Len(Before(u, Before(e, rest))) + 1]) = Ok(states[n], rest)
  <2> DEFINE t == Before(e, rest)
             s == Before(u, t)
             x == <<s, states[0], kind>>
             N == Len(s)
             S == {i \in Nat : n + 1 + i <= N + 1 => f[n + 1 + i] = Ok(Ends(states[n]), rest)}
  <2>1. t \in Seq(AllUnits) /\ Round(kind, states[n], t) = Ok(Ends(states[n]), rest)
    BY BeforeLaws DEF Chained
  <2>2. f[n] = Ok(Goes(states[n]), t)
    BY <1>3, <1>4, <2>1
  <2> HIDE DEF t
  <2>3. N \in Nat /\ n <= N
    BY <1>3, <2>1 DEF Before
  <2>4. Stream(x) = s /\ Kind(x) = kind
    BY DEF Stream, Kind
  <2>5. IsLoop(f, x)
    BY <1>4 DEF t
  <2> HIDE DEF x, s, N
  <2>6. \A i \in Nat : i <= N => f[i + 1] = RoundStep(x, i + 1, f[i])
    BY <2>3, <2>4, <2>5, LoopSteps DEF N
  <2>7. 0 \in S
    <3>1. RoundStep(x, n + 1, Ok(Goes(states[n]), t)) = Round(kind, states[n], t)
      BY <2>4 DEF RoundStep, Ok, Goes
    <3>2. f[n + 1] = Ok(Ends(states[n]), rest)
      BY <2>1, <2>2, <2>3, <2>6, <3>1
    <3> QED BY <3>2
  <2>8. ASSUME NEW i \in Nat, i \in S PROVE i + 1 \in S
    <3> SUFFICES ASSUME n + 1 + (i + 1) <= N + 1
                 PROVE  f[n + 1 + (i + 1)] = Ok(Ends(states[n]), rest)
      OBVIOUS
    <3> DEFINE j == n + 1 + i
    <3>1. j \in Nat /\ j <= N /\ n + 1 + (i + 1) = j + 1 /\ f[j] = Ok(Ends(states[n]), rest)
      BY <2>3, <2>8
    <3> HIDE DEF j
    <3>2. f[j + 1] = RoundStep(x, j + 1, Ok(Ends(states[n]), rest))
      BY <2>6, <3>1
    <3>3. RoundStep(x, j + 1, Ok(Ends(states[n]), rest)) = Ok(Ends(states[n]), rest)
      BY DEF RoundStep, Ok, Ends
    <3> QED BY <3>1, <3>2, <3>3
  <2>9. Nat \subseteq S
    <3> HIDE DEF S
    <3> QED BY <2>7, <2>8, Rounds!FromBelow
  <2>10. f[N + 1] = Ok(Ends(states[n]), rest)
    <3> DEFINE i == N - n
    <3>1. i \in Nat /\ n + 1 + i = N + 1 /\ N + 1 <= N + 1
      BY <2>3
    <3> HIDE DEF i
    <3>2. i \in S
      <4> HIDE DEF S
      <4> QED BY <2>9, <3>1
    <3> QED BY <3>1, <3>2
  <2>11. Outcome(f[N + 1]) = Ok(states[n], rest)
    BY <2>10 DEF Outcome, Ok, Ends
  <2> QED BY <2>11 DEF N, s, t
<1> QED BY <1>2, <1>3, <1>4, Zenon DEF parts, ReadByLoop

-----------------------------------------------------------------------------
(* Settings and parameters. *)

SettingUnits(setting) ==
  Before(Spelled(setting.key), Before(Bytes(setting.flags), Spelled(setting.value)))

LEMMA SettingRead ==
  ASSUME NEW setting \in Settings, setting.key # <<>>
  PROVE  /\ WriteSetting(setting) = Written(SettingUnits(setting))
         /\ SettingUnits(setting) \in Seq(AllUnits) /\ Len(SettingUnits(setting)) >= 1
         /\ \A list : \A rest \in Seq(AllUnits) :
              Round("settings", list, Before(SettingUnits(setting), rest)) = Ok(Goes(Append(list, setting)), rest)
<1> DEFINE key == setting.key
           flags == setting.flags
           value == setting.value
           a == Spelled(key)
           b == Bytes(flags)
           c == Spelled(value)
<1>1. /\ key \in Strings /\ flags \in 0 .. 7 /\ value \in Strings /\ key # <<>>
      /\ setting = [key |-> key, flags |-> flags, value |-> value]
  BY DEF Settings
<1>2. flags \in Words /\ flags % 8 = flags
  BY <1>1, SmallWords
<1>3. WriteSetting(setting) = AllWritten(<<write_string(key), Number(flags), write_string(value)>>)
  BY Zenon DEF WriteSetting
<1> HIDE DEF key, flags, value
<1>4. /\ write_string(key) = Written(a) /\ a \in Seq(AllUnits) /\ Len(a) >= 1
      /\ \A rest \in Seq(AllUnits) : read_string(Before(a, rest)) = Ok(key, rest)
  BY <1>1, StringBack DEF Before
<1>5. /\ Number(flags) = Written(b) /\ b \in Seq(AllUnits)
      /\ \A rest \in Seq(AllUnits) : TakeNumber(Before(b, rest)) = Ok(flags, rest)
  BY <1>2, NumberBack DEF Before
<1>6. /\ write_string(value) = Written(c) /\ c \in Seq(AllUnits)
      /\ \A rest \in Seq(AllUnits) : read_string(Before(c, rest)) = Ok(value, rest)
  BY <1>1, StringBack DEF Before
<1> DEFINE u == Before(a, Before(b, c))
<1>7. SettingUnits(setting) = u
  BY DEF SettingUnits, key, flags, value
<1> HIDE DEF a, b, c
<1>8. WriteSetting(setting) = Written(u)
  <2>1. AllWritten(<<Written(a), Written(b), Written(c)>>) = Written(u)
    BY <1>4, <1>5, <1>6, TripleWritten DEF Before
  <2> QED BY <2>1, <1>3, <1>4, <1>5, <1>6
<1>9. u \in Seq(AllUnits) /\ Len(u) >= 1
  <2> DEFINE d == Before(b, c)
  <2>1. d \in Seq(AllUnits)
    BY <1>5, <1>6, BeforeLaws
  <2> HIDE DEF d
  <2>2. Before(a, d) \in Seq(AllUnits) /\ Len(Before(a, d)) >= 1
    BY <1>4, <2>1 DEF Before
  <2> QED BY <2>2 DEF d
<1>10. ASSUME NEW list, NEW rest \in Seq(AllUnits)
       PROVE  Round("settings", list, Before(u, rest)) = Ok(Goes(Append(list, setting)), rest)
  <2> DEFINE s2 == Before(c, rest)
             s1 == Before(b, s2)
  <2>1. s2 \in Seq(AllUnits) /\ s1 \in Seq(AllUnits) /\ Before(u, rest) = Before(a, s1)
    BY <1>4, <1>5, <1>6, Regroup
  <2>2. read_string(Before(a, s1)) = Ok(key, s1) /\ TakeNumber(s1) = Ok(flags, s2) /\ read_string(s2) = Ok(value, rest)
    BY <1>4, <1>5, <1>6, <2>1
  <2> HIDE DEF s1, s2, u
  <2>3. TakeSetting(list, Before(a, s1)) = Ok(Goes(Append(list, setting)), rest)
    BY <1>1, <1>2, <2>2 DEF TakeSetting, Then, Ok
  <2> QED BY <2>1, <2>3 DEF Round
<1> QED BY <1>7, <1>8, <1>9, <1>10

LEMMA SettingsRead ==
  ASSUME NEW list \in Seq(Settings), \A i \in DOMAIN list : list[i].key # <<>>
  PROVE  \E u \in Seq(AllUnits) :
           /\ Followed(AllWritten([i \in DOMAIN list |-> WriteSetting(list[i])]), write_string(<<>>)) = Written(u)
           /\ \A rest \in Seq(AllUnits) : TakeSettings(u \o rest) = Ok(list, rest)
<1> DEFINE n == Len(list)
           w == [i \in 1 .. n |-> SettingUnits(list[i])]
           states == [i \in 0 .. n |-> SubSeq(list, 1, i)]
           e == Spelled(<<>>)
<1>1. /\ n \in Nat /\ DOMAIN list = 1 .. n
      /\ \A i \in 1 .. n : list[i] \in Settings /\ list[i].key # <<>>
      /\ states[0] = <<>> /\ states[n] = list
      /\ \A i \in 1 .. n : states[i] = Append(states[i - 1], list[i])
  <2>1. ASSUME NEW i \in 1 .. n
        PROVE  SubSeq(list, 1, i) = Append(SubSeq(list, 1, i - 1), list[i]) /\ i - 1 \in 0 .. n
    <3>1. i - 1 \in 0 .. n /\ i - 1 \in Nat /\ i \in Nat /\ (i - 1) + 1 = i
      OBVIOUS
    <3>2. /\ SubSeq(list, 1, i) = [k \in 1 .. i |-> list[k]]
          /\ SubSeq(list, 1, i - 1) = [k \in 1 .. i - 1 |-> list[k]]
      OBVIOUS
    <3>3. Append([k \in 1 .. i - 1 |-> list[k]], list[i]) = [k \in 1 .. i |-> list[k]]
      BY <3>1, SMTT(30)
    <3> QED BY <3>1, <3>2, <3>3
  <2>2. SubSeq(list, 1, 0) = <<>> /\ SubSeq(list, 1, n) = list
    OBVIOUS
  <2>3. n \in Nat /\ DOMAIN list = 1 .. n /\ \A i \in 1 .. n : list[i] \in Settings
    OBVIOUS
  <2>4. \A i \in 0 .. n : states[i] = SubSeq(list, 1, i)
    OBVIOUS
  <2> HIDE DEF states, n
  <2>5. 0 \in 0 .. n /\ n \in 0 .. n /\ \A i \in 1 .. n : i \in 0 .. n
    BY <2>3
  <2>6. states[0] = <<>> /\ states[n] = list
    BY <2>2, <2>4, <2>5
  <2>7. ASSUME NEW i \in 1 .. n PROVE states[i] = Append(states[i - 1], list[i])
    BY <2>1, <2>4, <2>5
  <2> QED BY <2>3, <2>6, <2>7
<1>2. <<>> \in Strings
  <2>1. <<>> \in Seq(Characters) /\ Len(<<>>) = 0 /\ 0 \in Words
    BY SmallWords
  <2> QED BY <2>1 DEF Strings
<1>3. /\ write_string(<<>>) = Written(e) /\ e \in Seq(AllUnits)
      /\ \A rest \in Seq(AllUnits) : read_string(Before(e, rest)) = Ok(<<>>, rest)
  BY <1>2, StringBack DEF Before
<1> HIDE DEF n, states, e
<1>4. ASSUME NEW i \in 1 .. n
      PROVE  /\ WriteSetting(list[i]) = Written(w[i])
             /\ w[i] \in Seq(AllUnits) /\ Len(w[i]) >= 1
             /\ \A rest \in Seq(AllUnits) :
                  Round("settings", states[i - 1], Before(w[i], rest)) = Ok(Goes(states[i]), rest)
  <2> DEFINE setting == list[i]
  <2>1. w[i] = SettingUnits(setting) /\ states[i] = Append(states[i - 1], setting)
    BY <1>1
  <2>2. setting \in Settings /\ setting.key # <<>>
    BY <1>1
  <2> HIDE DEF w, setting
  <2>3. /\ WriteSetting(setting) = Written(SettingUnits(setting))
        /\ SettingUnits(setting) \in Seq(AllUnits) /\ Len(SettingUnits(setting)) >= 1
        /\ \A done : \A rest \in Seq(AllUnits) :
              Round("settings", done, Before(SettingUnits(setting), rest)) = Ok(Goes(Append(done, setting)), rest)
    BY <2>2, SettingRead
  <2> QED BY <2>1, <2>3 DEF setting
<1> HIDE DEF w
<1>5. ASSUME NEW rest \in Seq(AllUnits)
      PROVE  Round("settings", states[n], Before(e, rest)) = Ok(Ends(states[n]), rest)
  BY <1>3 DEF Round, TakeSetting, Then, Ok
<1>6. Chained("settings", n, w, states, e)
  BY <1>3, <1>4, <1>5, Zenon DEF Chained
<1>7. PICK v : ReadByLoop("settings", n, w, states, e, v)
  BY <1>1, <1>6, LoopRead
<1>8. /\ v \in Seq(AllUnits) /\ AllWritten([i \in 1 .. n |-> Written(w[i])]) = Written(v)
       /\ \A rest \in Seq(AllUnits) :
            \A f : IsLoop(f, <<Before(v, Before(e, rest)), states[0], "settings">>) =>
                    Outcome(f[Len(Before(v, Before(e, rest))) + 1]) = Ok(states[n], rest)
  BY <1>7, Zenon DEF ReadByLoop
<1> DEFINE u == Before(v, e)
<1>9. u \in Seq(AllUnits)
  BY <1>3, <1>8, BeforeLaws
<1>10. Followed(AllWritten([i \in DOMAIN list |-> WriteSetting(list[i])]), write_string(<<>>)) = Written(u)
  <2>1. [i \in DOMAIN list |-> WriteSetting(list[i])] = [i \in 1 .. n |-> Written(w[i])]
    BY <1>1, <1>4
  <2> QED BY <1>3, <1>8, <2>1, TwoFollow, Zenon DEF Before
<1>11. ASSUME NEW rest \in Seq(AllUnits) PROVE TakeSettings(u \o rest) = Ok(list, rest)
  <2> DEFINE s == Before(v, Before(e, rest))
  <2>1. s = Before(u, rest) /\ s \in Seq(AllUnits)
    BY <1>3, <1>8, BeforeLaws
  <2>2. \A f : IsLoop(f, <<s, <<>>, "settings">>) => Outcome(f[Len(s) + 1]) = Ok(list, rest)
    BY <1>1, <1>8
  <2> HIDE DEF s, u
  <2>3. Len(s) \in Nat
    BY <2>1
  <2>4. TakeSettings(s) = Ok(list, rest)
    BY <2>2, <2>3, SettingsLoop
  <2> QED BY <2>1, <2>4 DEF Before
<1> QED BY <1>9, <1>10, <1>11

LEMMA SettingsField ==
  ASSUME NEW list \in Seq(Settings), \A i \in DOMAIN list : list[i].key # <<>>
  PROVE  Undone("settings", list, list)
<1>1. Put("settings", list) =
        Followed(AllWritten([i \in DOMAIN list |-> WriteSetting(list[i])]), write_string(<<>>))
  BY DEF Put
<1>2. \A s : Take("settings", s) = TakeSettings(s)
  BY DEF Take
<1> QED BY <1>1, <1>2, SettingsRead DEF Undone

LEMMA ParamsField ==
  ASSUME NEW params \in Seq(Params), \A i \in DOMAIN params : params[i].key # <<>>
  PROVE  Undone("params", params, params)
<1> DEFINE n == Len(params)
           list == [i \in 1 .. n |-> ParamSetting(params[i])]
<1>1. n \in Nat /\ DOMAIN params = 1 .. n /\ \A i \in 1 .. n : params[i] \in Params /\ params[i].key # <<>>
  OBVIOUS
<1>2. ASSUME NEW p \in Params, p.key # <<>>
      PROVE  /\ ParamSetting(p) \in Settings /\ ParamSetting(p).key = p.key
             /\ ParamSetting(p).key # <<>>
             /\ Unquoted(ParamSetting(p).value) = p.value
             /\ p = [key |-> p.key, value |-> p.value]
  <2>1. p.key \in Strings /\ p.value \in Strings /\ Quoted(p.value) \in Strings
        /\ p = [key |-> p.key, value |-> p.value]
    BY DEF Params
  <2>2. p.value \in Seq(Characters)
    BY <2>1 DEF Strings
  <2>3. Unquoted(Quoted(p.value)) = p.value
    BY <2>2, QuotedBack
  <2>4. ParamSetting(p) = [key |-> p.key, flags |-> 2, value |-> Quoted(p.value)]
    BY DEF ParamSetting, Custom
  <2>5. ParamSetting(p) \in Settings /\ ParamSetting(p).key = p.key /\ ParamSetting(p).value = Quoted(p.value)
    BY <2>1, <2>4 DEF Settings
  <2> QED BY <1>2, <2>1, <2>3, <2>5
<1>3. /\ list \in Seq(Settings) /\ DOMAIN list = 1 .. n
      /\ \A i \in 1 .. n : list[i] = ParamSetting(params[i])
  <2>1. \A i \in 1 .. n : ParamSetting(params[i]) \in Settings
    BY <1>1, <1>2
  <2> HIDE DEF n
  <2> QED BY <1>1, <2>1
<1> HIDE DEF list, n
<1>4. \A i \in DOMAIN list : list[i].key # <<>>
  BY <1>1, <1>2, <1>3
<1>5. PICK u \in Seq(AllUnits) :
         /\ Followed(AllWritten([i \in DOMAIN list |-> WriteSetting(list[i])]), write_string(<<>>)) = Written(u)
         /\ \A rest \in Seq(AllUnits) : TakeSettings(u \o rest) = Ok(list, rest)
  BY <1>3, <1>4, SettingsRead
<1>6. Put("params", params) = Written(u)
  <2>1. Put("params", params) =
          Followed(AllWritten([i \in DOMAIN params |-> WriteSetting(ParamSetting(params[i]))]), write_string(<<>>))
    BY DEF Put
  <2>2. [i \in DOMAIN params |-> WriteSetting(ParamSetting(params[i]))] =
          [i \in DOMAIN list |-> WriteSetting(list[i])]
    BY <1>1, <1>3
  <2> QED BY <1>5, <2>1, <2>2
<1>7. [i \in DOMAIN list |-> [key |-> list[i].key, value |-> Unquoted(list[i].value)]] = params
  <2>1. ASSUME NEW i \in 1 .. n
        PROVE  [key |-> list[i].key, value |-> Unquoted(list[i].value)] = params[i]
    BY <1>1, <1>2, <1>3
  <2>2. params = [i \in 1 .. n |-> params[i]]
    BY <1>1
  <2> QED BY <1>3, <2>1, <2>2
<1>8. ASSUME NEW rest \in Seq(AllUnits) PROVE Take("params", u \o rest) = Ok(params, rest)
  <2>1. \A s, r : TakeSettings(s) = Ok(list, r) =>
          Take("params", s) = Ok([i \in DOMAIN list |-> [key |-> list[i].key, value |-> Unquoted(list[i].value)]], r)
    BY DEF Take, Then, Ok
  <2> QED BY <1>5, <1>7, <2>1
<1> QED BY <1>5, <1>6, <1>8 DEF Undone

-----------------------------------------------------------------------------
(* BlockInfo. *)

Tags == {Overflow, BucketNumber, OutOfOrder}

Noted(got, info, field) ==
  IF field = Overflow THEN [got EXCEPT !.overflows = info.overflows]
  ELSE IF field = BucketNumber THEN [got EXCEPT !.bucket_number = info.bucket_number]
  ELSE [got EXCEPT !.out_of_order_buckets = info.out_of_order_buckets]

LEMMA EndRead ==
  ASSUME NEW got, NEW s, NEW rest, TakeNumber(s) = Ok(0, rest)
  PROVE  TakeInfoField(got, s) = Ok(Ends(got), rest)
BY DEF TakeInfoField, Then, Ok, Overflow, BucketNumber, OutOfOrder

LEMMA OverflowRead ==
  ASSUME NEW got, NEW s, NEW at, NEW rest, NEW v,
         TakeNumber(s) = Ok(Overflow, at), Read1(1, at) = Ok(v, rest)
  PROVE  TakeInfoField(got, s) = Ok(Goes([got EXCEPT !.overflows = IF v = 0 THEN 0 ELSE 1]), rest)
BY DEF TakeInfoField, Then, Ok, Overflow, BucketNumber, OutOfOrder

LEMMA BucketNumberRead ==
  ASSUME NEW got, NEW s, NEW at, NEW rest, NEW v,
         TakeNumber(s) = Ok(BucketNumber, at), Read1(4, at) = Ok(v, rest)
  PROVE  TakeInfoField(got, s) = Ok(Goes([got EXCEPT !.bucket_number = v]), rest)
BY DEF TakeInfoField, Then, Ok, Overflow, BucketNumber, OutOfOrder

LEMMA OutOfOrderRead ==
  ASSUME NEW got, NEW s, NEW at, NEW more, NEW rest, NEW n, NEW v,
         TakeNumber(s) = Ok(OutOfOrder, at), TakeNumber(at) = Ok(n, more), Read(n, 4, more) = Ok(v, rest)
  PROVE  TakeInfoField(got, s) = Ok(Goes([got EXCEPT !.out_of_order_buckets = v]), rest)
BY DEF TakeInfoField, Then, Ok, Overflow, BucketNumber, OutOfOrder

LEMMA PairRead ==
  ASSUME NEW a \in Seq(AllUnits), NEW b \in Seq(AllUnits), Len(a) >= 1
  PROVE  /\ AllWritten(<<Written(a), Written(b)>>) = Written(Before(a, b))
         /\ Before(a, b) \in Seq(AllUnits) /\ Len(Before(a, b)) >= 1
         /\ \A rest \in Seq(AllUnits) : /\ Before(b, rest) \in Seq(AllUnits)
                                        /\ Before(Before(a, b), rest) = Before(a, Before(b, rest))
<1>1. AllWritten(<<Written(a), Written(b)>>) = Written(Before(a, b))
  BY PairWritten DEF Before
<1>2. Len(Before(a, b)) >= 1
  BY DEF Before
<1> QED BY <1>1, <1>2, BeforeLaws

LEMMA TaggedRead ==
  ASSUME NEW info \in Infos, NEW field \in Tags
  PROVE  \E w \in Seq(AllUnits) :
           /\ Tagged(info, field) = Written(w) /\ Len(w) >= 1
           /\ \A got : \A rest \in Seq(AllUnits) :
                Round("info", got, Before(w, rest)) = Ok(Goes(Noted(got, info, field)), rest)
<1>0. /\ info.overflows \in 0 .. 1 /\ info.bucket_number \in Int
      /\ info.out_of_order_buckets \in Seq(Int) /\ Len(info.out_of_order_buckets) \in Words
  BY DEF Infos
<1> DEFINE a == Bytes(field)
<1>1. field \in 1 .. 3 /\ field \in Words
  BY SmallWords DEF Tags, Overflow, BucketNumber, OutOfOrder
<1>2. /\ Number(field) = Written(a) /\ a \in Seq(AllUnits) /\ Len(a) >= 1
      /\ \A rest \in Seq(AllUnits) : TakeNumber(Before(a, rest)) = Ok(field, rest)
  BY <1>1, NumberBack DEF Before
<1>3. \A got, s : Round("info", got, s) = TakeInfoField(got, s)
  BY DEF Round
<1> HIDE DEF a
<1>4. CASE field = Overflow
  <2> DEFINE b == <<Unit(1, info.overflows)>>
  <2>1. /\ b \in Seq(AllUnits)
        /\ \A rest \in Seq(AllUnits) : Read1(1, Before(b, rest)) = Ok(info.overflows, rest)
    <3>1. 1 \in Nat /\ info.overflows \in Int \cup Seq(Characters)
      BY <1>0
    <3> QED BY <3>1, UnitBack DEF Before
  <2>2. Tagged(info, field) = AllWritten(<<Number(field), Written(b)>>)
    BY <1>4 DEF Tagged, Overflow, BucketNumber, OutOfOrder
  <2> HIDE DEF b
  <2>3. Tagged(info, field) = Written(Before(a, b))
    BY <1>2, <2>1, <2>2, PairRead
  <2>4. ASSUME NEW got, NEW rest \in Seq(AllUnits)
        PROVE  TakeInfoField(got, Before(Before(a, b), rest)) = Ok(Goes(Noted(got, info, field)), rest)
    <3>1. TakeNumber(Before(Before(a, b), rest)) = Ok(field, Before(b, rest))
      BY <1>2, <2>1, PairRead
    <3>2. Read1(1, Before(b, rest)) = Ok(info.overflows, rest)
      BY <2>1
    <3>3. [got EXCEPT !.overflows = IF info.overflows = 0 THEN 0 ELSE 1] = Noted(got, info, field)
      <4>1. info.overflows = IF info.overflows = 0 THEN 0 ELSE 1
        BY <1>0
      <4> QED BY <4>1, <1>4, Zenon DEF Noted
    <3>4. TakeInfoField(got, Before(Before(a, b), rest)) =
            Ok(Goes([got EXCEPT !.overflows = IF info.overflows = 0 THEN 0 ELSE 1]), rest)
      <4>1. TakeNumber(Before(Before(a, b), rest)) = Ok(Overflow, Before(b, rest))
        BY <1>4, <3>1
      <4> QED BY <4>1, <3>2, OverflowRead
    <3> QED BY <3>3, <3>4
  <2>5. Before(a, b) \in Seq(AllUnits) /\ Len(Before(a, b)) >= 1
    BY <1>2, <2>1, PairRead
  <2> QED BY <1>3, <2>3, <2>4, <2>5
<1>5. CASE field = BucketNumber
  <2> DEFINE b == <<Unit(4, info.bucket_number)>>
  <2>1. /\ b \in Seq(AllUnits)
        /\ \A rest \in Seq(AllUnits) : Read1(4, Before(b, rest)) = Ok(info.bucket_number, rest)
    <3>1. 4 \in Nat /\ info.bucket_number \in Int \cup Seq(Characters)
      BY <1>0
    <3> QED BY <3>1, UnitBack DEF Before
  <2>2. Tagged(info, field) = AllWritten(<<Number(field), Written(b)>>)
    BY <1>5 DEF Tagged, Overflow, BucketNumber, OutOfOrder
  <2> HIDE DEF b
  <2>3. Tagged(info, field) = Written(Before(a, b))
    BY <1>2, <2>1, <2>2, PairRead
  <2>4. ASSUME NEW got, NEW rest \in Seq(AllUnits)
        PROVE  TakeInfoField(got, Before(Before(a, b), rest)) = Ok(Goes(Noted(got, info, field)), rest)
    <3>1. TakeNumber(Before(Before(a, b), rest)) = Ok(field, Before(b, rest))
      BY <1>2, <2>1, PairRead
    <3>2. Read1(4, Before(b, rest)) = Ok(info.bucket_number, rest)
      BY <2>1
    <3>3. [got EXCEPT !.bucket_number = info.bucket_number] = Noted(got, info, field)
      BY <1>5 DEF Noted, Overflow, BucketNumber
    <3>4. TakeInfoField(got, Before(Before(a, b), rest)) =
            Ok(Goes([got EXCEPT !.bucket_number = info.bucket_number]), rest)
      <4>1. TakeNumber(Before(Before(a, b), rest)) = Ok(BucketNumber, Before(b, rest))
        BY <1>5, <3>1
      <4> QED BY <4>1, <3>2, BucketNumberRead
    <3> QED BY <3>3, <3>4
  <2>5. Before(a, b) \in Seq(AllUnits) /\ Len(Before(a, b)) >= 1
    BY <1>2, <2>1, PairRead
  <2> QED BY <1>3, <2>3, <2>4, <2>5
<1>6. CASE field = OutOfOrder
  <2> DEFINE buckets == info.out_of_order_buckets
             n == Len(buckets)
             b == Bytes(n)
             c == Units(4, buckets)
             d == Before(b, c)
  <2>1. /\ Number(n) = Written(b) /\ b \in Seq(AllUnits) /\ Len(b) >= 1
        /\ \A rest \in Seq(AllUnits) : TakeNumber(Before(b, rest)) = Ok(n, rest)
    BY <1>0, NumberBack DEF Before
  <2>2. /\ c \in Seq(AllUnits)
        /\ \A rest \in Seq(AllUnits) : Read(n, 4, Before(c, rest)) = Ok(buckets, rest)
    <3>1. 4 \in Nat
      OBVIOUS
    <3> QED BY <1>0, <3>1, UnitsBack DEF Before
  <2>3. Tagged(info, field) = AllWritten(<<Number(field), Number(n), Written(c)>>)
    BY <1>6 DEF Tagged, Overflow, BucketNumber, OutOfOrder
  <2> HIDE DEF b, c, n
  <2>4. /\ d \in Seq(AllUnits)
        /\ \A rest \in Seq(AllUnits) : Before(d, rest) = Before(b, Before(c, rest)) /\ Before(c, rest) \in Seq(AllUnits)
    BY <2>1, <2>2, BeforeLaws
  <2>5. Tagged(info, field) = Written(Before(a, d))
    <3>1. AllWritten(<<Written(a), Written(b), Written(c)>>) = Written(Before(a, d))
      BY <1>2, <2>1, <2>2, TripleWritten DEF Before
    <3> QED BY <1>2, <2>1, <2>3, <3>1
  <2> HIDE DEF d, buckets
  <2>6. ASSUME NEW got, NEW rest \in Seq(AllUnits)
        PROVE  TakeInfoField(got, Before(Before(a, d), rest)) = Ok(Goes(Noted(got, info, field)), rest)
    <3> DEFINE at == Before(c, rest)
    <3>1. TakeNumber(Before(Before(a, d), rest)) = Ok(field, Before(b, at))
      <4>1. at \in Seq(AllUnits) /\ Before(d, rest) = Before(b, at) /\ Before(d, rest) \in Seq(AllUnits)
        BY <2>1, <2>4, BeforeLaws
      <4> HIDE DEF at
      <4>2. Before(Before(a, d), rest) = Before(a, Before(b, at)) /\ Before(b, at) \in Seq(AllUnits)
        BY <1>2, <2>4, <4>1, BeforeLaws
      <4> QED BY <1>2, <4>2
    <3>2. TakeNumber(Before(b, at)) = Ok(n, at) /\ Read(n, 4, at) = Ok(buckets, rest)
      BY <2>1, <2>2, <2>4
    <3>3. [got EXCEPT !.out_of_order_buckets = buckets] = Noted(got, info, field)
      BY <1>6 DEF Noted, Overflow, BucketNumber, OutOfOrder, buckets
    <3> HIDE DEF at
    <3>4. TakeInfoField(got, Before(Before(a, d), rest)) = Ok(Goes([got EXCEPT !.out_of_order_buckets = buckets]), rest)
      <4>1. TakeNumber(Before(Before(a, d), rest)) = Ok(OutOfOrder, Before(b, at))
        BY <1>6, <3>1
      <4> QED BY <4>1, <3>2, OutOfOrderRead
    <3> QED BY <3>3, <3>4
  <2>7. Before(a, d) \in Seq(AllUnits) /\ Len(Before(a, d)) >= 1
    BY <1>2, <2>4, PairRead
  <2> QED BY <1>3, <2>5, <2>6, <2>7
<1> QED BY <1>4, <1>5, <1>6 DEF Tags

(* What has been noted behind the first i fields. *)
Seen(order, i, field) == \E j \in 1 .. i : order[j] = field
Collected(info, order, i) ==
  [overflows |-> IF Seen(order, i, Overflow) THEN info.overflows ELSE 0,
   bucket_number |-> IF Seen(order, i, BucketNumber) THEN info.bucket_number ELSE -1,
   out_of_order_buckets |-> IF Seen(order, i, OutOfOrder) THEN info.out_of_order_buckets ELSE <<>>]

LEMMA CollectedSteps ==
  ASSUME NEW info, NEW n \in Nat, NEW order \in [1 .. n -> Tags]
  PROVE  /\ Collected(info, order, 0) = NewInfo
         /\ \A i \in 1 .. n : Collected(info, order, i) = Noted(Collected(info, order, i - 1), info, order[i])
<1>1. Collected(info, order, 0) = NewInfo
  BY DEF Collected, NewInfo, Seen
<1>2. ASSUME NEW i \in 1 .. n
      PROVE  Collected(info, order, i) = Noted(Collected(info, order, i - 1), info, order[i])
  <2>1. \A field : Seen(order, i, field) <=> Seen(order, i - 1, field) \/ order[i] = field
    <3>1. \A j : j \in 1 .. i <=> j \in 1 .. i - 1 \/ j = i
      OBVIOUS
    <3> QED BY <3>1, Zenon DEF Seen
  <2>2. order[i] \in Tags
    OBVIOUS
  <2>3. Overflow # BucketNumber /\ Overflow # OutOfOrder /\ BucketNumber # OutOfOrder
    BY DEF Overflow, BucketNumber, OutOfOrder
  <2> HIDE DEF Overflow, BucketNumber, OutOfOrder
  <2>4. CASE order[i] = Overflow
    BY <2>1, <2>3, <2>4 DEF Collected, Noted
  <2>5. CASE order[i] = BucketNumber
    BY <2>1, <2>3, <2>5 DEF Collected, Noted
  <2>6. CASE order[i] = OutOfOrder
    BY <2>1, <2>3, <2>6 DEF Collected, Noted
  <2> QED BY <2>2, <2>4, <2>5, <2>6 DEF Tags
<1> QED BY <1>1, <1>2

(* Fields in any order, any of them left out or repeated, up to the end. *)
LEMMA InfoRead ==
  ASSUME NEW info \in Infos, NEW n \in Nat, NEW order \in [1 .. n -> Tags]
  PROVE  \E u \in Seq(AllUnits) :
           /\ AllWritten([i \in 1 .. n |-> Tagged(info, order[i])]) = Written(u)
           /\ \A rest \in Seq(AllUnits) :
                TakeInfo(Before(u, Before(Bytes(0), rest)), NewInfo) = Ok(Collected(info, order, n), rest)
<1> DEFINE Is(w, i) == /\ w \in Seq(AllUnits) /\ Tagged(info, order[i]) = Written(w) /\ Len(w) >= 1
                       /\ \A got : \A rest \in Seq(AllUnits) :
                            Round("info", got, Before(w, rest)) = Ok(Goes(Noted(got, info, order[i])), rest)
           w == [i \in 1 .. n |-> CHOOSE x : Is(x, i)]
           states == [i \in 0 .. n |-> Collected(info, order, i)]
           e == Bytes(0)
<1>1. ASSUME NEW i \in 1 .. n PROVE Is(w[i], i)
  <2>1. order[i] \in Tags
    OBVIOUS
  <2>2. \E x \in Seq(AllUnits) :
          /\ Tagged(info, order[i]) = Written(x) /\ Len(x) >= 1
          /\ \A got : \A rest \in Seq(AllUnits) :
               Round("info", got, Before(x, rest)) = Ok(Goes(Noted(got, info, order[i])), rest)
    BY <2>1, TaggedRead, Zenon
  <2>3. \E x : Is(x, i)
    BY <2>2
  <2>4. Is(CHOOSE x : Is(x, i), i)
    <3> HIDE DEF Is
    <3> QED BY <2>3, Zenon
  <2>5. w[i] = CHOOSE x : Is(x, i)
    <3> HIDE DEF Is
    <3> QED OBVIOUS
  <2> HIDE DEF w, Is
  <2> QED BY <2>4, <2>5
<1> HIDE DEF w
<1>2. /\ states[0] = NewInfo /\ states[n] = Collected(info, order, n)
      /\ \A i \in 1 .. n : states[i] = Noted(states[i - 1], info, order[i])
  <2>1. /\ Collected(info, order, 0) = NewInfo
        /\ \A i \in 1 .. n : Collected(info, order, i) = Noted(Collected(info, order, i - 1), info, order[i])
    BY CollectedSteps
  <2>2. \A i \in 0 .. n : states[i] = Collected(info, order, i)
    OBVIOUS
  <2>3. 0 \in 0 .. n /\ n \in 0 .. n /\ \A i \in 1 .. n : i \in 0 .. n /\ i - 1 \in 0 .. n
    OBVIOUS
  <2> HIDE DEF states
  <2>4. ASSUME NEW i \in 1 .. n PROVE states[i] = Noted(states[i - 1], info, order[i])
    BY <2>1, <2>2, <2>3
  <2> QED BY <2>1, <2>2, <2>3, <2>4
<1> HIDE DEF states
<1>3. /\ Number(0) = Written(e) /\ e \in Seq(AllUnits)
      /\ \A rest \in Seq(AllUnits) : TakeNumber(Before(e, rest)) = Ok(0, rest)
  BY SmallWords, NumberBack DEF Before
<1> HIDE DEF e
<1>4. ASSUME NEW rest \in Seq(AllUnits)
      PROVE  Round("info", states[n], Before(e, rest)) = Ok(Ends(states[n]), rest)
  <2>1. TakeInfoField(states[n], Before(e, rest)) = Ok(Ends(states[n]), rest)
    BY <1>3, EndRead
  <2> QED BY <2>1 DEF Round
<1>5. ASSUME NEW i \in 1 .. n
      PROVE  /\ w[i] \in Seq(AllUnits) /\ Len(w[i]) >= 1
             /\ \A rest \in Seq(AllUnits) :
                  Round("info", states[i - 1], Before(w[i], rest)) = Ok(Goes(states[i]), rest)
  <2>1. states[i] = Noted(states[i - 1], info, order[i])
    BY <1>2
  <2> QED BY <1>1, <2>1
<1>6. Chained("info", n, w, states, e)
  BY <1>3, <1>4, <1>5, Zenon DEF Chained
<1>7. PICK u : ReadByLoop("info", n, w, states, e, u)
  BY <1>6, LoopRead
<1>8. /\ u \in Seq(AllUnits) /\ AllWritten([i \in 1 .. n |-> Written(w[i])]) = Written(u)
      /\ \A rest \in Seq(AllUnits) :
           \A f : IsLoop(f, <<Before(u, Before(e, rest)), states[0], "info">>) =>
                   Outcome(f[Len(Before(u, Before(e, rest))) + 1]) = Ok(states[n], rest)
  BY <1>7, Zenon DEF ReadByLoop
<1>9. AllWritten([i \in 1 .. n |-> Tagged(info, order[i])]) = Written(u)
  <2>1. [i \in 1 .. n |-> Tagged(info, order[i])] = [i \in 1 .. n |-> Written(w[i])]
    BY <1>1
  <2> QED BY <1>8, <2>1
<1>10. ASSUME NEW rest \in Seq(AllUnits)
       PROVE  TakeInfo(Before(u, Before(e, rest)), NewInfo) = Ok(Collected(info, order, n), rest)
  <2> DEFINE s == Before(u, Before(e, rest))
  <2>1. s \in Seq(AllUnits)
    BY <1>3, <1>8, BeforeLaws
  <2>2. \A f : IsLoop(f, <<s, NewInfo, "info">>) => Outcome(f[Len(s) + 1]) = Ok(Collected(info, order, n), rest)
    BY <1>2, <1>8
  <2> HIDE DEF s
  <2>3. Len(s) \in Nat
    BY <2>1
  <2>4. TakeInfo(s, NewInfo) = Ok(Collected(info, order, n), rest)
    BY <2>2, <2>3, InfoLoop
  <2> QED BY <2>4 DEF s
<1> QED BY <1>8, <1>9, <1>10 DEF e

LEMMA InfoField ==
  ASSUME NEW info \in Infos
  PROVE  Undone("info?", <<info>>, <<[info EXCEPT !.out_of_order_buckets = <<>>]>>)
<1> DEFINE order == [i \in 1 .. 2 |-> IF i = 1 THEN Overflow ELSE BucketNumber]
           meant == [info EXCEPT !.out_of_order_buckets = <<>>]
           e == Bytes(0)
<1>0. Overflow = 1 /\ BucketNumber = 2 /\ OutOfOrder = 3
  BY DEF Overflow, BucketNumber, OutOfOrder
<1>1. order \in [1 .. 2 -> Tags] /\ order[1] = Overflow /\ order[2] = BucketNumber /\ 2 \in Nat
  BY DEF Tags
<1> HIDE DEF order
<1>2. PICK u \in Seq(AllUnits) :
         /\ AllWritten([i \in 1 .. 2 |-> Tagged(info, order[i])]) = Written(u)
         /\ \A rest \in Seq(AllUnits) :
              TakeInfo(Before(u, Before(e, rest)), NewInfo) = Ok(Collected(info, order, 2), rest)
  BY <1>1, InfoRead, Zenon
<1>3. PICK a \in Seq(AllUnits) : Tagged(info, Overflow) = Written(a)
  BY TaggedRead, Zenon DEF Tags
<1>4. PICK b \in Seq(AllUnits) : Tagged(info, BucketNumber) = Written(b)
  BY TaggedRead, Zenon DEF Tags
<1>5. Number(0) = Written(e) /\ e \in Seq(AllUnits)
  BY SmallWords, NumberBack
<1>6. u = Before(a, b)
  <2>1. [i \in 1 .. 2 |-> Tagged(info, order[i])] = <<Written(a), Written(b)>>
    <3> DEFINE f == [i \in 1 .. 2 |-> Tagged(info, order[i])]
    <3>1. f[1] = Written(a) /\ f[2] = Written(b)
      BY <1>1, <1>3, <1>4
    <3>2. f = [i \in 1 .. 2 |-> f[i]]
      OBVIOUS
    <3> HIDE DEF f
    <3>3. f = <<f[1], f[2]>>
      BY <3>2
    <3> QED BY <3>1, <3>3 DEF f
  <2>2. AllWritten(<<Written(a), Written(b)>>) = Written(Before(a, b))
    BY PairWritten DEF Before
  <2>3. Written(u) = Written(Before(a, b))
    BY <1>2, <2>1, <2>2
  <2> QED BY <2>3 DEF Written
<1> HIDE DEF e
<1>7. /\ Before(u, e) \in Seq(AllUnits)
      /\ \A rest \in Seq(AllUnits) : Before(Before(u, e), rest) = Before(u, Before(e, rest))
  BY <1>2, <1>5, BeforeLaws
<1>8. Put("info?", <<info>>) = Written(Before(u, e))
  <2>1. Put("info?", <<info>>) = WriteInfo(info)
    BY DEF Put, PutGiven, Absent
  <2>2. WriteInfo(info) = AllWritten(<<Written(a), Written(b), Written(e)>>)
    BY <1>3, <1>4, <1>5 DEF WriteInfo
  <2>3. AllWritten(<<Written(a), Written(b), Written(e)>>) = Written(Before(a, Before(b, e)))
    BY <1>5, TripleWritten DEF Before
  <2>4. Before(a, Before(b, e)) = Before(u, e)
    BY <1>5, <1>6, BeforeLaws
  <2> QED BY <2>1, <2>2, <2>3, <2>4
<1>9. Collected(info, order, 2) = meant
  <2>1. Seen(order, 2, Overflow) /\ Seen(order, 2, BucketNumber) /\ ~ Seen(order, 2, OutOfOrder)
    BY <1>0, <1>1 DEF Seen
  <2>2. info = [overflows |-> info.overflows, bucket_number |-> info.bucket_number,
                out_of_order_buckets |-> info.out_of_order_buckets]
    BY DEF Infos
  <2> QED BY <2>1, <2>2 DEF Collected
<1> HIDE DEF meant
<1>10. ASSUME NEW rest \in Seq(AllUnits)
       PROVE  Take("info?", Before(u, e) \o rest) = Ok(<<meant>>, rest)
  <2>1. TakeInfo(Before(Before(u, e), rest), NewInfo) = Ok(meant, rest)
    BY <1>2, <1>7, <1>9 DEF e
  <2>2. \A s, r : TakeInfo(s, NewInfo) = Ok(meant, r) => Take("info?", s) = Ok(<<meant>>, r)
    BY DEF Take, Some, Then, Ok
  <2> QED BY <2>1, <2>2 DEF Before
<1> QED BY <1>7, <1>8, <1>10 DEF Undone, meant

-----------------------------------------------------------------------------
(* A field of a packet that is there is written whole and read as what     *)
(* Found says of it.                                                       *)

Ways == {"bool", "flag", "kind", "stage", "interface", "i32", "varuint", "string", "i64?", "varuint?",
         "varuint or 0", "flag?", "bool or 0", "string?", "settings", "params", "info?", "columns",
         "roles", "trace", "jwt"}

Meant(as, v) ==
  CASE as = "info?" -> <<[v[1] EXCEPT !.out_of_order_buckets = <<>>]>>
    [] as \in {"varuint or 0", "bool or 0"} -> <<OrElse(v, 0)>>
    [] as \in {"trace", "jwt"} -> 0
    [] as = "roles" -> <<"0">>
    [] OTHER -> v

(* A list of settings or of parameters ends where a name is empty. *)
Named(as, v) == as \in {"settings", "params"} => \A i \in DOMAIN v : v[i].key # <<>>

(* encode stops at nothing else. *)
Given(as, v) ==
  /\ as \in {"i64?", "varuint?", "flag?", "string?", "info?"} => v # Absent
  /\ as = "interface" => v = 1

LEMMA WholeGiven ==
  ASSUME NEW as, NEW v, Put(as, v).whole
  PROVE  Given(as, v)
<1>1. ASSUME as \in {"i64?", "varuint?", "flag?", "string?", "info?"}, v = Absent
      PROVE  FALSE
  <2>1. Put(as, v) = Refused
    BY <1>1 DEF Put
  <2> QED BY <2>1 DEF Refused
<1>2. ASSUME as = "interface" PROVE v = 1
  BY <1>2 DEF Put
<1> QED BY <1>1, <1>2, Zenon DEF Given

LEMMA OptionCases ==
  ASSUME NEW S, NEW option \in Options(S)
  PROVE  option = Absent \/ \E x \in S : option = <<x>>
<1>1. option \in Seq(S) /\ (Len(option) = 0 \/ Len(option) = 1)
  <2>1. option \in Seq(S) /\ Len(option) <= 1
    BY DEF Options
  <2>2. Len(option) \in Nat
    BY <2>1
  <2>3. \A n \in Nat : n <= 1 => n = 0 \/ n = 1
    OBVIOUS
  <2> QED BY <2>1, <2>2, <2>3, Zenon
<1>2. CASE Len(option) = 0
  BY <1>1, <1>2 DEF Absent
<1>3. CASE Len(option) = 1
  <2>1. option[1] \in S /\ option = <<option[1]>>
    BY <1>1, <1>3
  <2> QED BY <2>1
<1> QED BY <1>1, <1>2, <1>3

LEMMA OptionalBack ==
  ASSUME NEW as \in {"i64?", "varuint?", "flag?", "string?", "info?"}, NEW v \in Values(as), Given(as, v)
  PROVE  Undone(as, v, Meant(as, v))
<1>1. v # Absent
  BY DEF Given
<1>2. CASE as = "i64?"
  <2>1. v \in Options(Int) /\ Meant(as, v) = v
    BY <1>2 DEF Values, Meant
  <2>2. PICK x \in Int : v = <<x>>
    BY <1>1, <2>1, OptionCases, Zenon
  <2> QED BY <1>2, <2>1, <2>2, UnitFields
<1>3. CASE as = "varuint?"
  <2>1. v \in Options(Words) /\ Meant(as, v) = v
    BY <1>3 DEF Values, Meant
  <2>2. PICK x \in Words : v = <<x>>
    BY <1>1, <2>1, OptionCases, Zenon
  <2> QED BY <1>3, <2>1, <2>2, NumberFields
<1>4. CASE as = "flag?"
  <2>1. v \in Options(0 .. 1) /\ Meant(as, v) = v
    BY <1>4 DEF Values, Meant
  <2>2. PICK x \in 0 .. 1 : v = <<x>>
    BY <1>1, <2>1, OptionCases, Zenon
  <2> QED BY <1>4, <2>1, <2>2, NumberFields
<1>5. CASE as = "string?"
  <2>1. v \in Options(Strings) /\ Meant(as, v) = v
    BY <1>5 DEF Values, Meant
  <2> QED BY <1>1, <1>5, <2>1, OptionCases, StringFields
<1>6. CASE as = "info?"
  <2>1. v \in Options(Infos) /\ Meant(as, v) = <<[v[1] EXCEPT !.out_of_order_buckets = <<>>]>>
    BY <1>6 DEF Values, Meant
  <2>2. PICK info \in Infos : v = <<info>>
    BY <1>1, <2>1, OptionCases
  <2>3. v[1] = info
    BY <2>2
  <2> QED BY <1>6, <2>1, <2>2, <2>3, InfoField
<1> QED BY <1>2, <1>3, <1>4, <1>5, <1>6

LEMMA DefaultBack ==
  ASSUME NEW as \in {"varuint or 0", "bool or 0"}, NEW v \in Values(as)
  PROVE  Undone(as, v, Meant(as, v))
<1>1. Meant(as, v) = <<OrElse(v, 0)>>
  BY DEF Meant
<1>2. OrElse(Absent, 0) = 0 /\ \A x : OrElse(<<x>>, 0) = x
  BY DEF OrElse, Absent
<1>3. CASE as = "varuint or 0"
  <2>1. v \in Options(Words)
    BY <1>3 DEF Values
  <2>2. CASE v = Absent
    BY <1>1, <1>2, <1>3, <2>2, NumberFields
  <2>3. CASE v # Absent
    <3>1. PICK x \in Words : v = <<x>>
      BY <2>1, <2>3, OptionCases
    <3> QED BY <1>1, <1>2, <1>3, <3>1, NumberFields
  <2> QED BY <2>2, <2>3
<1>4. CASE as = "bool or 0"
  <2>1. v \in Options(0 .. 1)
    BY <1>4 DEF Values
  <2>2. CASE v = Absent
    BY <1>1, <1>2, <1>4, <2>2, UnitFields
  <2>3. CASE v # Absent
    <3>1. PICK x \in 0 .. 1 : v = <<x>>
      BY <2>1, <2>3, OptionCases
    <3> QED BY <1>1, <1>2, <1>4, <3>1, UnitFields
  <2> QED BY <2>2, <2>3
<1> QED BY <1>3, <1>4

LEMMA FieldBack ==
  ASSUME NEW as \in Ways, NEW v, as \in Fixed \/ v \in Values(as), Given(as, v), Named(as, v)
  PROVE  Undone(as, v, Meant(as, v))
<1>1. CASE as \in {"trace", "jwt", "roles"}
  BY <1>1, UnitFields, StringFields DEF Meant
<1>2. CASE as \in {"i64?", "varuint?", "flag?", "string?", "info?"}
  <2>1. v \in Values(as)
    BY <1>2 DEF Fixed
  <2> QED BY <1>2, <2>1, OptionalBack
<1>3. CASE as \in {"varuint or 0", "bool or 0"}
  <2>1. v \in Values(as)
    BY <1>3 DEF Fixed
  <2> QED BY <1>3, <2>1, DefaultBack
<1>4. CASE as \in {"bool", "flag", "kind", "stage", "interface", "i32"}
  <2>1. v \in Values(as) /\ Meant(as, v) = v
    BY <1>4 DEF Fixed, Meant
  <2>2. CASE as = "bool"
    <3>1. v \in 0 .. 1
      BY <2>1, <2>2 DEF Values
    <3> QED BY <2>1, <2>2, <3>1, UnitFields
  <2>3. CASE as = "flag"
    <3>1. v \in 0 .. 1
      BY <2>1, <2>3 DEF Values
    <3> QED BY <2>1, <2>3, <3>1, NumberFields
  <2>4. CASE as = "kind"
    <3>1. v \in 0 .. 2
      BY <2>1, <2>4 DEF Values
    <3> QED BY <2>1, <2>4, <3>1, UnitFields
  <2>5. CASE as = "stage"
    <3>1. v \in 0 .. 2
      BY <2>1, <2>5 DEF Values
    <3> QED BY <2>1, <2>5, <3>1, NumberFields
  <2>6. CASE as = "interface"
    <3>1. v = 1
      BY <2>6 DEF Given
    <3> QED BY <2>1, <2>6, <3>1, UnitFields
  <2>7. CASE as = "i32"
    <3>1. v \in Int
      BY <2>1, <2>7 DEF Values
    <3> QED BY <2>1, <2>7, <3>1, UnitFields
  <2> QED BY <1>4, <2>2, <2>3, <2>4, <2>5, <2>6, <2>7
<1>5. CASE as \in {"varuint", "string", "settings", "params", "columns"}
  <2>1. v \in Values(as) /\ Meant(as, v) = v
    BY <1>5 DEF Fixed, Meant
  <2>2. CASE as = "varuint"
    <3>1. v \in Words
      BY <2>1, <2>2 DEF Values
    <3> QED BY <2>1, <2>2, <3>1, NumberFields
  <2>3. CASE as = "string"
    <3>1. v \in Strings
      BY <2>1, <2>3 DEF Values
    <3> QED BY <2>1, <2>3, <3>1, StringFields
  <2>4. CASE as = "settings"
    <3>1. v \in Seq(Settings) /\ \A i \in DOMAIN v : v[i].key # <<>>
      BY <2>1, <2>4 DEF Values, Named
    <3> QED BY <2>1, <2>4, <3>1, SettingsField
  <2>5. CASE as = "params"
    <3>1. v \in Seq(Params) /\ \A i \in DOMAIN v : v[i].key # <<>>
      BY <2>1, <2>5 DEF Values, Named
    <3> QED BY <2>1, <2>5, <3>1, ParamsField
  <2>6. CASE as = "columns"
    <3>1. v \in Blocks
      BY <2>1, <2>6 DEF Values
    <3> QED BY <2>1, <2>6, <3>1, ColumnsField
  <2> QED BY <1>5, <2>2, <2>3, <2>4, <2>5, <2>6
<1> QED BY <1>1, <1>2, <1>3, <1>4, <1>5 DEF Ways

-----------------------------------------------------------------------------
(* The fields of a layout in turn. *)

GotNone(x) == Ok(<<>>, x[2])
NextField(x, n, before) ==
  Then(before, LAMBDA got, at : Then(Take(x[1][n].as, at), LAMBDA v, rest :
         Ok(With(got, x[1][n].name, v), rest)))
Reading == INSTANCE Recursion WITH base <- GotNone, step <- NextField
ReadUpTo(fields, s) == CHOOSE f : f = [n \in 0 .. Len(fields) |->
  IF n = 0 THEN GotNone(<<fields, s>>) ELSE NextField(<<fields, s>>, n, f[n - 1])]

LEMMA FieldsRead ==
  ASSUME NEW S, NEW fields \in Seq(S), NEW s
  PROVE  /\ ReadFields(fields, s) = ReadUpTo(fields, s)[Len(fields)]
         /\ ReadUpTo(fields, s)[0] = Ok(<<>>, s)
         /\ \A n \in 1 .. Len(fields) :
              \A got, at, v, rest :
                ReadUpTo(fields, s)[n - 1] = Ok(got, at) /\ Take(fields[n].as, at) = Ok(v, rest)
                  => ReadUpTo(fields, s)[n] = Ok(With(got, fields[n].name, v), rest)
<1> DEFINE x == <<fields, s>>
<1>0. x[1] = fields /\ x[2] = s /\ Len(fields) \in Nat
  OBVIOUS
<1>1. \E f : f = [n \in 0 .. Len(fields) |-> IF n = 0 THEN GotNone(x) ELSE NextField(x, n, f[n - 1])]
  <2> HIDE DEF x
  <2> QED BY <1>0, Reading!Exists
<1>2. Reading!IsUpTo(ReadUpTo(fields, s), x, Len(fields))
  BY <1>1, Zenon DEF ReadUpTo, Reading!IsUpTo
<1>3. ReadFields(fields, s) = ReadUpTo(fields, s)[Len(fields)]
  <2>1. \A a, b : <<a, b>>[1] = a /\ <<a, b>>[2] = b
    OBVIOUS
  <2> QED BY <2>1, Zenon DEF ReadFields, ReadUpTo, GotNone, NextField, Then
<1>4. /\ ReadUpTo(fields, s)[0] = GotNone(x)
      /\ \A n \in 1 .. Len(fields) : ReadUpTo(fields, s)[n] = NextField(x, n, ReadUpTo(fields, s)[n - 1])
  BY <1>0, <1>2, Reading!Unfolds
<1>5. ASSUME NEW got, NEW at, NEW v, NEW rest, NEW n, Take(fields[n].as, at) = Ok(v, rest)
      PROVE  NextField(x, n, Ok(got, at)) = Ok(With(got, fields[n].name, v), rest)
  <2>1. NextField(x, n, Ok(got, at)) = Then(Ok(v, rest), LAMBDA w, behind :
                                           Ok(With(got, fields[n].name, w), behind))
    BY <1>5, <1>0, Zenon DEF NextField, Then, Ok
  <2> QED BY <2>1, Zenon DEF Then, Ok
<1> HIDE DEF x
<1>6. GotNone(x) = Ok(<<>>, s)
  BY <1>0 DEF GotNone
<1> QED BY <1>3, <1>4, <1>5, <1>6

(* The one way in which the field of a name is written. *)
WayOf(name) ==
  IF name \in {"query_id", "initial_user", "initial_query_id", "initial_address", "os_user",
               "client_hostname", "client_name", "cluster_secret", "body", "table_name", "name",
               "message", "stack_trace", "database", "user", "password", "external_table",
               "columns_description", "timezone"} THEN "string"
  ELSE IF name \in {"version_major", "version_minor", "version_index", "rows", "bytes", "total_rows",
                    "blocks", "rows_before_limit"} THEN "varuint"
  ELSE IF name \in {"distributed_depth", "version_patch", "obsolete_count_participating_replicas",
                    "count_current_replicas"} THEN "varuint?"
  ELSE IF name \in {"script_query_number", "script_line_number", "total_bytes", "wrote_rows",
                    "wrote_bytes", "elapsed_ns", "rows_before_aggregation"} THEN "varuint or 0"
  ELSE IF name \in {"applied_limit", "calculated_rows_before_limit", "nested"} THEN "bool"
  ELSE IF name = "query_kind" THEN "kind"
  ELSE IF name = "initial_time" THEN "i64?"
  ELSE IF name = "query_interface" THEN "interface"
  ELSE IF name = "quota_key" THEN "string?"
  ELSE IF name = "collaborate_with_initiator" THEN "flag?"
  ELSE IF name = "compression" THEN "flag"
  ELSE IF name = "applied_aggregation" THEN "bool or 0"
  ELSE IF name = "code" THEN "i32"
  ELSE IF name = "info" THEN "info?"
  ELSE IF name \in {"trace", "jwt", "settings", "roles", "stage", "params", "columns"} THEN name
  ELSE "none"

Names ==
  {"query_id", "initial_user", "initial_query_id", "initial_address", "os_user",
   "client_hostname", "client_name", "cluster_secret", "body", "table_name", "name", "message",
   "stack_trace", "database", "user", "password", "external_table", "columns_description",
   "timezone", "version_major", "version_minor", "version_index", "rows", "bytes",
   "total_rows", "blocks", "rows_before_limit", "distributed_depth", "version_patch",
   "obsolete_count_participating_replicas", "count_current_replicas", "script_query_number",
   "script_line_number", "total_bytes", "wrote_rows", "wrote_bytes", "elapsed_ns",
   "rows_before_aggregation", "applied_limit", "calculated_rows_before_limit", "nested",
   "query_kind", "initial_time", "query_interface", "quota_key", "collaborate_with_initiator",
   "compression", "applied_aggregation", "code", "trace", "jwt", "roles", "stage", "columns",
   "settings", "params", "info"}

Laid == {f \in [as : Ways, name : Names] : f.as = WayOf(f.name)}

(* Of the first n fields each has been found, as what it is meant to say. *)
Gathered(fields, r, n, got) ==
  \A j \in 1 .. n : /\ fields[j].name \in DOMAIN got
                    /\ got[fields[j].name] = Meant(fields[j].as, r[fields[j].name])

LEMMA OneMore ==
  ASSUME NEW fields \in Seq(Laid), NEW r, NEW n \in 1 .. Len(fields), NEW got,
         Gathered(fields, r, n - 1, got)
  PROVE  Gathered(fields, r, n, With(got, fields[n].name, Meant(fields[n].as, r[fields[n].name])))
<1> DEFINE name == fields[n].name
           v == Meant(fields[n].as, r[fields[n].name])
           more == With(got, name, v)
<1>1. \A j \in 1 .. n : fields[j] \in Laid /\ (j = n \/ j \in 1 .. n - 1)
  OBVIOUS
<1>2. name \in DOMAIN more /\ more[name] = v
  BY DEF With
<1>3. \A x \in DOMAIN got : x # name => x \in DOMAIN more /\ more[x] = got[x]
  BY DEF With
<1>4. ASSUME NEW j \in 1 .. n, fields[j].name = name
      PROVE  Meant(fields[j].as, r[fields[j].name]) = v
  <2>1. fields[j].as = WayOf(name) /\ fields[n].as = WayOf(name)
    BY <1>1, <1>4 DEF Laid
  <2> QED BY <1>4, <2>1
<1> HIDE DEF name, v, more
<1>5. ASSUME NEW j \in 1 .. n
      PROVE  /\ fields[j].name \in DOMAIN more
             /\ more[fields[j].name] = Meant(fields[j].as, r[fields[j].name])
  <2>1. CASE fields[j].name = name
    BY <1>2, <1>4, <2>1
  <2>2. CASE fields[j].name # name
    <3>1. j \in 1 .. n - 1
      BY <1>1, <2>2 DEF name
    <3>2. fields[j].name \in DOMAIN got /\ got[fields[j].name] = Meant(fields[j].as, r[fields[j].name])
      BY <3>1 DEF Gathered
    <3> QED BY <1>3, <2>2, <3>2
  <2> QED BY <2>1, <2>2
<1> QED BY <1>5 DEF Gathered, more, name, v

(* What is whole is whole in all its parts. *)
LEMMA WholeParts ==
  ASSUME NEW parts, Len(parts) \in Nat, AllWritten(parts).whole
  PROVE  \A n \in 1 .. Len(parts) : parts[n].whole
<1> DEFINE N == Len(parts)
           S == {k \in Nat : k <= N => Joined(parts)[N - k].whole}
<1>1. /\ AllWritten(parts) = Joined(parts)[N]
      /\ \A n \in 1 .. N : Joined(parts)[n] = Followed(Joined(parts)[n - 1], parts[n])
  BY JoinedParts
<1>2. \A a, b : Followed(a, b).whole => a.whole /\ b.whole
  BY DEF Followed
<1>3. 0 \in S
  BY <1>1
<1>4. ASSUME NEW k \in Nat, k \in S
      PROVE  k + 1 \in S
  <2> SUFFICES ASSUME k + 1 <= N PROVE Joined(parts)[N - (k + 1)].whole
    OBVIOUS
  <2>1. k <= N /\ N - k \in 1 .. N /\ N - k - 1 = N - (k + 1) /\ Joined(parts)[N - k].whole
    BY <1>4
  <2>2. Joined(parts)[N - k] = Followed(Joined(parts)[N - (k + 1)], parts[N - k])
    BY <1>1, <2>1
  <2>3. Followed(Joined(parts)[N - (k + 1)], parts[N - k]).whole
    BY <2>1, <2>2, Zenon
  <2> QED BY <1>2, <2>3, Zenon
<1>5. Nat \subseteq S
  <2> HIDE DEF S
  <2> QED BY <1>3, <1>4, Parts!FromBelow
<1>6. ASSUME NEW n \in 1 .. N
      PROVE  parts[n].whole
  <2>1. N - n \in S /\ N - n <= N /\ N - (N - n) = n
    BY <1>5
  <2>2. Joined(parts)[n].whole
    BY <2>1
  <2>3. Followed(Joined(parts)[n - 1], parts[n]).whole
    BY <1>1, <2>2, Zenon
  <2> QED BY <1>2, <2>3, Zenon
<1> QED BY <1>6

(* decode undoes encode: a record whose fields all have been written is    *)
(* read again to its last unit, with every field as it was meant.          *)
LEMMA FieldsBack ==
  ASSUME NEW fields \in Seq(Laid), NEW r, Holds(r, fields),
         \A i \in DOMAIN fields : /\ Given(fields[i].as, r[fields[i].name])
                                  /\ Named(fields[i].as, r[fields[i].name])
  PROVE  \E u \in Seq(AllUnits) : \E got :
           /\ WriteFields(fields, r) = Written(u)
           /\ ReadFields(fields, u) = Ok(got, <<>>)
           /\ Gathered(fields, r, Len(fields), got)
<1> DEFINE N == Len(fields)
           val(i) == r[fields[i].name]
           parts == [i \in DOMAIN fields |-> Put(fields[i].as, val(i))]
           j == Joined(parts)
           After(u, n) == \A rest \in Seq(AllUnits) : \E got :
                            /\ ReadUpTo(fields, Before(u, rest))[n] = Ok(got, rest)
                            /\ Gathered(fields, r, n, got)
           S == {n \in Nat : n <= N => \E u \in Seq(AllUnits) : j[n] = Written(u) /\ After(u, n)}
<1>1. /\ N \in Nat /\ DOMAIN fields = 1 .. N /\ Len(parts) = N
      /\ \A n \in 1 .. N : parts[n] = Put(fields[n].as, val(n)) /\ fields[n] \in Laid
  OBVIOUS
<1>2. WriteFields(fields, r) = AllWritten(parts)
  BY DEF WriteFields
<1> HIDE DEF parts, j
<1>3. /\ AllWritten(parts) = j[N] /\ j[0] = Written(<<>>)
      /\ \A n \in 1 .. N : j[n] = Followed(j[n - 1], parts[n])
  BY <1>1, JoinedParts DEF j
<1>4. ASSUME NEW n \in 1 .. N
      PROVE  Undone(fields[n].as, val(n), Meant(fields[n].as, val(n)))
  <2>1. fields[n].as \in Ways
    BY <1>1 DEF Laid
  <2>2. fields[n].as \in Fixed \/ val(n) \in Values(fields[n].as)
    BY <1>1 DEF Holds
  <2>3. Given(fields[n].as, val(n)) /\ Named(fields[n].as, val(n))
    BY <1>1
  <2> HIDE DEF val
  <2> QED BY <2>1, <2>2, <2>3, FieldBack
<1>5. \A s : /\ ReadFields(fields, s) = ReadUpTo(fields, s)[N]
             /\ ReadUpTo(fields, s)[0] = Ok(<<>>, s)
             /\ \A n \in 1 .. N : \A got, at, v, rest :
                  ReadUpTo(fields, s)[n - 1] = Ok(got, at) /\ Take(fields[n].as, at) = Ok(v, rest)
                    => ReadUpTo(fields, s)[n] = Ok(With(got, fields[n].name, v), rest)
  BY FieldsRead
<1>6. 0 \in S
  <2>1. <<>> \in Seq(AllUnits) /\ \A rest \in Seq(AllUnits) : Before(<<>>, rest) = rest
    BY ConcatEmptySeq DEF Before
  <2>2. \A got : Gathered(fields, r, 0, got)
    BY DEF Gathered
  <2>3. After(<<>>, 0)
    BY <1>5, <2>1, <2>2
  <2> HIDE DEF After
  <2> QED BY <1>3, <2>1, <2>3
<1>7. ASSUME NEW m \in Nat, m \in S
      PROVE  m + 1 \in S
  <2> DEFINE n == m + 1
             meant == Meant(fields[n].as, val(n))
  <2> SUFFICES ASSUME n <= N PROVE \E u \in Seq(AllUnits) : j[n] = Written(u) /\ After(u, n)
    OBVIOUS
  <2>1. n \in 1 .. N /\ m <= N /\ n - 1 = m
    OBVIOUS
  <2>2. PICK u \in Seq(AllUnits) : j[m] = Written(u) /\ After(u, m)
    BY <1>7, <2>1
  <2>3. Undone(fields[n].as, val(n), meant)
    BY <1>4, <2>1
  <2> HIDE DEF n, meant, val
  <2>4. PICK w \in Seq(AllUnits) :
           /\ Put(fields[n].as, val(n)) = Written(w)
           /\ \A rest \in Seq(AllUnits) : Take(fields[n].as, Before(w, rest)) = Ok(meant, rest)
    BY <2>3, Zenon DEF Undone, Before
  <2>5. j[n] = Written(Before(u, w))
    <3>1. j[n] = Followed(j[m], parts[n]) /\ parts[n] = Written(w)
      BY <1>1, <1>3, <2>1, <2>4
    <3> QED BY <2>2, <3>1, TwoFollow DEF Before
  <2>6. /\ Before(u, w) \in Seq(AllUnits)
        /\ \A rest \in Seq(AllUnits) : /\ Before(w, rest) \in Seq(AllUnits)
                                       /\ Before(Before(u, w), rest) = Before(u, Before(w, rest))
    BY BeforeLaws
  <2>7. ASSUME NEW rest \in Seq(AllUnits)
        PROVE  \E got : /\ ReadUpTo(fields, Before(Before(u, w), rest))[n] = Ok(got, rest)
                        /\ Gathered(fields, r, n, got)
    <3> DEFINE s == Before(u, Before(w, rest))
    <3>1. PICK got : /\ ReadUpTo(fields, s)[m] = Ok(got, Before(w, rest))
                     /\ Gathered(fields, r, m, got)
      BY <2>2, <2>6
    <3>2. s = Before(Before(u, w), rest)
      BY <2>6
    <3> HIDE DEF s
    <3>3. Take(fields[n].as, Before(w, rest)) = Ok(meant, rest)
      BY <2>4
    <3>4. ReadUpTo(fields, s)[n] = Ok(With(got, fields[n].name, meant), rest)
      BY <1>5, <2>1, <3>1, <3>3
    <3>5. Gathered(fields, r, n, With(got, fields[n].name, meant))
      BY <1>1, <2>1, <3>1, OneMore DEF meant, val
    <3> QED BY <3>2, <3>4, <3>5
  <2>8. After(Before(u, w), n)
    BY <2>7
  <2> HIDE DEF After
  <2> QED BY <2>5, <2>6, <2>8
<1>8. N \in S
  <2>1. Nat \subseteq S
    <3> HIDE DEF S
    <3> QED BY <1>6, <1>7, Parts!FromBelow
  <2> HIDE DEF S
  <2> QED BY <1>1, <2>1
<1>9. PICK u \in Seq(AllUnits) : j[N] = Written(u) /\ After(u, N)
  BY <1>1, <1>8
<1>10. <<>> \in Seq(AllUnits) /\ Before(u, <<>>) = u
  BY ConcatEmptySeq DEF Before
<1>11. PICK got : ReadUpTo(fields, Before(u, <<>>))[N] = Ok(got, <<>>) /\ Gathered(fields, r, N, got)
  BY <1>9, <1>10
<1>12. WriteFields(fields, r) = Written(u)
  BY <1>2, <1>3, <1>9
<1>13. ReadFields(fields, u) = Ok(got, <<>>)
  BY <1>5, <1>10, <1>11
<1> QED BY <1>11, <1>12, <1>13

-----------------------------------------------------------------------------
(* The layouts are made of fields that are written the way of their name.  *)

Asked == {f \in Laid : f.as # "info?"}                   \* of a query
Told  == {f \in Laid : f.as \notin {"settings", "params"}} \* of another packet

LEMMA OneLaid ==
  ASSUME NEW name \in Names, NEW way \in Ways, WayOf(name) = way
  PROVE  /\ way # "info?" => [as |-> way, name |-> name] \in Asked
         /\ way \notin {"settings", "params"} => [as |-> way, name |-> name] \in Told
<1> DEFINE f == [as |-> way, name |-> name]
<1>1. f \in Laid /\ f.as = way
  BY DEF Laid
<1> HIDE DEF f
<1> QED BY <1>1, Zenon DEF Asked, Told, f

LEMMA FieldsLaid ==
  ASSUME NEW S, NEW n \in Nat, NEW names, Len(names) = n, DOMAIN names = 1 .. n,
         NEW as, \A i \in 1 .. n : [as |-> as, name |-> names[i]] \in S
  PROVE  Fields(as, names) \in Seq(S)
<1> DEFINE F(i) == [as |-> as, name |-> names[i]]
<1>1. Fields(as, names) = [i \in DOMAIN names |-> F(i)]
  BY Zenon DEF Fields
<1>2. \A i \in 1 .. n : F(i) \in S
  OBVIOUS
<1> HIDE DEF F
<1> QED BY <1>1, <1>2

LEMMA FieldLaid ==
  ASSUME NEW S, NEW as, NEW a, [as |-> as, name |-> a] \in S
  PROVE  Field(as, a) \in Seq(S)
<1>1. Len(<<a>>) = 1 /\ DOMAIN <<a>> = 1 .. 1 /\ <<a>>[1] = a /\ 1 \in Nat
  OBVIOUS
<1>2. \A i \in 1 .. 1 : i = 1
  OBVIOUS
<1> DEFINE names == <<a>>
<1> HIDE DEF names
<1>3. Fields(as, names) \in Seq(S)
  <2>1. \A i \in 1 .. 1 : [as |-> as, name |-> names[i]] \in S
    BY <1>1, <1>2 DEF names
  <2> QED BY <2>1, <1>1, FieldsLaid DEF names
<1> QED BY <1>3 DEF names, Field

LEMMA PairLaid ==
  ASSUME NEW S, NEW as, NEW a, NEW b, [as |-> as, name |-> a] \in S, [as |-> as, name |-> b] \in S
  PROVE  Fields(as, <<a, b>>) \in Seq(S)
<1> DEFINE names == <<a, b>>
<1>1. Len(names) = 2 /\ DOMAIN names = 1 .. 2 /\ names[1] = a /\ names[2] = b /\ 2 \in Nat
  OBVIOUS
<1>2. \A i \in 1 .. 2 : i = 1 \/ i = 2
  OBVIOUS
<1> HIDE DEF names
<1>3. \A i \in 1 .. 2 : [as |-> as, name |-> names[i]] \in S
  BY <1>1, <1>2
<1>4. Fields(as, names) \in Seq(S)
  BY <1>1, <1>3, FieldsLaid
<1> QED BY <1>4 DEF names

LEMMA TripleLaid ==
  ASSUME NEW S, NEW as, NEW a, NEW b, NEW c,
         [as |-> as, name |-> a] \in S, [as |-> as, name |-> b] \in S, [as |-> as, name |-> c] \in S
  PROVE  Fields(as, <<a, b, c>>) \in Seq(S)
<1> DEFINE names == <<a, b, c>>
<1>1. Len(names) = 3 /\ DOMAIN names = 1 .. 3 /\ names[1] = a /\ names[2] = b /\ names[3] = c /\ 3 \in Nat
  OBVIOUS
<1>2. \A i \in 1 .. 3 : i = 1 \/ i = 2 \/ i = 3
  OBVIOUS
<1> HIDE DEF names
<1>3. \A i \in 1 .. 3 : [as |-> as, name |-> names[i]] \in S
  BY <1>1, <1>2
<1>4. Fields(as, names) \in Seq(S)
  BY <1>1, <1>3, FieldsLaid
<1> QED BY <1>4 DEF names

LEMMA WaysOfNames ==
  /\ \A name \in {"query_id", "initial_user", "initial_query_id", "initial_address", "os_user",
                "client_hostname", "client_name", "cluster_secret", "body", "table_name", "name",
                "message", "stack_trace", "database", "user", "password", "external_table",
                "columns_description", "timezone"} :
       WayOf(name) = "string"
  /\ \A name \in {"version_major", "version_minor", "version_index", "rows", "bytes", "total_rows",
                "blocks", "rows_before_limit"} :
       WayOf(name) = "varuint"
  /\ \A name \in {"distributed_depth", "version_patch", "obsolete_count_participating_replicas",
                "count_current_replicas"} :
       WayOf(name) = "varuint?"
  /\ \A name \in {"script_query_number", "script_line_number", "total_bytes", "wrote_rows",
                "wrote_bytes", "elapsed_ns", "rows_before_aggregation"} :
       WayOf(name) = "varuint or 0"
  /\ \A name \in {"applied_limit", "calculated_rows_before_limit", "nested"} :
       WayOf(name) = "bool"
  /\ WayOf("query_kind") = "kind"
  /\ WayOf("initial_time") = "i64?"
  /\ WayOf("query_interface") = "interface"
  /\ WayOf("quota_key") = "string?"
  /\ WayOf("collaborate_with_initiator") = "flag?"
  /\ WayOf("compression") = "flag"
  /\ WayOf("applied_aggregation") = "bool or 0"
  /\ WayOf("code") = "i32"
  /\ \A name \in {"trace", "jwt", "roles", "stage", "columns", "settings", "params"} :
       WayOf(name) = name
  /\ WayOf("info") = "info?"
BY DEF WayOf

LEMMA AskedLaid ==
  ASSUME NEW way \in Ways \ {"info?"}
  PROVE  /\ \A a \in Names : WayOf(a) = way => Field(way, a) \in Seq(Asked)
         /\ \A a, b \in Names : WayOf(a) = way /\ WayOf(b) = way => Fields(way, <<a, b>>) \in Seq(Asked)
         /\ \A a, b, c \in Names : WayOf(a) = way /\ WayOf(b) = way /\ WayOf(c) = way
                                  => Fields(way, <<a, b, c>>) \in Seq(Asked)
<1>1. \A a \in Names : WayOf(a) = way => [as |-> way, name |-> a] \in Asked
  BY OneLaid
<1>2. ASSUME NEW a \in Names, WayOf(a) = way
      PROVE  Field(way, a) \in Seq(Asked)
  BY <1>1, <1>2, FieldLaid
<1>3. ASSUME NEW a \in Names, NEW b \in Names, WayOf(a) = way, WayOf(b) = way
      PROVE  Fields(way, <<a, b>>) \in Seq(Asked)
  BY <1>1, <1>3, PairLaid
<1>4. ASSUME NEW a \in Names, NEW b \in Names, NEW c \in Names,
             WayOf(a) = way, WayOf(b) = way, WayOf(c) = way
      PROVE  Fields(way, <<a, b, c>>) \in Seq(Asked)
  BY <1>1, <1>4, TripleLaid
<1> QED BY <1>2, <1>3, <1>4

LEMMA ToldLaid ==
  ASSUME NEW way \in Ways \ {"settings", "params"}
  PROVE  /\ \A a \in Names : WayOf(a) = way => Field(way, a) \in Seq(Told)
         /\ \A a, b \in Names : WayOf(a) = way /\ WayOf(b) = way => Fields(way, <<a, b>>) \in Seq(Told)
         /\ \A a, b, c \in Names : WayOf(a) = way /\ WayOf(b) = way /\ WayOf(c) = way
                                  => Fields(way, <<a, b, c>>) \in Seq(Told)
<1>1. \A a \in Names : WayOf(a) = way => [as |-> way, name |-> a] \in Told
  BY OneLaid
<1>2. ASSUME NEW a \in Names, WayOf(a) = way
      PROVE  Field(way, a) \in Seq(Told)
  BY <1>1, <1>2, FieldLaid
<1>3. ASSUME NEW a \in Names, NEW b \in Names, WayOf(a) = way, WayOf(b) = way
      PROVE  Fields(way, <<a, b>>) \in Seq(Told)
  BY <1>1, <1>3, PairLaid
<1>4. ASSUME NEW a \in Names, NEW b \in Names, NEW c \in Names,
             WayOf(a) = way, WayOf(b) = way, WayOf(c) = way
      PROVE  Fields(way, <<a, b, c>>) \in Seq(Told)
  BY <1>1, <1>4, TripleLaid
<1> QED BY <1>2, <1>3, <1>4

LEMMA Made ==
  ASSUME NEW S
  PROVE  /\ \A a, b \in Seq(S) : Before(a, b) \in Seq(S)
         /\ \A feature, v : \A a \in Seq(S) : Gated(feature, v, a) \in Seq(S)
<1>1. \A a, b \in Seq(S) : Before(a, b) \in Seq(S)
  BY DEF Before
<1>2. \A feature, v : \A a \in Seq(S) : Gated(feature, v, a) \in Seq(S)
  BY DEF Gated
<1> QED BY <1>1, <1>2

LEMMA QueryFields ==
  /\ Field("kind", "query_kind") \in Seq(Asked)
  /\ Fields("string", <<"initial_user", "initial_query_id", "initial_address">>) \in Seq(Asked)
  /\ Field("i64?", "initial_time") \in Seq(Asked)
  /\ Field("interface", "query_interface") \in Seq(Asked)
  /\ Fields("string", <<"os_user", "client_hostname", "client_name">>) \in Seq(Asked)
  /\ Fields("varuint", <<"version_major", "version_minor", "version_index">>) \in Seq(Asked)
  /\ Field("string?", "quota_key") \in Seq(Asked)
  /\ Field("varuint?", "distributed_depth") \in Seq(Asked)
  /\ Field("varuint?", "version_patch") \in Seq(Asked)
  /\ Field("trace", "trace") \in Seq(Asked)
  /\ Field("flag?", "collaborate_with_initiator") \in Seq(Asked)
  /\ Fields("varuint?", <<"obsolete_count_participating_replicas", "count_current_replicas">>) \in Seq(Asked)
  /\ Fields("varuint or 0", <<"script_query_number", "script_line_number">>) \in Seq(Asked)
  /\ Field("jwt", "jwt") \in Seq(Asked)
  /\ Field("string", "query_id") \in Seq(Asked) /\ Field("settings", "settings") \in Seq(Asked)
  /\ Field("roles", "roles") \in Seq(Asked) /\ Field("string", "cluster_secret") \in Seq(Asked)
  /\ Field("stage", "stage") \in Seq(Asked) /\ Field("flag", "compression") \in Seq(Asked)
  /\ Field("string", "body") \in Seq(Asked) /\ Field("params", "params") \in Seq(Asked)
<1> DEFINE W == Ways \ {"info?"}
           Is(name, way) == name \in Names /\ WayOf(name) = way
<1>1. /\ "kind" \in W /\ "string" \in W /\ "i64?" \in W /\ "interface" \in W /\ "varuint" \in W
      /\ "string?" \in W /\ "varuint?" \in W /\ "trace" \in W /\ "flag?" \in W /\ "varuint or 0" \in W
      /\ "jwt" \in W /\ "settings" \in W /\ "roles" \in W /\ "stage" \in W /\ "flag" \in W /\ "params" \in W
  BY DEF Ways
<1> USE DEF Names
<1>2. /\ Is("query_kind", "kind") /\ Is("initial_user", "string") /\ Is("initial_query_id", "string")
      /\ Is("initial_address", "string")
  BY WaysOfNames
<1>3. /\ Is("initial_time", "i64?") /\ Is("query_interface", "interface") /\ Is("os_user", "string")
      /\ Is("client_hostname", "string") /\ Is("client_name", "string")
  BY WaysOfNames
<1>4. /\ Is("version_major", "varuint") /\ Is("version_minor", "varuint") /\ Is("version_index", "varuint")
      /\ Is("quota_key", "string?") /\ Is("distributed_depth", "varuint?") /\ Is("version_patch", "varuint?")
      /\ Is("trace", "trace") /\ Is("collaborate_with_initiator", "flag?")
  BY WaysOfNames
<1>5. /\ Is("obsolete_count_participating_replicas", "varuint?") /\ Is("count_current_replicas", "varuint?")
      /\ Is("script_query_number", "varuint or 0") /\ Is("script_line_number", "varuint or 0")
      /\ Is("jwt", "jwt") /\ Is("query_id", "string") /\ Is("settings", "settings")
  BY WaysOfNames
<1>6. /\ Is("roles", "roles") /\ Is("cluster_secret", "string") /\ Is("stage", "stage")
      /\ Is("compression", "flag") /\ Is("body", "string") /\ Is("params", "params")
  BY WaysOfNames
<1> HIDE DEF Names, W, Is
<1>7. ASSUME NEW way \in W
      PROVE  /\ \A a : Is(a, way) => Field(way, a) \in Seq(Asked)
             /\ \A a, b : Is(a, way) /\ Is(b, way) => Fields(way, <<a, b>>) \in Seq(Asked)
             /\ \A a, b, c : Is(a, way) /\ Is(b, way) /\ Is(c, way) => Fields(way, <<a, b, c>>) \in Seq(Asked)
  BY AskedLaid, Zenon DEF W, Is
<1>8. /\ Field("kind", "query_kind") \in Seq(Asked)
      /\ Field("i64?", "initial_time") \in Seq(Asked)
      /\ Field("interface", "query_interface") \in Seq(Asked)
      /\ Field("string?", "quota_key") \in Seq(Asked)
      /\ Field("varuint?", "distributed_depth") \in Seq(Asked)
      /\ Field("varuint?", "version_patch") \in Seq(Asked)
      /\ Field("trace", "trace") \in Seq(Asked)
      /\ Field("flag?", "collaborate_with_initiator") \in Seq(Asked)
      /\ Field("jwt", "jwt") \in Seq(Asked)
  BY <1>1, <1>2, <1>3, <1>4, <1>5, <1>7, Zenon
<1>9. /\ Field("string", "query_id") \in Seq(Asked) /\ Field("settings", "settings") \in Seq(Asked)
      /\ Field("roles", "roles") \in Seq(Asked) /\ Field("string", "cluster_secret") \in Seq(Asked)
      /\ Field("stage", "stage") \in Seq(Asked) /\ Field("flag", "compression") \in Seq(Asked)
      /\ Field("string", "body") \in Seq(Asked) /\ Field("params", "params") \in Seq(Asked)
  BY <1>1, <1>5, <1>6, <1>7, Zenon
<1>10. Fields("string", <<"initial_user", "initial_query_id", "initial_address">>) \in Seq(Asked)
  BY <1>1, <1>2, <1>7, Zenon
<1>11. Fields("string", <<"os_user", "client_hostname", "client_name">>) \in Seq(Asked)
  BY <1>1, <1>3, <1>7, Zenon
<1>12. Fields("varuint", <<"version_major", "version_minor", "version_index">>) \in Seq(Asked)
  BY <1>1, <1>4, <1>7, Zenon
<1>13. /\ Fields("varuint?", <<"obsolete_count_participating_replicas", "count_current_replicas">>) \in Seq(Asked)
       /\ Fields("varuint or 0", <<"script_query_number", "script_line_number">>) \in Seq(Asked)
  BY <1>1, <1>5, <1>7, Zenon
<1> QED BY <1>8, <1>9, <1>10, <1>11, <1>12, <1>13

LEMMA ClientInfoLaid ==
  ASSUME NEW v
  PROVE  ClientInfoRead(v) \in Seq(Asked)
<1> DEFINE a == Field("kind", "query_kind")
           b == Fields("string", <<"initial_user", "initial_query_id", "initial_address">>)
           c == Gated(INITIAL_QUERY_START_TIME, v, Field("i64?", "initial_time"))
           d == Field("interface", "query_interface")
           e == Fields("string", <<"os_user", "client_hostname", "client_name">>)
           f == Fields("varuint", <<"version_major", "version_minor", "version_index">>)
           g == Gated(QUOTA_KEY_IN_CLIENT_INFO, v, Field("string?", "quota_key"))
           h == Gated(DISTRIBUTED_DEPTH, v, Field("varuint?", "distributed_depth"))
           i == Gated(VERSION_PATCH, v, Field("varuint?", "version_patch"))
           j == Gated(OPEN_TELEMETRY, v, Field("trace", "trace"))
           k1 == Field("flag?", "collaborate_with_initiator")
           k2 == Fields("varuint?", <<"obsolete_count_participating_replicas", "count_current_replicas">>)
           k == Gated(PARALLEL_REPLICAS, v, Before(k1, k2))
           l == Gated(QUERY_AND_LINE_NUMBERS, v,
                      Fields("varuint or 0", <<"script_query_number", "script_line_number">>))
           m == Gated(JWT_IN_INTERSERVER, v, Field("jwt", "jwt"))
<1>1. a \in Seq(Asked) /\ b \in Seq(Asked) /\ d \in Seq(Asked) /\ e \in Seq(Asked) /\ f \in Seq(Asked)
  BY QueryFields
<1>2. c \in Seq(Asked) /\ g \in Seq(Asked) /\ h \in Seq(Asked) /\ i \in Seq(Asked)
  BY QueryFields, Made
<1>3. j \in Seq(Asked) /\ l \in Seq(Asked) /\ m \in Seq(Asked)
  BY QueryFields, Made
<1>4. k1 \in Seq(Asked) /\ k2 \in Seq(Asked)
  BY QueryFields
<1>5. k \in Seq(Asked)
  BY <1>4, Made
<1>6. ClientInfoRead(v) =
        Before(Before(Before(Before(Before(Before(Before(Before(Before(Before(Before(Before(
          a, b), c), d), e), f), g), h), i), j), k), l), m)
  BY Zenon DEF ClientInfoRead, Before
<1> HIDE DEF a, b, c, d, e, f, g, h, i, j, k, l, m
<1> DEFINE x == Before(Before(Before(Before(Before(a, b), c), d), e), f)
<1>7. x \in Seq(Asked)
  BY <1>1, <1>2, Made
<1> DEFINE y == Before(Before(Before(x, g), h), i)
<1>8. y \in Seq(Asked)
  <2> HIDE DEF x
  <2> QED BY <1>2, <1>7, Made
<1>9. ClientInfoRead(v) = Before(Before(Before(y, j), k), l) \o m
  BY <1>6, Zenon DEF Before
<1> HIDE DEF x, y
<1>10. Before(Before(Before(y, j), k), l) \in Seq(Asked)
  BY <1>3, <1>5, <1>8, Made
<1> QED BY <1>3, <1>9, <1>10, Made DEF Before

LEMMA TailLaid ==
  ASSUME NEW v
  PROVE  QueryTail(v) \in Seq(Asked)
<1> DEFINE a == Gated(INTERSERVER_SECRET, v, Field("string", "cluster_secret"))
           b == Field("stage", "stage")
           c == Field("flag", "compression")
           d == Field("string", "body")
           e == Gated(PARAMETERS, v, Field("params", "params"))
<1>1. a \in Seq(Asked) /\ b \in Seq(Asked) /\ c \in Seq(Asked) /\ d \in Seq(Asked) /\ e \in Seq(Asked)
  BY QueryFields, Made
<1>2. QueryTail(v) = Before(Before(Before(Before(a, b), c), d), e)
  BY Zenon DEF QueryTail, Before
<1> HIDE DEF a, b, c, d, e
<1> QED BY <1>1, <1>2, Made

(* The pieces of a query, and of what is read as one. *)
LEMMA QueryPieces ==
  ASSUME NEW v
  PROVE  /\ Field("string", "query_id") \in Seq(Asked) /\ Field("settings", "settings") \in Seq(Asked)
         /\ Gated(INTERSERVER_EXTERNALLY_GRANTED_ROLES, v, Field("roles", "roles")) \in Seq(Asked)
         /\ QueryRead(v) = Before(Before(Before(Field("string", "query_id"), ClientInfoRead(v)),
                                         Field("settings", "settings")), QueryTail(v))
         /\ QueryServed(v) =
              Before(Before(Before(Before(Field("string", "query_id"), ClientInfoRead(v)),
                                   Field("settings", "settings")),
                            Gated(INTERSERVER_EXTERNALLY_GRANTED_ROLES, v, Field("roles", "roles"))),
                     QueryTail(v))
<1>1. /\ Field("string", "query_id") \in Seq(Asked) /\ Field("settings", "settings") \in Seq(Asked)
      /\ Gated(INTERSERVER_EXTERNALLY_GRANTED_ROLES, v, Field("roles", "roles")) \in Seq(Asked)
  BY QueryFields, Made
<1> QED BY <1>1, Zenon DEF QueryRead, QueryServed, Before

LEMMA QueryLaid ==
  ASSUME NEW v
  PROVE  QueryRead(v) \in Seq(Asked) /\ QueryServed(v) \in Seq(Asked)
BY QueryPieces, ClientInfoLaid, TailLaid, Made

LEMMA OtherFields ==
  /\ Field("info?", "info") \in Seq(Told) /\ Field("columns", "columns") \in Seq(Told)
  /\ Field("string", "table_name") \in Seq(Told)
  /\ Fields("varuint", <<"rows", "bytes", "total_rows">>) \in Seq(Told)
  /\ Field("varuint or 0", "total_bytes") \in Seq(Told)
  /\ Fields("varuint or 0", <<"wrote_rows", "wrote_bytes">>) \in Seq(Told)
  /\ Field("varuint or 0", "elapsed_ns") \in Seq(Told)
  /\ Fields("varuint", <<"rows", "blocks", "bytes">>) \in Seq(Told)
  /\ Field("bool", "applied_limit") \in Seq(Told) /\ Field("varuint", "rows_before_limit") \in Seq(Told)
  /\ Field("bool", "calculated_rows_before_limit") \in Seq(Told)
  /\ Field("bool or 0", "applied_aggregation") \in Seq(Told)
  /\ Field("varuint or 0", "rows_before_aggregation") \in Seq(Told)
  /\ Field("i32", "code") \in Seq(Told) /\ Field("bool", "nested") \in Seq(Told)
  /\ Fields("string", <<"name", "message", "stack_trace">>) \in Seq(Told)
  /\ Field("string", "name") \in Seq(Told)
  /\ Fields("varuint", <<"version_major", "version_minor", "version_index">>) \in Seq(Told)
  /\ Fields("string", <<"database", "user", "password">>) \in Seq(Told)
  /\ Fields("string", <<"external_table", "columns_description">>) \in Seq(Told)
  /\ Field("string", "timezone") \in Seq(Told)
<1> DEFINE W == Ways \ {"settings", "params"}
           Is(name, way) == name \in Names /\ WayOf(name) = way
<1>1. /\ "info?" \in W /\ "columns" \in W /\ "string" \in W /\ "varuint" \in W /\ "varuint or 0" \in W
      /\ "bool" \in W /\ "bool or 0" \in W /\ "i32" \in W
  BY DEF Ways
<1> USE DEF Names
<1>2. /\ Is("info", "info?") /\ Is("columns", "columns") /\ Is("table_name", "string")
      /\ Is("timezone", "string") /\ Is("code", "i32") /\ Is("nested", "bool")
  BY WaysOfNames
<1>3. /\ Is("rows", "varuint") /\ Is("bytes", "varuint") /\ Is("total_rows", "varuint")
      /\ Is("blocks", "varuint") /\ Is("rows_before_limit", "varuint")
  BY WaysOfNames
<1>4. /\ Is("total_bytes", "varuint or 0") /\ Is("wrote_rows", "varuint or 0")
      /\ Is("wrote_bytes", "varuint or 0") /\ Is("elapsed_ns", "varuint or 0")
      /\ Is("rows_before_aggregation", "varuint or 0") /\ Is("applied_aggregation", "bool or 0")
      /\ Is("applied_limit", "bool") /\ Is("calculated_rows_before_limit", "bool")
  BY WaysOfNames
<1>5. Is("name", "string") /\ Is("message", "string") /\ Is("stack_trace", "string")
  BY WaysOfNames
<1>6. /\ Is("version_major", "varuint") /\ Is("version_minor", "varuint") /\ Is("version_index", "varuint")
  BY WaysOfNames
<1>7. Is("database", "string") /\ Is("user", "string") /\ Is("password", "string")
  BY WaysOfNames
<1>8. Is("external_table", "string") /\ Is("columns_description", "string")
  BY WaysOfNames
<1> HIDE DEF Names, W, Is
<1>9. ASSUME NEW way \in W
      PROVE  /\ \A a : Is(a, way) => Field(way, a) \in Seq(Told)
             /\ \A a, b : Is(a, way) /\ Is(b, way) => Fields(way, <<a, b>>) \in Seq(Told)
             /\ \A a, b, c : Is(a, way) /\ Is(b, way) /\ Is(c, way) => Fields(way, <<a, b, c>>) \in Seq(Told)
  BY ToldLaid, Zenon DEF W, Is
<1>10. /\ Field("info?", "info") \in Seq(Told) /\ Field("columns", "columns") \in Seq(Told)
       /\ Field("string", "table_name") \in Seq(Told) /\ Field("string", "timezone") \in Seq(Told)
       /\ Field("i32", "code") \in Seq(Told) /\ Field("bool", "nested") \in Seq(Told)
  BY <1>1, <1>2, <1>9, Zenon
<1>11. /\ Field("varuint or 0", "total_bytes") \in Seq(Told)
       /\ Field("varuint or 0", "elapsed_ns") \in Seq(Told)
       /\ Field("bool", "applied_limit") \in Seq(Told)
       /\ Field("bool", "calculated_rows_before_limit") \in Seq(Told)
       /\ Field("bool or 0", "applied_aggregation") \in Seq(Told)
       /\ Field("varuint or 0", "rows_before_aggregation") \in Seq(Told)
  BY <1>1, <1>4, <1>9, Zenon
<1>12. /\ Fields("varuint", <<"rows", "bytes", "total_rows">>) \in Seq(Told)
       /\ Fields("varuint", <<"rows", "blocks", "bytes">>) \in Seq(Told)
       /\ Field("varuint", "rows_before_limit") \in Seq(Told)
  BY <1>1, <1>3, <1>9, Zenon
<1>13. Fields("varuint or 0", <<"wrote_rows", "wrote_bytes">>) \in Seq(Told)
  BY <1>1, <1>4, <1>9, Zenon
<1>14. Fields("string", <<"name", "message", "stack_trace">>) \in Seq(Told) /\ Field("string", "name") \in Seq(Told)
  BY <1>1, <1>5, <1>9, Zenon
<1>15. Fields("varuint", <<"version_major", "version_minor", "version_index">>) \in Seq(Told)
  BY <1>1, <1>6, <1>9, Zenon
<1>16. Fields("string", <<"database", "user", "password">>) \in Seq(Told)
  BY <1>1, <1>7, <1>9, Zenon
<1>17. Fields("string", <<"external_table", "columns_description">>) \in Seq(Told)
  BY <1>1, <1>8, <1>9, Zenon
<1> QED BY <1>10, <1>11, <1>12, <1>13, <1>14, <1>15, <1>16, <1>17

Kinds == {"Block", "ExternalTable", "Progress", "ProfileInfo", "Exception", "ClientHello",
          "TableColumns", "TimezoneUpdate"}

LEMMA LayoutLaid ==
  ASSUME NEW kind \in Kinds, NEW v
  PROVE  Layout(kind, v) \in Seq(Told)
<1>1. /\ \A a, b \in Seq(Told) : Before(a, b) \in Seq(Told)
      /\ \A feature, x : \A a \in Seq(Told) : Gated(feature, x, a) \in Seq(Told)
  BY Made
<1>2. BlockFields(v) \in Seq(Told)
  <2>1. BlockFields(v) = Before(Gated(BLOCK_INFO, v, Field("info?", "info")), Field("columns", "columns"))
    BY Zenon DEF BlockFields, Before
  <2>2. Field("info?", "info") \in Seq(Told) /\ Field("columns", "columns") \in Seq(Told)
    BY OtherFields
  <2> QED BY <1>1, <2>1, <2>2
<1>3. Before(Field("string", "table_name"), BlockFields(v)) \in Seq(Told)
  BY <1>1, <1>2, OtherFields
<1>4. ProgressFields(v) \in Seq(Told)
  <2> DEFINE a == Fields("varuint", <<"rows", "bytes", "total_rows">>)
             b == Gated(TOTAL_BYTES_IN_PROGRESS, v, Field("varuint or 0", "total_bytes"))
             c == Gated(WRITE_CLIENT_INFO, v, Fields("varuint or 0", <<"wrote_rows", "wrote_bytes">>))
             d == Gated(SERVER_QUERY_TIME_IN_PROGRESS, v, Field("varuint or 0", "elapsed_ns"))
  <2>1. a \in Seq(Told) /\ b \in Seq(Told) /\ c \in Seq(Told) /\ d \in Seq(Told)
    BY <1>1, OtherFields
  <2>2. ProgressFields(v) = Before(Before(Before(a, b), c), d)
    BY Zenon DEF ProgressFields, Before
  <2> HIDE DEF a, b, c, d
  <2> QED BY <1>1, <2>1, <2>2
<1>5. ProfileInfoFields(v) \in Seq(Told)
  <2> DEFINE a == Fields("varuint", <<"rows", "blocks", "bytes">>)
             b == Field("bool", "applied_limit")
             c == Field("varuint", "rows_before_limit")
             d == Field("bool", "calculated_rows_before_limit")
             e == Before(Field("bool or 0", "applied_aggregation"),
                         Field("varuint or 0", "rows_before_aggregation"))
             f == Gated(ROWS_BEFORE_AGGREGATION, v, e)
  <2>1. a \in Seq(Told) /\ b \in Seq(Told) /\ c \in Seq(Told) /\ d \in Seq(Told) /\ e \in Seq(Told)
    BY <1>1, OtherFields
  <2>2. ProfileInfoFields(v) = Before(Before(Before(Before(a, b), c), d), f)
    BY Zenon DEF ProfileInfoFields, Before
  <2>3. f \in Seq(Told)
    BY <1>1, <2>1
  <2> HIDE DEF a, b, c, d, e, f
  <2> QED BY <1>1, <2>1, <2>2, <2>3
<1>6. ExceptionFields \in Seq(Told)
  <2>1. ExceptionFields = Before(Before(Field("i32", "code"), Fields("string", <<"name", "message", "stack_trace">>)),
                                 Field("bool", "nested"))
    BY Zenon DEF ExceptionFields, Before
  <2> QED BY <1>1, <2>1, OtherFields
<1>7. ClientHelloFields \in Seq(Told)
  <2>1. ClientHelloFields =
          Before(Before(Field("string", "name"),
                        Fields("varuint", <<"version_major", "version_minor", "version_index">>)),
                 Fields("string", <<"database", "user", "password">>))
    BY Zenon DEF ClientHelloFields, Before
  <2> QED BY <1>1, <2>1, OtherFields
<1>8. TableColumnsFields \in Seq(Told)
  BY OtherFields DEF TableColumnsFields
<1>9. /\ Layout("Block", v) = BlockFields(v)
      /\ Layout("ExternalTable", v) = Before(Field("string", "table_name"), BlockFields(v))
      /\ Layout("Progress", v) = ProgressFields(v)
      /\ Layout("ProfileInfo", v) = ProfileInfoFields(v)
      /\ Layout("Exception", v) = ExceptionFields
      /\ Layout("ClientHello", v) = ClientHelloFields
      /\ Layout("TableColumns", v) = TableColumnsFields
      /\ Layout("TimezoneUpdate", v) = Field("string", "timezone")
  BY DEF Layout, Before
<1>10. kind \in {"Block", "ExternalTable", "Progress", "ProfileInfo", "Exception", "ClientHello",
                 "TableColumns", "TimezoneUpdate"}
  BY DEF Kinds
<1> QED BY <1>2, <1>3, <1>4, <1>5, <1>6, <1>7, <1>8, <1>9, <1>10, OtherFields

-----------------------------------------------------------------------------
(* A query as the client builds it goes through at every version.          *)

LEMMA NamesOfWays ==
  ASSUME NEW f \in Laid
  PROVE  /\ f.as = "interface" => f.name = "query_interface"
         /\ f.as \in {"i64?", "varuint?", "flag?", "string?"} =>
              f.name \in {"initial_time", "quota_key", "distributed_depth", "version_patch",
                          "collaborate_with_initiator", "obsolete_count_participating_replicas",
                          "count_current_replicas"}
         /\ f.as \in {"settings", "params"} => f.name = f.as
<1>1. f.as = WayOf(f.name) /\ f.as \in Ways
  BY DEF Laid
<1> QED BY <1>1 DEF WayOf

LEMMA ClientsField ==
  ASSUME NEW q, ByClient(q), NEW f \in Asked
  PROVE  Given(f.as, q[f.name]) /\ Named(f.as, q[f.name])
<1>1. f \in Laid /\ f.as # "info?"
  BY DEF Asked
<1>2. Given(f.as, q[f.name])
  <2>1. CASE f.as = "interface"
    BY <1>1, <2>1, NamesOfWays DEF ByClient, Given
  <2>2. CASE f.as \in {"i64?", "varuint?", "flag?", "string?"}
    <3>1. q[f.name] # Absent
      BY <1>1, <2>2, NamesOfWays DEF ByClient
    <3> QED BY <2>2, <3>1 DEF Given
  <2>3. CASE f.as \notin {"interface", "i64?", "varuint?", "flag?", "string?"}
    BY <1>1, <2>3 DEF Given
  <2> QED BY <2>1, <2>2, <2>3
<1>3. Named(f.as, q[f.name])
  <2>1. CASE f.as \in {"settings", "params"}
    <3>1. f.name = f.as
      BY <1>1, <2>1, NamesOfWays
    <3>2. \A i \in DOMAIN q[f.name] : q[f.name][i].key # <<>>
      BY <2>1, <3>1 DEF ByClient
    <3> QED BY <3>2 DEF Named
  <2>2. CASE f.as \notin {"settings", "params"}
    BY <2>2 DEF Named
  <2> QED BY <2>1, <2>2
<1> QED BY <1>2, <1>3

(* The fields of r that are written whole. *)
Writable(r) == {f \in [as : Ways \cup {"end"}, name : Names] : Put(f.as, r[f.name]).whole}

LEMMA ServedWritable ==
  ASSUME NEW q, ByClient(q), NEW v, Holds(q, QueryServed(v))
  PROVE  QueryServed(v) \in Seq(Writable(q))
<1> DEFINE fields == QueryServed(v)
<1>1. fields \in Seq(Asked)
  BY QueryLaid
<1>2. \A i \in DOMAIN fields : fields[i].as \in Fixed \/ q[fields[i].name] \in Values(fields[i].as)
  BY DEF Holds
<1> HIDE DEF fields
<1>3. ASSUME NEW i \in DOMAIN fields
      PROVE  fields[i] \in Writable(q)
  <2> DEFINE f == fields[i]
  <2>1. f \in Asked /\ (f.as \in Fixed \/ q[f.name] \in Values(f.as))
    BY <1>1, <1>2
  <2> HIDE DEF f
  <2>2. f.as \in Ways /\ f \in [as : Ways \cup {"end"}, name : Names]
    BY <2>1 DEF Asked, Laid
  <2>3. Given(f.as, q[f.name]) /\ Named(f.as, q[f.name])
    BY <2>1, ClientsField
  <2>4. Undone(f.as, q[f.name], Meant(f.as, q[f.name]))
    BY <2>1, <2>2, <2>3, FieldBack
  <2>5. Put(f.as, q[f.name]).whole
    BY <2>4 DEF Undone, Written
  <2> QED BY <2>2, <2>5 DEF Writable, f
<1>4. fields \in Seq(Writable(q))
  BY <1>1, <1>3
<1> QED BY <1>4 DEF fields

LEMMA Unmade ==
  ASSUME NEW S, NEW T, NEW a \in Seq(S), NEW b \in Seq(S), Before(a, b) \in Seq(T)
  PROVE  a \in Seq(T) /\ b \in Seq(T)
<1> DEFINE c == a \o b
<1>1. /\ c \in Seq(T) /\ Len(c) = Len(a) + Len(b) /\ Len(a) \in Nat /\ Len(b) \in Nat
      /\ \A i \in 1 .. Len(a) : c[i] = a[i]
      /\ \A i \in 1 .. Len(b) : c[Len(a) + i] = b[i]
  BY DEF Before
<1> HIDE DEF c
<1>2. \A i \in 1 .. Len(c) : c[i] \in T
  BY <1>1
<1>3. \A i \in 1 .. Len(a) : a[i] \in T
  BY <1>1, <1>2
<1>4. \A i \in 1 .. Len(b) : b[i] \in T
  <2>1. \A i \in 1 .. Len(b) : Len(a) + i \in 1 .. Len(c)
    BY <1>1
  <2> QED BY <1>1, <1>2, <2>1
<1> QED BY <1>3, <1>4

LEMMA ClientInfoAsRead ==
  ASSUME NEW q, q.query_kind = 1
  PROVE  ClientInfoWritten(q, q.protocol_version) = ClientInfoRead(q.protocol_version)
<1>1. ~ (q.query_kind = 0)
  OBVIOUS
<1> QED BY <1>1, Zenon DEF ClientInfoWritten, ClientInfoRead

LEMMA QueryWrittenPieces ==
  ASSUME NEW q, NEW v
  PROVE  QueryWritten(q, v) =
           Before(Before(Before(Before(Field("string", "query_id"),
             IF InVersion(WRITE_CLIENT_INFO, v) THEN ClientInfoWritten(q, v) ELSE <<>>),
             IF InVersion(SETTINGS_SERIALIZED_AS_STRINGS, v) THEN Field("settings", "settings")
             ELSE Field("end", "settings")),
             Gated(INTERSERVER_EXTERNALLY_GRANTED_ROLES, v, Field("roles", "roles"))), QueryTail(v))
BY Zenon DEF QueryWritten, Before

(* A version with ClientInfo and settings writes what a server of it reads. *)
LEMMA WrittenAsServed ==
  ASSUME NEW q, NEW v, q.query_kind = 1, q.protocol_version = v, ~ TooOld(v)
  PROVE  /\ QueryWritten(q, v) = QueryServed(v)
         /\ ~ InVersion(INTERSERVER_EXTERNALLY_GRANTED_ROLES, v) => QueryWritten(q, v) = QueryRead(v)
<1>1. InVersion(WRITE_CLIENT_INFO, v) /\ InVersion(SETTINGS_SERIALIZED_AS_STRINGS, v)
  BY DEF TooOld
<1>2. ClientInfoWritten(q, v) = ClientInfoRead(v)
  BY ClientInfoAsRead
<1>3. QueryWritten(q, v) = QueryServed(v)
  BY <1>1, <1>2, QueryWrittenPieces, QueryPieces
<1>4. ASSUME ~ InVersion(INTERSERVER_EXTERNALLY_GRANTED_ROLES, v)
      PROVE  QueryServed(v) = QueryRead(v)
  <2> DEFINE a == Before(Before(Field("string", "query_id"), ClientInfoRead(v)), Field("settings", "settings"))
             b == Gated(INTERSERVER_EXTERNALLY_GRANTED_ROLES, v, Field("roles", "roles"))
  <2>1. b = <<>>
    BY <1>4 DEF Gated
  <2>2. a \in Seq(Asked)
    BY QueryPieces, ClientInfoLaid, Made
  <2>3. QueryServed(v) = Before(Before(a, b), QueryTail(v)) /\ QueryRead(v) = Before(a, QueryTail(v))
    BY QueryPieces
  <2> HIDE DEF a, b
  <2>4. Before(a, b) = a
    BY <2>1, <2>2, ConcatEmptySeq DEF Before
  <2> QED BY <2>3, <2>4
<1> QED BY <1>3, <1>4

LEMMA WrittenWritable ==
  ASSUME NEW q, NEW v, ByClient(q), q.protocol_version = v, Holds(q, QueryServed(v))
  PROVE  QueryWritten(q, v) \in Seq(Writable(q))
<1> DEFINE a == Field("string", "query_id")
           b == ClientInfoRead(v)
           c == Field("settings", "settings")
           d == Gated(INTERSERVER_EXTERNALLY_GRANTED_ROLES, v, Field("roles", "roles"))
           e == QueryTail(v)
           W == Writable(q)
           other == Field("end", "settings")
<1>1. a \in Seq(Asked) /\ b \in Seq(Asked) /\ c \in Seq(Asked) /\ d \in Seq(Asked) /\ e \in Seq(Asked)
  BY QueryPieces, ClientInfoLaid, TailLaid
<1>2. QueryServed(v) = Before(Before(Before(Before(a, b), c), d), e)
  BY QueryPieces
<1>3. QueryServed(v) \in Seq(W)
  BY ServedWritable
<1>4. other \in Seq(W)
  <2>1. [as |-> "end", name |-> "settings"] \in [as : Ways \cup {"end"}, name : Names]
    BY DEF Names
  <2>2. write_string(<<>>).whole
    <3>1. Number(0) = Written(Bytes(0))
      BY DEF Number, Bytes
    <3> QED BY <3>1 DEF write_string, Followed, Written
  <2>3. Put("end", q["settings"]).whole
    BY <2>2 DEF Put
  <2>4. [as |-> "end", name |-> "settings"] \in W
    BY <2>1, <2>3 DEF Writable
  <2> HIDE DEF W
  <2> QED BY <2>4, FieldLaid
<1>5. ClientInfoWritten(q, v) = b
  BY ClientInfoAsRead DEF ByClient
<1> HIDE DEF a, b, c, d, e, W, other
<1>6. Before(a, b) \in Seq(Asked) /\ Before(Before(a, b), c) \in Seq(Asked)
      /\ Before(Before(Before(a, b), c), d) \in Seq(Asked)
  BY <1>1, Made
<1>7. Before(Before(Before(a, b), c), d) \in Seq(W) /\ e \in Seq(W)
  <2> DEFINE x == Before(Before(Before(a, b), c), d)
  <2>1. Before(x, e) \in Seq(W) /\ x \in Seq(Asked)
    BY <1>2, <1>3, <1>6
  <2> HIDE DEF x
  <2>2. x \in Seq(W) /\ e \in Seq(W)
    BY <1>1, <2>1, Unmade
  <2> QED BY <2>2 DEF x
<1>8. Before(Before(a, b), c) \in Seq(W) /\ d \in Seq(W)
  BY <1>1, <1>6, <1>7, Unmade
<1>9. Before(a, b) \in Seq(W) /\ c \in Seq(W)
  BY <1>1, <1>6, <1>8, Unmade
<1>10. a \in Seq(W) /\ b \in Seq(W)
  BY <1>1, <1>9, Unmade
<1> DEFINE b1 == IF InVersion(WRITE_CLIENT_INFO, v) THEN b ELSE <<>>
           c1 == IF InVersion(SETTINGS_SERIALIZED_AS_STRINGS, v) THEN c ELSE other
<1>11. b1 \in Seq(W) /\ c1 \in Seq(W)
  BY <1>4, <1>9, <1>10
<1>12. QueryWritten(q, v) = Before(Before(Before(Before(a, b1), c1), d), e)
  BY <1>5, QueryWrittenPieces DEF a, c, d, e, other
<1> HIDE DEF b1, c1
<1>13. Before(Before(Before(Before(a, b1), c1), d), e) \in Seq(W)
  BY <1>7, <1>8, <1>10, <1>11, Made
<1> QED BY <1>12, <1>13 DEF W

LEMMA PartsWhole ==
  ASSUME NEW parts, Len(parts) \in Nat, \A n \in 1 .. Len(parts) : parts[n].whole
  PROVE  AllWritten(parts).whole
<1> DEFINE N == Len(parts)
           S == {n \in Nat : n <= N => Joined(parts)[n].whole}
<1>1. /\ AllWritten(parts) = Joined(parts)[N] /\ Joined(parts)[0] = Written(<<>>)
      /\ \A n \in 1 .. N : Joined(parts)[n] = Followed(Joined(parts)[n - 1], parts[n])
  BY JoinedParts
<1>2. \A a, b : a.whole /\ b.whole => Followed(a, b).whole
  BY DEF Followed
<1>3. 0 \in S
  BY <1>1 DEF Written
<1>4. ASSUME NEW k \in Nat, k \in S
      PROVE  k + 1 \in S
  <2> SUFFICES ASSUME k + 1 <= N PROVE Joined(parts)[k + 1].whole
    OBVIOUS
  <2>1. k <= N /\ k + 1 \in 1 .. N /\ k + 1 - 1 = k /\ Joined(parts)[k].whole
    BY <1>4
  <2>2. Joined(parts)[k + 1] = Followed(Joined(parts)[k], parts[k + 1]) /\ parts[k + 1].whole
    BY <1>1, <2>1
  <2>3. Followed(Joined(parts)[k], parts[k + 1]).whole
    BY <1>2, <2>1, <2>2, Zenon
  <2> QED BY <2>2, <2>3, Zenon
<1>5. N \in S
  <2>1. Nat \subseteq S
    <3> HIDE DEF S
    <3> QED BY <1>3, <1>4, Parts!FromBelow
  <2> HIDE DEF S
  <2> QED BY <2>1
<1> QED BY <1>1, <1>5

LEMMA QueryWhole ==
  ASSUME NEW q, NEW v, ByClient(q), q.protocol_version = v, Holds(q, QueryServed(v))
  PROVE  WriteFields(QueryWritten(q, v), q).whole
<1> DEFINE fields == QueryWritten(q, v)
           parts == [i \in DOMAIN fields |-> Put(fields[i].as, q[fields[i].name])]
<1>1. fields \in Seq(Writable(q))
  BY WrittenWritable
<1>2. WriteFields(fields, q) = AllWritten(parts)
  BY DEF WriteFields
<1> HIDE DEF fields
<1>3. /\ Len(parts) = Len(fields) /\ Len(parts) \in Nat
      /\ \A n \in 1 .. Len(parts) : parts[n] = Put(fields[n].as, q[fields[n].name]) /\ fields[n] \in Writable(q)
  BY <1>1
<1> HIDE DEF parts
<1>4. \A n \in 1 .. Len(parts) : parts[n].whole
  BY <1>3 DEF Writable
<1> QED BY <1>2, <1>3, <1>4, PartsWhole DEF fields

-----------------------------------------------------------------------------
(* The inductive invariant: what is on the wire is what was encoded, or a  *)
(* block as a server orders it, and a result is what was read of the wire. *)

(* What a server writes that lists the fields of the BlockInfo in order. *)
BlockOf(order) ==
  Before(Before(AllWritten([i \in DOMAIN order |-> Tagged(packet.info[1], order[i])]).units,
                Number(0).units), WriteColumns(packet.columns).units)

SaysAll(order) ==
  /\ packet.info[1].overflows # 0 => Overflow \in ToSet(order)
  /\ packet.info[1].bucket_number # -1 => BucketNumber \in ToSet(order)
  /\ packet.info[1].out_of_order_buckets # <<>> => OutOfOrder \in ToSet(order)

IsServers ==
  /\ packet.kind = "Block" /\ InVersion(BLOCK_INFO, version) /\ packet.info # Absent
  /\ \E n \in 0 .. 3 : \E order \in [1 .. n -> Tags] : SaysAll(order) /\ wire = BlockOf(order)

IsEncoded == Encoded.whole /\ wire = Encoded.units
IsServed  == /\ packet.kind = "Query" /\ ~ TooOld(version)
             /\ result = ReadFields(QueryServed(version), wire)

IInv ==
  /\ version \in Versions /\ packet \in Queries \cup Others
  /\ phase \in {"sent", "decoded", "served"} => IsEncoded
  /\ phase = "refused" => ~ Encoded.whole
  /\ phase \in {"decoded", "understood"} => result = Decoded
  /\ phase = "served" => IsServed
  /\ phase \in {"received", "understood"} => IsServers

LEMMA IInvInit == Init => IInv
BY DEF Init, IInv

LEMMA EncodeKeeps == IInv /\ Encode => IInv'
<1> SUFFICES ASSUME IInv, Encode PROVE IInv'
  OBVIOUS
<1>1. Encoded' = Encoded
  BY DEF Encode, Encoded
<1>2. /\ version' \in Versions /\ packet' \in Queries \cup Others
      /\ wire' = Encoded.units
      /\ (Encoded.whole /\ phase' = "sent") \/ (~ Encoded.whole /\ phase' = "refused")
  BY DEF Encode, IInv
<1>3. CASE Encoded.whole /\ phase' = "sent"
  BY <1>1, <1>2, <1>3 DEF IInv, IsEncoded
<1>4. CASE ~ Encoded.whole /\ phase' = "refused"
  BY <1>1, <1>2, <1>4 DEF IInv
<1> QED BY <1>2, <1>3, <1>4

LEMMA ServerEncodeKeeps == IInv /\ ServerEncode => IInv'
<1> SUFFICES ASSUME IInv, ServerEncode PROVE IInv'
  OBVIOUS
<1>1. /\ version' = version /\ packet' = packet /\ phase' = "received"
      /\ packet.kind = "Block" /\ InVersion(BLOCK_INFO, version) /\ packet.info # Absent
  BY DEF ServerEncode
<1>2. PICK order \in UNION {[1 .. k -> Tags] : k \in 0 .. 3} : SaysAll(order) /\ wire' = BlockOf(order)
  BY Zenon DEF ServerEncode, Tags, SaysAll, BlockOf, Before
<1>3. PICK n \in 0 .. 3 : order \in [1 .. n -> Tags]
  BY <1>2
<1>4. BlockOf(order)' = BlockOf(order) /\ (SaysAll(order)' <=> SaysAll(order))
  BY <1>1 DEF BlockOf, SaysAll
<1>5. IsServers'
  BY <1>1, <1>2, <1>3, <1>4 DEF IsServers
<1> QED BY <1>1, <1>5 DEF IInv

LEMMA DecodeKeeps == IInv /\ Decode => IInv'
<1> SUFFICES ASSUME IInv, Decode PROVE IInv'
  OBVIOUS
<1>1. /\ version' = version /\ packet' = packet /\ wire' = wire /\ result' = Decoded
      /\ (phase = "sent" /\ phase' = "decoded") \/ (phase = "received" /\ phase' = "understood")
  BY DEF Decode
<1>2. Encoded' = Encoded /\ Decoded' = Decoded
  BY <1>1 DEF Encoded, Decoded
<1>3. IsServers => IsServers'
  BY <1>1 DEF IsServers, SaysAll, BlockOf
<1>4. IsEncoded => IsEncoded'
  BY <1>1, <1>2 DEF IsEncoded
<1>5. CASE phase = "sent" /\ phase' = "decoded"
  BY <1>1, <1>2, <1>4, <1>5 DEF IInv
<1>6. CASE phase = "received" /\ phase' = "understood"
  BY <1>1, <1>2, <1>3, <1>6 DEF IInv
<1> QED BY <1>1, <1>5, <1>6

LEMMA ServeKeeps == IInv /\ Serve => IInv'
<1> SUFFICES ASSUME IInv, Serve PROVE IInv'
  OBVIOUS
<1>1. /\ version' = version /\ packet' = packet /\ wire' = wire /\ phase = "sent" /\ phase' = "served"
      /\ packet.kind = "Query" /\ ~ TooOld(version) /\ result' = ReadFields(QueryServed(version), wire)
  BY DEF Serve
<1>2. Encoded' = Encoded
  BY <1>1 DEF Encoded
<1>3. IsEncoded'
  BY <1>1, <1>2 DEF IsEncoded, IInv
<1>4. IsServed'
  BY <1>1 DEF IsServed
<1> QED BY <1>1, <1>3, <1>4 DEF IInv

LEMMA StutterKeeps == IInv /\ UNCHANGED vars => IInv'
<1> SUFFICES ASSUME IInv, UNCHANGED vars PROVE IInv'
  OBVIOUS
<1>1. version' = version /\ packet' = packet /\ wire' = wire /\ phase' = phase /\ result' = result
  BY DEF vars
<1>2. Encoded' = Encoded /\ Decoded' = Decoded
  BY <1>1 DEF Encoded, Decoded
<1>3. (IsServers' <=> IsServers) /\ (IsServed' <=> IsServed) /\ (IsEncoded' <=> IsEncoded)
  BY <1>1, <1>2 DEF IsServers, SaysAll, BlockOf, IsServed, IsEncoded
<1> QED BY <1>1, <1>2, <1>3 DEF IInv

LEMMA Invariant == Spec => []IInv
<1>1. IInv /\ [Next]_vars => IInv'
  BY EncodeKeeps, ServerEncodeKeeps, DecodeKeeps, ServeKeeps, StutterKeeps DEF Next
<1> QED BY IInvInit, <1>1, PTL DEF Spec

-----------------------------------------------------------------------------
(* The theorems. *)

LEMMA AllLaid ==
  /\ \A fields \in Seq(Asked) : fields \in Seq(Laid)
  /\ \A fields \in Seq(Told) : fields \in Seq(Laid)
<1>1. Asked \subseteq Laid /\ Told \subseteq Laid
  BY DEF Asked, Told
<1> QED BY <1>1

LEMMA OneField ==
  ASSUME NEW way, NEW name
  PROVE  Len(Field(way, name)) = 1 /\ Field(way, name)[1] = [as |-> way, name |-> name]
<1> DEFINE names == <<name>>
           F(i) == [as |-> way, name |-> names[i]]
<1>1. DOMAIN names = 1 .. 1 /\ names[1] = name
  OBVIOUS
<1>2. Field(way, name) = [i \in DOMAIN names |-> F(i)]
  BY Zenon DEF Field, Fields
<1>3. F(1) = [as |-> way, name |-> name]
  BY <1>1
<1> HIDE DEF names, F
<1>4. Field(way, name) = [i \in 1 .. 1 |-> F(i)]
  BY <1>1, <1>2
<1> QED BY <1>3, <1>4

LEMMA PacketFound ==
  ASSUME NEW fields \in Seq(Laid), NEW got, result = Ok(got, <<>>),
         Gathered(fields, packet, Len(fields), got)
  PROVE  IsThePacket(fields)
<1>1. result.status = "ok" /\ result.rest = <<>> /\ result.value = got
  BY DEF Ok
<1>2. ASSUME NEW i \in DOMAIN fields, fields[i].as \notin Fixed
      PROVE  result.value[fields[i].name] = Found(fields[i])
  <2>1. got[fields[i].name] = Meant(fields[i].as, packet[fields[i].name])
    BY DEF Gathered
  <2>2. fields[i].as \notin {"roles", "trace", "jwt"}
    BY <1>2 DEF Fixed
  <2>3. Found(fields[i]) = Meant(fields[i].as, packet[fields[i].name])
    BY <2>2 DEF Found, Meant
  <2> QED BY <1>1, <2>1, <2>3
<1> QED BY <1>1, <1>2 DEF IsThePacket

(* What the client asks, it asks in the connection's version. *)
LEMMA ClientsQuery ==
  ASSUME IInv, packet.kind = "Query", ByClient(packet)
  PROVE  /\ packet.query_kind = 1 /\ packet.protocol_version = version
         /\ Holds(packet, QueryServed(version))
         /\ Encoded = WriteFields(QueryWritten(packet, version), packet)
<1>1. packet \in Queries
  <2>1. packet \in Queries \cup Others
    BY DEF IInv
  <2>2. packet \notin Others
    BY PacketsAssumption
  <2> QED BY <2>1, <2>2
<1>2. Holds(packet, QueryServed(version))
  BY <1>1, PacketsAssumption DEF IInv
<1> QED BY <1>2 DEF ByClient, Encoded

LEMMA QueryBack ==
  ASSUME IInv, packet.kind = "Query", ByClient(packet), ~ TooOld(version), IsEncoded
  PROVE  \E got : /\ ReadFields(QueryServed(version), wire) = Ok(got, <<>>)
                  /\ Gathered(QueryServed(version), packet, Len(QueryServed(version)), got)
<1> DEFINE fields == QueryServed(version)
<1>1. fields \in Seq(Asked) /\ QueryWritten(packet, version) = fields
  BY ClientsQuery, QueryLaid, WrittenAsServed
<1>2. Holds(packet, fields) /\ wire = WriteFields(fields, packet).units
  BY <1>1, ClientsQuery DEF IsEncoded
<1> HIDE DEF fields
<1>3. fields \in Seq(Laid)
  BY <1>1 DEF Asked
<1>4. \A i \in DOMAIN fields : /\ Given(fields[i].as, packet[fields[i].name])
                               /\ Named(fields[i].as, packet[fields[i].name])
  BY <1>1, ClientsField
<1>5. PICK u \in Seq(AllUnits) : \E got :
        /\ WriteFields(fields, packet) = Written(u)
        /\ ReadFields(fields, u) = Ok(got, <<>>)
        /\ Gathered(fields, packet, Len(fields), got)
  BY <1>2, <1>3, <1>4, FieldsBack
<1>6. wire = u
  BY <1>2, <1>5 DEF Written
<1> QED BY <1>5, <1>6 DEF fields

LEMMA ServedBack == IInv => ServerReadsQuery
<1> SUFFICES ASSUME IInv PROVE ServerReadsQuery
  OBVIOUS
<1>1. ASSUME phase = "served", ByClient(packet)
      PROVE  IsThePacket(QueryServed(version))
  <2>1. /\ packet.kind = "Query" /\ ~ TooOld(version) /\ IsEncoded
        /\ result = ReadFields(QueryServed(version), wire)
    BY <1>1 DEF IInv, IsServed
  <2>2. PICK got : /\ ReadFields(QueryServed(version), wire) = Ok(got, <<>>)
                   /\ Gathered(QueryServed(version), packet, Len(QueryServed(version)), got)
    BY <1>1, <2>1, QueryBack
  <2>3. QueryServed(version) \in Seq(Laid)
    BY QueryLaid, AllLaid
  <2> QED BY <2>1, <2>2, <2>3, PacketFound
<1>2. ASSUME packet.kind = "Query", ByClient(packet)
      PROVE  phase # "refused"
  <2>1. Encoded.whole
    BY <1>2, ClientsQuery, QueryWhole
  <2> QED BY <2>1 DEF IInv
<1> QED BY <1>1, <1>2 DEF ServerReadsQuery

LEMMA OtherBack ==
  ASSUME IInv, packet.kind # "Query", IsEncoded
  PROVE  \E got : /\ ReadFields(Layout(packet.kind, version), wire) = Ok(got, <<>>)
                  /\ Gathered(Layout(packet.kind, version), packet, Len(Layout(packet.kind, version)), got)
<1> DEFINE fields == Layout(packet.kind, version)
           parts == [i \in DOMAIN fields |-> Put(fields[i].as, packet[fields[i].name])]
<1>1. packet \in Others /\ packet.kind \in Kinds /\ version \in Versions
  BY PacketsAssumption DEF IInv, Kinds
<1>2. fields \in Seq(Told) /\ Holds(packet, fields)
  BY <1>1, LayoutLaid, PacketsAssumption
<1>3. Encoded = WriteFields(fields, packet)
  BY DEF Encoded
<1> HIDE DEF fields
<1>4. fields \in Seq(Laid) /\ \A i \in DOMAIN fields : fields[i].as \notin {"settings", "params"}
  BY <1>2 DEF Told
<1>5. \A i \in DOMAIN fields : Given(fields[i].as, packet[fields[i].name])
  <2>1. AllWritten(parts).whole
    BY <1>3 DEF IsEncoded, WriteFields
  <2>2. /\ Len(parts) = Len(fields) /\ Len(parts) \in Nat /\ DOMAIN fields = 1 .. Len(fields)
        /\ \A i \in 1 .. Len(fields) : parts[i] = Put(fields[i].as, packet[fields[i].name])
    BY <1>2
  <2> HIDE DEF parts
  <2>3. \A i \in 1 .. Len(fields) : parts[i].whole
    BY <2>1, <2>2, WholeParts
  <2> QED BY <2>2, <2>3, WholeGiven
<1>6. \A i \in DOMAIN fields : Named(fields[i].as, packet[fields[i].name])
  BY <1>4 DEF Named
<1>7. PICK u \in Seq(AllUnits) : \E got :
        /\ WriteFields(fields, packet) = Written(u)
        /\ ReadFields(fields, u) = Ok(got, <<>>)
        /\ Gathered(fields, packet, Len(fields), got)
  BY <1>2, <1>4, <1>5, <1>6, FieldsBack
<1>8. wire = u
  BY <1>3, <1>7 DEF IsEncoded, Written
<1> QED BY <1>7, <1>8 DEF fields

LEMMA DecodedBack == IInv => ReadBack
<1> SUFFICES ASSUME IInv, phase = "decoded" PROVE ReadBack
  BY DEF ReadBack
<1>1. IsEncoded /\ result = Decoded
  BY DEF IInv
<1>2. ASSUME packet.kind # "Query"
      PROVE  IsThePacket(Layout(packet.kind, version))
  <2>1. PICK got : /\ ReadFields(Layout(packet.kind, version), wire) = Ok(got, <<>>)
                   /\ Gathered(Layout(packet.kind, version), packet, Len(Layout(packet.kind, version)), got)
    BY <1>1, <1>2, OtherBack
  <2>2. Layout(packet.kind, version) \in Seq(Laid)
    <3>1. packet.kind \in Kinds
      BY <1>2, PacketsAssumption DEF IInv, Kinds
    <3> QED BY <3>1, LayoutLaid, AllLaid
  <2>3. result = Ok(got, <<>>)
    BY <1>1, <1>2, <2>1 DEF Decoded
  <2> QED BY <2>1, <2>2, <2>3, PacketFound
<1>3. ASSUME packet.kind = "Query", ByClient(packet), ~ TooOld(version),
             ~ InVersion(INTERSERVER_EXTERNALLY_GRANTED_ROLES, version)
      PROVE  IsThePacket(QueryRead(version))
  <2>1. QueryServed(version) = QueryRead(version)
    BY <1>3, ClientsQuery, WrittenAsServed
  <2>2. PICK got : /\ ReadFields(QueryRead(version), wire) = Ok(got, <<>>)
                   /\ Gathered(QueryRead(version), packet, Len(QueryRead(version)), got)
    BY <1>1, <1>3, <2>1, QueryBack
  <2>3. QueryRead(version) \in Seq(Laid)
    BY QueryLaid, AllLaid
  <2>4. result = Ok(got, <<>>)
    BY <1>1, <1>3, <2>2 DEF Decoded
  <2> QED BY <2>2, <2>3, <2>4, PacketFound
<1> QED BY <1>2, <1>3 DEF ReadBack

(* Behind all the fields that have something to say there is nothing left  *)
(* to be said.                                                             *)
LEMMA AllSaid ==
  ASSUME NEW info \in Infos, packet.info = <<info>>, NEW n \in Nat, NEW order \in [1 .. n -> Tags],
         SaysAll(order)
  PROVE  Collected(info, order, n) = info
<1>1. packet.info[1] = info
  OBVIOUS
<1>2. \A field : field \in ToSet(order) => Seen(order, n, field)
  BY DEF ToSet, Seen
<1>3. /\ ~ Seen(order, n, Overflow) => info.overflows = 0
      /\ ~ Seen(order, n, BucketNumber) => info.bucket_number = -1
      /\ ~ Seen(order, n, OutOfOrder) => info.out_of_order_buckets = <<>>
  BY <1>1, <1>2 DEF SaysAll
<1>4. info = [overflows |-> info.overflows, bucket_number |-> info.bucket_number,
              out_of_order_buckets |-> info.out_of_order_buckets]
  BY DEF Infos
<1> QED BY <1>3, <1>4 DEF Collected

LEMMA TwoRead ==
  ASSUME NEW fields \in Seq(Laid), Len(fields) = 2, NEW s, NEW x, NEW at, NEW y, NEW end,
         Take(fields[1].as, s) = Ok(x, at), Take(fields[2].as, at) = Ok(y, end)
  PROVE  ReadFields(fields, s) = Ok(With(With(<<>>, fields[1].name, x), fields[2].name, y), end)
<1> DEFINE f == ReadUpTo(fields, s)
           one == With(<<>>, fields[1].name, x)
<1>1. /\ ReadFields(fields, s) = f[Len(fields)] /\ f[0] = Ok(<<>>, s)
      /\ \A n \in 1 .. Len(fields) : \A got, rest, v, behind :
           f[n - 1] = Ok(got, rest) /\ Take(fields[n].as, rest) = Ok(v, behind)
             => f[n] = Ok(With(got, fields[n].name, v), behind)
  BY FieldsRead
<1> HIDE DEF f
<1>2. 1 \in 1 .. Len(fields) /\ 2 \in 1 .. Len(fields) /\ 1 - 1 = 0 /\ 2 - 1 = 1
  OBVIOUS
<1>3. f[1] = Ok(one, at)
  BY <1>1, <1>2
<1> HIDE DEF one
<1>4. f[2] = Ok(With(one, fields[2].name, y), end)
  BY <1>1, <1>2, <1>3
<1> QED BY <1>1, <1>4 DEF one

LEMMA ServersBack == IInv => InfoInAnyOrder
<1> SUFFICES ASSUME IInv, phase = "understood" PROVE InfoInAnyOrder
  BY DEF InfoInAnyOrder
<1> DEFINE fields == BlockFields(version)
           columns == packet.columns
           e == Bytes(0)
<1>1. result = Decoded /\ IsServers
  BY DEF IInv
<1>2. /\ packet.kind = "Block" /\ InVersion(BLOCK_INFO, version) /\ packet.info # Absent
      /\ packet \in Others /\ version \in Versions
  BY <1>1, PacketsAssumption DEF IsServers, IInv
<1>3. PICK n \in 0 .. 3 : \E order \in [1 .. n -> Tags] : SaysAll(order) /\ wire = BlockOf(order)
  BY <1>1 DEF IsServers
<1>4. PICK order \in [1 .. n -> Tags] : SaysAll(order) /\ wire = BlockOf(order)
  BY <1>3
<1>5. /\ Len(fields) = 2 /\ fields \in Seq(Laid)
      /\ fields[1] = [as |-> "info?", name |-> "info"]
      /\ fields[2] = [as |-> "columns", name |-> "columns"]
  <2> DEFINE a == Field("info?", "info")
             b == Field("columns", "columns")
  <2>1. /\ Len(a) = 1 /\ a[1] = [as |-> "info?", name |-> "info"]
        /\ Len(b) = 1 /\ b[1] = [as |-> "columns", name |-> "columns"]
    BY OneField
  <2>2. a \in Seq(Told) /\ b \in Seq(Told)
    BY OtherFields
  <2>3. fields = a \o b
    BY <1>2 DEF BlockFields, Gated
  <2> HIDE DEF a, b, fields
  <2>4. /\ a \o b \in Seq(Told) /\ Len(a \o b) = Len(a) + Len(b)
        /\ \A i \in 1 .. Len(a) : (a \o b)[i] = a[i]
        /\ \A i \in 1 .. Len(b) : (a \o b)[Len(a) + i] = b[i]
    BY <2>2
  <2>5. Len(fields) = 2 /\ fields[1] = a[1] /\ fields[2] = b[1]
    BY <2>1, <2>3, <2>4
  <2> QED BY <2>1, <2>3, <2>4, <2>5, AllLaid
<1>6. Holds(packet, fields) /\ Decoded = ReadFields(fields, wire)
  BY <1>2, PacketsAssumption DEF Layout, Decoded
<1> HIDE DEF fields
<1>7. /\ Len(fields) = 2 /\ fields \in Seq(Laid)
      /\ fields[1].as = "info?" /\ fields[1].name = "info"
      /\ fields[2].as = "columns" /\ fields[2].name = "columns"
  BY <1>5
<1>8. packet.info \in Options(Infos) /\ columns \in Blocks
  <2>1. 1 \in DOMAIN fields /\ 2 \in DOMAIN fields /\ "info?" \notin Fixed /\ "columns" \notin Fixed
    BY <1>7 DEF Fixed
  <2>2. packet.info \in Values("info?") /\ packet.columns \in Values("columns")
    BY <1>6, <1>7, <2>1 DEF Holds
  <2> QED BY <2>2 DEF Values
<1>9. PICK info \in Infos : packet.info = <<info>>
  BY <1>2, <1>8, OptionCases
<1> HIDE DEF columns
<1>10. PICK u \in Seq(AllUnits) :
         /\ AllWritten([i \in 1 .. n |-> Tagged(info, order[i])]) = Written(u)
         /\ \A rest \in Seq(AllUnits) :
              TakeInfo(Before(u, Before(e, rest)), NewInfo) = Ok(Collected(info, order, n), rest)
  <2>1. n \in Nat
    OBVIOUS
  <2> QED BY <2>1, InfoRead, Zenon
<1>11. PICK c \in Seq(AllUnits) :
         /\ Put("columns", columns) = Written(c)
         /\ \A rest \in Seq(AllUnits) : Take("columns", Before(c, rest)) = Ok(columns, rest)
  BY <1>8, ColumnsField, Zenon DEF Undone, Before
<1>12. Number(0) = Written(e) /\ e \in Seq(AllUnits)
  BY SmallWords, NumberBack
<1> HIDE DEF e
<1>13. wire = Before(u, Before(e, c))
  <2>1. DOMAIN order = 1 .. n /\ packet.info[1] = info
    BY <1>9
  <2>2. AllWritten([i \in DOMAIN order |-> Tagged(packet.info[1], order[i])]).units = u
    <3>1. [i \in DOMAIN order |-> Tagged(packet.info[1], order[i])] = [i \in 1 .. n |-> Tagged(info, order[i])]
      BY <2>1
    <3>2. AllWritten([i \in 1 .. n |-> Tagged(info, order[i])]).units = u
      BY <1>10 DEF Written
    <3> QED BY <3>1, <3>2
  <2>3. Number(0).units = e
    BY <1>12 DEF Written
  <2>4. WriteColumns(packet.columns).units = c
    BY <1>11 DEF Put, Written, columns
  <2>5. wire = Before(Before(u, e), c)
    BY <1>4, <2>2, <2>3, <2>4 DEF BlockOf
  <2> QED BY <1>12, <2>5, BeforeLaws
<1>14. Take("info?", wire) = Ok(<<info>>, c)
  <2>1. TakeInfo(wire, NewInfo) = Ok(Collected(info, order, n), c)
    BY <1>10, <1>11, <1>13
  <2>2. Collected(info, order, n) = info
    BY <1>4, <1>9, AllSaid
  <2>3. Take("info?", wire) = Some(TakeInfo(wire, NewInfo))
    BY DEF Take
  <2> QED BY <2>1, <2>2, <2>3, Readings
<1>15. Take("columns", c) = Ok(columns, <<>>)
  <2>1. <<>> \in Seq(AllUnits) /\ Before(c, <<>>) = c
    BY ConcatEmptySeq DEF Before
  <2> QED BY <1>11, <2>1
<1> DEFINE got1 == With(<<>>, "info", <<info>>)
           got2 == With(got1, "columns", columns)
<1>16. ReadFields(fields, wire) = Ok(got2, <<>>)
  <2>1. Take(fields[1].as, wire) = Ok(<<info>>, c) /\ Take(fields[2].as, c) = Ok(columns, <<>>)
    BY <1>7, <1>14, <1>15
  <2>2. ReadFields(fields, wire) = Ok(With(With(<<>>, fields[1].name, <<info>>), fields[2].name, columns), <<>>)
    BY <1>7, <2>1, TwoRead
  <2> QED BY <1>7, <2>2
<1>17. result = Ok(got2, <<>>)
  BY <1>1, <1>6, <1>16
<1>18. got2.info = <<info>> /\ got2.columns = columns
  BY DEF With
<1> HIDE DEF got2
<1> QED BY <1>9, <1>17, <1>18 DEF InfoInAnyOrder, Ok, columns

(* Every query as the client builds it goes through, and a server of the   *)
(* connection's version reads it to its last unit with every field as it   *)
(* was meant: Query::encode, ClientInfo::encode and Setting::encode.       *)
THEOREM QueryIsServed == Spec => []ServerReadsQuery
BY Invariant, ServedBack, PTL

(* decode undoes encode, of every packet at every version. *)
THEOREM PacketIsReadBack == Spec => []ReadBack
BY Invariant, DecodedBack, PTL

(* BlockInfo::decode takes the fields in whatever order a server has them, *)
(* and those it leaves out as what they say by default.                    *)
THEOREM InfoIsUnderstood == Spec => []InfoInAnyOrder
BY Invariant, ServersBack, PTL
==============================================================================
