---------------------------- MODULE Numbers_proof ----------------------------
(***************************************************************************)
(* What Numbers writes is read back as it was: of every value, at every    *)
(* scale, and in every number of bytes.                                    *)
(*                                                                         *)
(* Powers of ten and digits come first, then dates, padding and trimming,  *)
(* texts that come apart at a mark, decimals, instants and clocks, wide    *)
(* integers and floats.  The recursive functions among them are instances  *)
(* of Recursion.  A lemma on texts that is used often has its hypotheses   *)
(* in a predicate.                                                         *)
(***************************************************************************)
EXTENDS Numbers, SequenceTheorems, TLAPS

Numerals == {Digit[i] : i \in 1 .. 10}
Marks    == {"-", ".", ":", " ", "e"}
Glyphs   == Numerals \cup Marks

(* What a digit is worth. *)
Worth(character) == CHOOSE d \in 0 .. 9 : Digit[d + 1] = character

LEMMA DigitWorth ==
  /\ \A d \in 0 .. 9 : Digit[d + 1] \in Numerals /\ Worth(Digit[d + 1]) = d
  /\ \A c \in Numerals : Worth(c) \in 0 .. 9 /\ Digit[Worth(c) + 1] = c
  /\ \A c \in Numerals : c # "-" /\ c # "." /\ c # ":" /\ c # " " /\ c # "e"
  /\ \A c \in Numerals : c \notin Marks
  /\ "0" \in Numerals /\ Worth("0") = 0 /\ Digit[1] = "0"
<1>1. \A d, e \in 0 .. 9 : Digit[d + 1] = Digit[e + 1] => d = e
  BY SMT DEF Digit
<1>2. ASSUME NEW d \in 0 .. 9 PROVE Digit[d + 1] \in Numerals /\ Worth(Digit[d + 1]) = d
  <2>1. d + 1 \in 1 .. 10
    OBVIOUS
  <2>2. Digit[d + 1] \in Numerals
    BY <2>1 DEF Numerals
  <2>3. Worth(Digit[d + 1]) = d
    BY <1>1, Zenon DEF Worth
  <2> QED BY <2>2, <2>3
<1>3. ASSUME NEW c \in Numerals PROVE Worth(c) \in 0 .. 9 /\ Digit[Worth(c) + 1] = c
  <2>1. PICK i \in 1 .. 10 : c = Digit[i]
    BY DEF Numerals
  <2>2. i - 1 \in 0 .. 9 /\ (i - 1) + 1 = i
    OBVIOUS
  <2>3. Worth(c) = i - 1
    BY <1>2, <2>1, <2>2, Zenon
  <2> QED BY <2>1, <2>2, <2>3
<1>4. \A c \in Numerals : c # "-" /\ c # "." /\ c # ":" /\ c # " " /\ c # "e" /\ c \notin Marks
  <2>1. /\ Digit[1] = "0" /\ Digit[2] = "1" /\ Digit[3] = "2" /\ Digit[4] = "3" /\ Digit[5] = "4"
        /\ Digit[6] = "5" /\ Digit[7] = "6" /\ Digit[8] = "7" /\ Digit[9] = "8" /\ Digit[10] = "9"
    BY SMT DEF Digit
  <2>2. \A c \in Numerals : c \in {"0", "1", "2", "3", "4", "5", "6", "7", "8", "9"}
    BY <2>1, SMT DEF Numerals
  <2>3. \A c \in {"0", "1", "2", "3", "4", "5", "6", "7", "8", "9"} :
          c # "-" /\ c # "." /\ c # ":" /\ c # " " /\ c # "e"
    OBVIOUS
  <2>4. \A c \in {"0", "1", "2", "3", "4", "5", "6", "7", "8", "9"} : c \notin Marks
    BY DEF Marks
  <2> QED BY <2>2, <2>3, <2>4, Zenon
<1>5. Digit[1] = "0"
  BY SMT DEF Digit
<1>6. "0" \in Numerals /\ Worth("0") = 0
  <2>1. 0 \in 0 .. 9 /\ 0 + 1 = 1
    OBVIOUS
  <2> QED BY <1>2, <1>5, <2>1, Zenon
<1> QED BY <1>2, <1>3, <1>4, <1>5, <1>6, Zenon

-----------------------------------------------------------------------------
(* Powers. *)

OneBase(x) == 1
TenthStep(x, n, before) == 10 * before
Powers == INSTANCE Recursion WITH base <- OneBase, step <- TenthStep

LEMMA PowerDef ==
  /\ Power10[0] = 1
  /\ \A n \in Nat : Power10[n + 1] = 10 * Power10[n]
<1>1. \E f : f = [n \in Nat |-> IF n = 0 THEN OneBase(0) ELSE TenthStep(0, n, f[n - 1])]
  BY Powers!ExistsOnNat
<1>2. Power10 = [n \in Nat |-> IF n = 0 THEN 1 ELSE 10 * Power10[n - 1]]
  BY <1>1, Zenon DEF Power10, OneBase, TenthStep
<1> HIDE DEF Power10
<1>3. ASSUME NEW n \in Nat
      PROVE  Power10[n + 1] = 10 * Power10[n]
  <2>1. n + 1 \in Nat /\ n + 1 # 0 /\ (n + 1) - 1 = n
    OBVIOUS
  <2> QED BY <1>2, <2>1
<1> QED BY <1>2, <1>3

LEMMA PowerType ==
  \A n \in Nat : Power10[n] \in Nat /\ Power10[n] > n
<1> DEFINE S == {n \in Nat : Power10[n] \in Nat /\ Power10[n] > n}
<1>1. 0 \in S
  BY PowerDef
<1>2. ASSUME NEW n \in Nat, n \in S PROVE n + 1 \in S
  BY <1>2, PowerDef
<1>3. Nat \subseteq S
  <2> HIDE DEF S
  <2> QED BY <1>1, <1>2, Powers!FromBelow
<1> QED BY <1>3

(* Powers of ten multiply. *)
LEMMA PowerSum ==
  ASSUME NEW a \in Nat, NEW b \in Nat
  PROVE  Power10[a + b] = Power10[a] * Power10[b]
<1> DEFINE S == {n \in Nat : Power10[a + n] = Power10[a] * Power10[n]}
<1>1. 0 \in S
  BY PowerDef, PowerType
<1>2. ASSUME NEW n \in Nat, n \in S PROVE n + 1 \in S
  <2>1. Power10[a + (n + 1)] = 10 * Power10[a + n]
    <3>1. a + (n + 1) = (a + n) + 1 /\ a + n \in Nat
      OBVIOUS
    <3> QED BY <3>1, PowerDef
  <2>2. Power10[n + 1] = 10 * Power10[n]
    BY PowerDef
  <2>3. Power10[a] \in Nat /\ Power10[n] \in Nat /\ Power10[a + n] = Power10[a] * Power10[n]
    BY <1>2, PowerType
  <2>4. Power10[a] * (10 * Power10[n]) = 10 * (Power10[a] * Power10[n])
    BY <2>3
  <2> QED BY <2>1, <2>2, <2>3, <2>4
<1>3. Nat \subseteq S
  <2> HIDE DEF S
  <2> QED BY <1>1, <1>2, Powers!FromBelow
<1> QED BY <1>3

-----------------------------------------------------------------------------
(* The number that digits are. *)

ZeroBase(x) == 0
HornerStep(x, n, before) == before * 10 + Worth(x[n])
Horner == INSTANCE Recursion WITH base <- ZeroBase, step <- HornerStep

(* f is the number of the first digits of a text, for each number of them. *)
IsValue(f, digits) ==
  f[0] = 0 /\ \A i \in 1 .. Len(digits) : f[i] = f[i - 1] * 10 + Worth(digits[i])

LEMMA ValueIs ==
  ASSUME NEW s, Len(s) \in Nat, NEW f, IsValue(f, s)
  PROVE  NumberIn(s) = f[Len(s)]
<1> DEFINE n == Len(s)
           G == CHOOSE g : g = [i \in 0 .. n |-> IF i = 0 THEN ZeroBase(s) ELSE HornerStep(s, i, g[i - 1])]
<1>1. NumberIn(s) = G[n]
  BY Zenon DEF NumberIn, ZeroBase, HornerStep, Worth
<1>2. Horner!IsUpTo(G, s, n)
  BY Horner!Exists, Zenon DEF Horner!IsUpTo
<1> HIDE DEF G
<1>3. G[0] = ZeroBase(s) /\ \A i \in 1 .. n : G[i] = HornerStep(s, i, G[i - 1])
  BY <1>2, Horner!Unfolds
<1> DEFINE S == {i \in Nat : i <= n => G[i] = f[i]}
<1>4. 0 \in S
  BY <1>3 DEF IsValue, ZeroBase
<1>5. ASSUME NEW i \in Nat, i \in S PROVE i + 1 \in S
  <2> SUFFICES ASSUME i + 1 <= n PROVE G[i + 1] = f[i + 1]
    OBVIOUS
  <2>1. i + 1 \in 1 .. n /\ (i + 1) - 1 = i /\ G[i] = f[i]
    BY <1>5
  <2>2. G[i + 1] = HornerStep(s, i + 1, G[i]) /\ f[i + 1] = f[i] * 10 + Worth(s[i + 1])
    BY <1>3, <2>1 DEF IsValue
  <2> QED BY <2>1, <2>2, Zenon DEF HornerStep
<1>6. Nat \subseteq S
  <2> HIDE DEF S
  <2> QED BY <1>4, <1>5, Powers!FromBelow
<1> QED BY <1>1, <1>6

LEMMA ValueExists ==
  ASSUME NEW s \in Seq(Numerals)
  PROVE  \E f : /\ IsValue(f, s) /\ NumberIn(s) = f[Len(s)]
                /\ \A i \in 0 .. Len(s) : f[i] \in Nat
<1> DEFINE n == Len(s)
<1>0. n \in Nat /\ \A i \in 1 .. n : s[i] \in Numerals
  BY SMT
<1>1. PICK f : f = [i \in 0 .. n |-> IF i = 0 THEN ZeroBase(s) ELSE HornerStep(s, i, f[i - 1])]
  BY <1>0, Horner!Exists
<1>2. Horner!IsUpTo(f, s, n)
  BY <1>1, Zenon DEF Horner!IsUpTo
<1>3. IsValue(f, s)
  BY <1>0, <1>2, Horner!Unfolds, Zenon DEF IsValue, ZeroBase, HornerStep
<1> DEFINE S == {i \in Nat : i <= n => f[i] \in Nat}
<1>4. 0 \in S
  BY <1>3 DEF IsValue
<1>5. ASSUME NEW i \in Nat, i \in S PROVE i + 1 \in S
  <2> SUFFICES ASSUME i + 1 <= n PROVE f[i + 1] \in Nat
    OBVIOUS
  <2>1. i + 1 \in 1 .. n /\ (i + 1) - 1 = i /\ f[i] \in Nat
    BY <1>5
  <2>2. f[i + 1] = f[i] * 10 + Worth(s[i + 1])
    BY <1>3, <2>1, Zenon DEF IsValue
  <2>3. Worth(s[i + 1]) \in 0 .. 9
    BY <1>0, <2>1, DigitWorth, Zenon
  <2> QED BY <2>1, <2>2, <2>3
<1>6. Nat \subseteq S
  <2> HIDE DEF S
  <2> QED BY <1>4, <1>5, Powers!FromBelow
<1>7. NumberIn(s) = f[Len(s)]
  BY <1>0, <1>3, ValueIs
<1>8. \A i \in 0 .. n : f[i] \in Nat
  BY <1>6
<1> QED BY <1>3, <1>7, <1>8, Zenon

LEMMA NumberType ==
  ASSUME NEW s \in Seq(Numerals)
  PROVE  NumberIn(s) \in Nat
<1>1. Len(s) \in Nat /\ Len(s) \in 0 .. Len(s)
  OBVIOUS
<1> QED BY <1>1, ValueExists, Zenon

(* A number of digits in two parts: the first one times a power of ten. *)
LEMMA NumberJoined ==
  ASSUME NEW a \in Seq(Numerals), NEW b \in Seq(Numerals)
  PROVE  NumberIn(a \o b) = NumberIn(a) * Power10[Len(b)] + NumberIn(b)
<1>1. PICK f : IsValue(f, a) /\ NumberIn(a) = f[Len(a)] /\ \A i \in 0 .. Len(a) : f[i] \in Nat
  BY ValueExists, Zenon
<1>2. PICK g : IsValue(g, b) /\ NumberIn(b) = g[Len(b)] /\ \A i \in 0 .. Len(b) : g[i] \in Nat
  BY ValueExists, Zenon
<1> DEFINE m == Len(a)
           n == Len(b)
           A == NumberIn(a)
           h == [i \in 0 .. m + n |-> IF i <= m THEN f[i] ELSE A * Power10[i - m] + g[i - m]]
<1>3. m \in Nat /\ n \in Nat /\ A \in Nat /\ Len(a \o b) = m + n /\ a \o b \in Seq(Numerals)
  BY NumberType
<1>4. \A i \in 1 .. m + n : (a \o b)[i] = IF i <= m THEN a[i] ELSE b[i - m]
  BY SMT
<1>5. A = f[m] /\ f[0] = 0 /\ g[0] = 0 /\ NumberIn(b) = g[n]
  BY <1>1, <1>2, Zenon DEF IsValue
<1>11. A * Power10[0] + g[0] = A
  <2>1. \A p, q \in Nat : p = 1 /\ q = 0 => A * p + q = A
    BY <1>3
  <2> QED BY <1>5, <2>1, PowerDef, Zenon
<1> HIDE DEF A
<1>6. ASSUME NEW i \in 1 .. m + n PROVE h[i] = h[i - 1] * 10 + Worth((a \o b)[i])
  <2>1. CASE i <= m
    <3>1. i \in 1 .. m /\ h[i] = f[i] /\ h[i - 1] = f[i - 1] /\ (a \o b)[i] = a[i]
      BY <1>3, <1>4, <2>1
    <3> QED BY <1>1, <3>1, Zenon DEF IsValue
  <2>2. CASE i > m
    <3> DEFINE k == i - m
    <3>1. k \in 1 .. n /\ k - 1 \in Nat /\ (k - 1) + 1 = k /\ k - 1 = (i - 1) - m /\ k - 1 \in 0 .. n
      BY <1>3, <2>2
    <3>2. h[i] = A * Power10[k] + g[k]
      BY <1>3, <2>2
    <3>3. h[i - 1] = A * Power10[k - 1] + g[k - 1]
      <4>1. CASE i - 1 = m
        <5>1. h[i - 1] = f[m] /\ k - 1 = 0
          BY <1>3, <4>1
        <5> QED BY <1>5, <1>11, <5>1, Zenon
      <4>2. CASE i - 1 # m
        <5>1. i - 1 \in 0 .. m + n /\ ~ (i - 1 <= m)
          BY <1>3, <2>2, <4>2
        <5> QED BY <3>1, <5>1
      <4> QED BY <4>1, <4>2
    <3>4. (a \o b)[i] = b[k]
      BY <1>3, <1>4, <2>2
    <3>5. Power10[k] = 10 * Power10[k - 1] /\ Power10[k - 1] \in Nat
      BY <3>1, PowerDef, PowerType
    <3>6. g[k] = g[k - 1] * 10 + Worth(b[k]) /\ g[k - 1] \in Nat /\ Worth(b[k]) \in Nat
      <4>1. b[k] \in Numerals
        BY <1>3, <3>1
      <4>2. Worth(b[k]) \in 0 .. 9
        BY <4>1, DigitWorth, Zenon
      <4>3. g[k] = g[k - 1] * 10 + Worth(b[k])
        BY <1>2, <3>1, Zenon DEF IsValue
      <4>4. g[k - 1] \in Nat
        BY <1>2, <3>1, Zenon
      <4> QED BY <4>2, <4>3, <4>4
    <3> HIDE DEF k, h, A
    <3>7. \A p, q, w \in Nat : A * (10 * p) + (q * 10 + w) = (A * p + q) * 10 + w
      BY <1>3
    <3>8. A * (10 * Power10[k - 1]) + (g[k - 1] * 10 + Worth(b[k])) = (A * Power10[k - 1] + g[k - 1]) * 10 + Worth(b[k])
      BY <3>5, <3>6, <3>7, Zenon
    <3> QED BY <3>2, <3>3, <3>4, <3>5, <3>6, <3>8, Zenon
  <2> QED BY <1>3, <2>1, <2>2
<1>7. h[0] = 0
  BY <1>3, <1>5
<1>8. IsValue(h, a \o b)
  <2> HIDE DEF h
  <2> QED BY <1>3, <1>6, <1>7, Zenon DEF IsValue
<1>9. NumberIn(a \o b) = h[m + n]
  <2> HIDE DEF h
  <2>1. Len(a \o b) \in Nat
    BY <1>3
  <2> QED BY <1>3, <1>8, <2>1, ValueIs, Zenon
<1>10. h[m + n] = A * Power10[n] + g[n]
  <2>1. CASE n = 0
    <3>1. h[m + n] = f[m] /\ n = 0
      BY <1>3, <2>1
    <3> QED BY <1>5, <1>11, <3>1, Zenon
  <2>2. CASE n # 0
    <3>1. m + n \in 0 .. m + n /\ ~ (m + n <= m) /\ (m + n) - m = n
      BY <1>3, <2>2
    <3> QED BY <3>1
  <2> QED BY <2>1, <2>2
<1> HIDE DEF h
<1> QED BY <1>5, <1>9, <1>10, Zenon DEF A

-----------------------------------------------------------------------------
(* Dates. *)

(* A day by its era of 400 years, and in it by its century, its leap cycle, *)
(* its year and its day of the year, which begins in March.  The names keep *)
(* large numbers out of the steps that do not calculate with them.          *)
InEra(doe) == doe \in Nat /\ doe <= 146096
OfEra(days, era, doe) == days + 719468 = 146097 * era + doe

IsDay(doe, c, q, y, u) ==
  /\ c \in 0 .. 3 /\ q \in 0 .. 24 /\ y \in 0 .. 3 /\ u \in 0 .. 365
  /\ doe = 36524 * c + 1461 * q + 365 * y + u
  /\ u = 365 => y = 3 /\ (q = 24 => c = 3)

YearInEra(c, q, y) == 100 * c + 4 * q + y
YearByDays(doe) == (doe - doe \div 1460 + doe \div 36524 - doe \div 146096) \div 365
YearOf(era, c, q, y) == 400 * era + 100 * c + 4 * q + y
MonthAt(u) == (5 * u + 2) \div 153
DayOfYear(u) == u \in 0 .. 365
DayCount(Y, u) == 365 * Y + Leaps(Y) + u - 719468

(* Every day of an era is in a century, four years and a year of it. *)
LEMMA DayExists ==
  ASSUME NEW doe, InEra(doe)
  PROVE  \E c, q, y, u : IsDay(doe, c, q, y, u)
<1> DEFINE c == IF doe = 146096 THEN 3 ELSE doe \div 36524
           r == doe - 36524 * c
           q == r \div 1461
           t == r - 1461 * q
           y == IF t = 1460 THEN 3 ELSE t \div 365
           u == t - 365 * y
<1>1. c \in 0 .. 3 /\ r \in Nat /\ r <= 36524 /\ (r = 36524 => c = 3) /\ doe = 36524 * c + r
  BY SMT DEF InEra
<1> HIDE DEF c, r
<1>2. q \in 0 .. 24 /\ t \in 0 .. 1460 /\ r = 1461 * q + t
  BY <1>1, SMT
<1> HIDE DEF q, t
<1>3. y \in 0 .. 3 /\ u \in 0 .. 365 /\ t = 365 * y + u /\ (u = 365 => y = 3)
  BY <1>2, SMT
<1> HIDE DEF y, u
<1>4. ASSUME u = 365, q = 24 PROVE c = 3
  <2>1. t = 1460
    BY <1>2, <1>3, <1>4, SMT
  <2>2. r = 36524
    BY <1>2, <1>4, <2>1, SMT
  <2> QED BY <1>1, <2>2, SMT
<1>5. IsDay(doe, c, q, y, u)
  BY <1>1, <1>2, <1>3, <1>4, SMT DEF IsDay
<1> QED BY <1>5, Zenon

(* The year of an era from its day, whatever the leap years before it. *)
LEMMA YearFound ==
  ASSUME NEW doe, NEW c, NEW q, NEW y, NEW u, InEra(doe), IsDay(doe, c, q, y, u)
  PROVE  YearByDays(doe) = YearInEra(c, q, y)
<1> USE DEF InEra, IsDay, YearInEra, YearByDays
<1> DEFINE t == 365 * y + u
<1>0. t \in 0 .. 1460
  BY SMT
<1>1. doe \div 1460 = 25 * c + q + (IF 24 * c + q + t >= 1460 THEN 1 ELSE 0)
  BY <1>0, SMT
<1>2. doe \div 36524 - doe \div 146096 = c
  BY SMT
<1>3. (t - (IF 24 * c + q + t >= 1460 THEN 1 ELSE 0)) \div 365 = y
  BY <1>0, SMT
<1> QED BY <1>0, <1>1, <1>2, <1>3, SMT

(* The year of a day, and with it the date. *)
LEMMA EraDate ==
  ASSUME NEW era \in Int, NEW doe, NEW c, NEW q, NEW y, NEW u, InEra(doe), IsDay(doe, c, q, y, u)
  PROVE  DateInEra(era, doe) = DateInYear(YearOf(era, c, q, y), u, MonthAt(u))
<1> DEFINE yoe == YearByDays(doe)
<1>1. yoe = YearInEra(c, q, y)
  BY YearFound, Zenon
<1> HIDE DEF yoe
<1>2. yoe \div 4 = 25 * c + q /\ yoe \div 100 = c
  BY <1>1, SMT DEF IsDay, YearInEra
<1>3. doe - (365 * yoe + yoe \div 4 - yoe \div 100) = u
  BY <1>1, <1>2, SMT DEF IsDay, YearInEra
<1>4. yoe + era * 400 = YearOf(era, c, q, y)
  BY <1>1, SMT DEF IsDay, YearInEra, YearOf
<1> QED BY <1>3, <1>4, SMT DEF DateInEra, yoe, YearByDays, MonthAt

(* civil_from_days finds the era and the day of it, of any day. *)
LEMMA EraOf ==
  ASSUME NEW days \in Int
  PROVE  \E era \in Int, doe \in Nat :
           InEra(doe) /\ OfEra(days, era, doe) /\ civil_from_days(days) = DateInEra(era, doe)
<1> DEFINE z   == days + 719468
           era == Quotient(IF z >= 0 THEN z ELSE z - 146096, 146097)
           doe == z - era * 146097
<1>1. era \in Int /\ doe \in Nat /\ doe <= 146096
  BY SMT DEF Quotient
<1>2. civil_from_days(days) = DateInEra(era, doe)
  BY SMT DEF civil_from_days
<1>3. z = 146097 * era + doe
  BY <1>1, SMT
<1>4. InEra(doe)
  BY <1>1, SMT DEF InEra
<1>5. OfEra(days, era, doe)
  BY <1>3, SMT DEF OfEra
<1> HIDE DEF era, doe
<1> QED BY <1>1, <1>2, <1>4, <1>5, SMT

(* The leap years up to a year of an era. *)
LEMMA LeapsOf ==
  ASSUME NEW era \in Int, NEW doe, NEW c, NEW q, NEW y, NEW u, IsDay(doe, c, q, y, u),
         NEW Y, Y = YearOf(era, c, q, y)
  PROVE  /\ Y \in Int /\ DayOfYear(u)
         /\ Leaps(Y) = 97 * era + 24 * c + q
         /\ Leap(Y + 1) \in 0 .. 1
         /\ u = 365 => Leap(Y + 1) = 1
<1> USE DEF IsDay, YearOf
<1>1. Y \div 4 = 100 * era + 25 * c + q /\ Y \div 100 = 4 * era + c /\ Y \div 400 = era
  BY SMT
<1>2. (Y + 1) \div 4 = 100 * era + 25 * c + q + (IF y = 3 THEN 1 ELSE 0)
  BY SMT
<1>3. (Y + 1) \div 100 = 4 * era + c + (IF y = 3 /\ q = 24 THEN 1 ELSE 0)
  BY SMT
<1>4. (Y + 1) \div 400 = era + (IF y = 3 /\ q = 24 /\ c = 3 THEN 1 ELSE 0)
  BY SMT
<1>5. Y \in Int /\ (Y + 1) - 1 = Y
  BY SMT
<1>6. Leaps(Y) = 97 * era + 24 * c + q
  BY <1>1, SMT DEF Leaps
<1>7. Leap(Y + 1) = (IF y = 3 THEN 1 ELSE 0) - (IF y = 3 /\ q = 24 THEN 1 ELSE 0)
                    + (IF y = 3 /\ q = 24 /\ c = 3 THEN 1 ELSE 0)
  BY <1>1, <1>2, <1>3, <1>4, <1>5, SMT DEF Leap, Leaps
<1> QED BY <1>5, <1>6, <1>7, SMT DEF DayOfYear

(* The days in front of each month of a year. *)
LEMMA MonthDays ==
  ASSUME NEW year, Leap(year) \in Int
  PROVE  /\ DaysBefore(1, year) = 0 /\ DaysBefore(2, year) = 31
         /\ DaysBefore(3, year) = 59 + Leap(year) /\ DaysBefore(4, year) = 90 + Leap(year)
         /\ DaysBefore(5, year) = 120 + Leap(year) /\ DaysBefore(6, year) = 151 + Leap(year)
         /\ DaysBefore(7, year) = 181 + Leap(year) /\ DaysBefore(8, year) = 212 + Leap(year)
         /\ DaysBefore(9, year) = 243 + Leap(year) /\ DaysBefore(10, year) = 273 + Leap(year)
         /\ DaysBefore(11, year) = 304 + Leap(year) /\ DaysBefore(12, year) = 334 + Leap(year)
         /\ DaysBefore(13, year) = 365 + Leap(year)
BY SMT DEF DaysBefore

DayOfMonth(u, mp, m, d) ==
  mp = MonthAt(u) /\ m = (IF mp < 10 THEN mp + 3 ELSE mp - 9) /\ d = u - (153 * mp + 2) \div 5 + 1

InMonth(u, m, d, year) ==
  /\ m \in 1 .. 12 /\ d \in 1 .. 31 /\ DaysBefore(m, year) \in Int
  /\ DaysBefore(m, year) + d - 1 = u + (IF m > 2 THEN 59 + Leap(year) ELSE -306)
  /\ m # 2 => d <= DaysBefore(m + 1, year) - DaysBefore(m, year)
  /\ m = 2 => d = u - 336 /\ DaysBefore(m + 1, year) - DaysBefore(m, year) = 28 + Leap(year)

(* Whichever month: the days before it from March on and from January on.  *)
LEMMA MonthOf ==
  ASSUME NEW u, NEW mp, NEW m, NEW d, DayOfMonth(u, mp, m, d), DayOfYear(u), NEW year, Leap(year) \in Int
  PROVE  InMonth(u, m, d, year)
<1> USE DEF DayOfYear, MonthAt, DayOfMonth, InMonth
<1> DEFINE b == (153 * mp + 2) \div 5
<1>1. mp \in 0 .. 11
  BY SMT
<1>2. CASE mp = 0
  <2>1. b = 0 /\ u \in 0 .. 30 /\ m = 3 /\ m + 1 = 4
    BY <1>2, SMT
  <2> QED BY <1>1, <2>1, MonthDays, SMT
<1>3. CASE mp = 1
  <2>1. b = 31 /\ u \in 31 .. 60 /\ m = 4 /\ m + 1 = 5
    BY <1>3, SMT
  <2> QED BY <1>1, <2>1, MonthDays, SMT
<1>4. CASE mp = 2
  <2>1. b = 61 /\ u \in 61 .. 91 /\ m = 5 /\ m + 1 = 6
    BY <1>4, SMT
  <2> QED BY <1>1, <2>1, MonthDays, SMT
<1>5. CASE mp = 3
  <2>1. b = 92 /\ u \in 92 .. 121 /\ m = 6 /\ m + 1 = 7
    BY <1>5, SMT
  <2> QED BY <1>1, <2>1, MonthDays, SMT
<1>6. CASE mp = 4
  <2>1. b = 122 /\ u \in 122 .. 152 /\ m = 7 /\ m + 1 = 8
    BY <1>6, SMT
  <2> QED BY <1>1, <2>1, MonthDays, SMT
<1>7. CASE mp = 5
  <2>1. b = 153 /\ u \in 153 .. 183 /\ m = 8 /\ m + 1 = 9
    BY <1>7, SMT
  <2> QED BY <1>1, <2>1, MonthDays, SMT
<1>8. CASE mp = 6
  <2>1. b = 184 /\ u \in 184 .. 213 /\ m = 9 /\ m + 1 = 10
    BY <1>8, SMT
  <2> QED BY <1>1, <2>1, MonthDays, SMT
<1>9. CASE mp = 7
  <2>1. b = 214 /\ u \in 214 .. 244 /\ m = 10 /\ m + 1 = 11
    BY <1>9, SMT
  <2> QED BY <1>1, <2>1, MonthDays, SMT
<1>10. CASE mp = 8
  <2>1. b = 245 /\ u \in 245 .. 274 /\ m = 11 /\ m + 1 = 12
    BY <1>10, SMT
  <2> QED BY <1>1, <2>1, MonthDays, SMT
<1>11. CASE mp = 9
  <2>1. b = 275 /\ u \in 275 .. 305 /\ m = 12 /\ m + 1 = 13
    BY <1>11, SMT
  <2> QED BY <1>1, <2>1, MonthDays, SMT
<1>12. CASE mp = 10
  <2>1. b = 306 /\ u \in 306 .. 336 /\ m = 1 /\ m + 1 = 2
    BY <1>12, SMT
  <2> QED BY <1>1, <2>1, MonthDays, SMT
<1>13. CASE mp = 11
  <2>1. b = 337 /\ u \in 337 .. 365 /\ m = 2 /\ m + 1 = 3
    BY <1>13, SMT
  <2> QED BY <1>1, <2>1, MonthDays, SMT
<1> QED BY <1>1, <1>2, <1>3, <1>4, <1>5, <1>6, <1>7, <1>8, <1>9, <1>10, <1>11, <1>12, <1>13, SMT

(* The date of a day of a year from March on: it exists, and is that day. *)
LEMMA YearDate ==
  ASSUME NEW Y \in Int, NEW u, DayOfYear(u), Leaps(Y) \in Int, Leaps(Y - 1) \in Int,
         Leap(Y + 1) \in 0 .. 1, u = 365 => Leap(Y + 1) = 1, NEW date, date = DateInYear(Y, u, MonthAt(u))
  PROVE  /\ date.y \in Int /\ date.m \in 1 .. 12 /\ date.d \in 1 .. 31
         /\ IsDate(date) /\ DayNumber(date) = DayCount(Y, u)
<1> DEFINE mp   == MonthAt(u)
           m    == IF mp < 10 THEN mp + 3 ELSE mp - 9
           d    == u - (153 * mp + 2) \div 5 + 1
           year == Y + (IF m <= 2 THEN 1 ELSE 0)
<1>1. date.y = year /\ date.m = m /\ date.d = d
  BY SMT DEF DateInYear
<1>0. mp \in 0 .. 11 /\ u \in 0 .. 365
  BY SMT DEF MonthAt, DayOfYear
<1>2. Leap(Y) = Leaps(Y) - Leaps(Y - 1) /\ Leap(Y) \in Int
  BY SMT DEF Leap
<1>3. year \in Int /\ Leap(year) \in Int /\ (m > 2 => year = Y) /\ (m <= 2 => year = Y + 1 /\ year - 1 = Y)
  BY <1>0, <1>2, SMT
<1> HIDE DEF year
<1>4. InMonth(u, m, d, year)
  <2>1. DayOfMonth(u, mp, m, d)
    BY Zenon DEF DayOfMonth
  <2> HIDE DEF m, d, mp
  <2> QED BY <1>3, <2>1, MonthOf, Zenon
<1> HIDE DEF m, d, mp
<1> USE DEF InMonth
<1>5. IsDate(date)
  <2>1. d \in 1 .. DaysBefore(m + 1, year) - DaysBefore(m, year)
    <3>1. CASE m = 2
      <4>1. year = Y + 1 /\ d <= 28 + Leap(Y + 1)
        BY <1>0, <1>3, <1>4, <3>1, SMT
      <4> QED BY <1>4, <4>1, <3>1, SMT
    <3>2. CASE m # 2
      <4>1. d <= DaysBefore(m + 1, year) - DaysBefore(m, year)
        BY <1>4, <3>2, SMT
      <4>2. DaysBefore(m + 1, year) - DaysBefore(m, year) \in Int
        <5>1. DaysBefore(m + 1, year) \in Int
          BY <1>3, <1>4, MonthDays, SMT
        <5> QED BY <1>4, <5>1, SMT
      <4> QED BY <1>4, <4>1, <4>2, SMT
    <3> QED BY <3>1, <3>2
  <2> QED BY <1>1, <1>4, <2>1, SMT DEF IsDate
<1>6. DayNumber(date) = DayCount(Y, u)
  <2>0. Leaps(1969) = 477
    BY SMT DEF Leaps
  <2>1. DayNumber(date) = 365 * (year - 1970) + Leaps(year - 1) - 477 + DaysBefore(m, year) + d - 1
    BY <1>1, <2>0, SMT DEF DayNumber
  <2>2. CASE m > 2
    BY <1>0, <1>2, <1>3, <1>4, <2>1, <2>2, SMT DEF DayCount
  <2>3. CASE m <= 2
    BY <1>0, <1>2, <1>3, <1>4, <2>1, <2>3, SMT DEF DayCount
  <2> QED BY <2>2, <2>3, <1>4, SMT
<1> QED BY <1>1, <1>3, <1>4, <1>5, <1>6, SMT

(* Every number of days is of a date there is, and of no other.            *)
LEMMA DateBack ==
  ASSUME NEW days \in Int, NEW date, date = civil_from_days(days)
  PROVE  /\ date.y \in Int /\ date.m \in 1 .. 12 /\ date.d \in 1 .. 31
         /\ IsDate(date) /\ DayNumber(date) = days
<1>1. PICK era \in Int, doe \in Nat :
             InEra(doe) /\ OfEra(days, era, doe) /\ civil_from_days(days) = DateInEra(era, doe)
  BY EraOf, Zenon
<1>2. PICK c, q, y, u : IsDay(doe, c, q, y, u)
  BY <1>1, DayExists, Zenon
<1> DEFINE Y == YearOf(era, c, q, y)
<1>3. date = DateInYear(Y, u, MonthAt(u))
  BY <1>1, <1>2, EraDate, SMT
<1>4. Y \in Int /\ DayOfYear(u) /\ Leaps(Y) = 97 * era + 24 * c + q
      /\ Leap(Y + 1) \in 0 .. 1 /\ (u = 365 => Leap(Y + 1) = 1)
  BY <1>2, LeapsOf, SMT
<1>5. Leaps(Y) \in Int /\ Leaps(Y - 1) \in Int
  BY <1>4, SMT DEF Leaps
<1>6. days = DayCount(Y, u)
  BY <1>1, <1>2, <1>4, SMT DEF OfEra, IsDay, DayCount, YearOf
<1> HIDE DEF Y
<1>7. /\ date.y \in Int /\ date.m \in 1 .. 12 /\ date.d \in 1 .. 31
      /\ IsDate(date) /\ DayNumber(date) = DayCount(Y, u)
  BY <1>3, <1>4, <1>5, YearDate, SMT
<1> QED BY <1>6, <1>7, Zenon

LEMMA ZerosAre ==
  ASSUME NEW n \in Int
  PROVE  /\ Zeros(n) \in Seq(Numerals) /\ Len(Zeros(n)) = (IF n < 0 THEN 0 ELSE n)
         /\ \A i \in 1 .. Len(Zeros(n)) : Zeros(n)[i] = "0"
<1> DEFINE k == IF n < 0 THEN 0 ELSE n
<1>1. k \in Nat
  OBVIOUS
<1>2. Zeros(n) = [i \in 1 .. k |-> "0"]
  BY Zenon DEF Zeros
<1> HIDE DEF k
<1>3. Zeros(n) \in Seq(Numerals) /\ Len(Zeros(n)) = k /\ \A i \in 1 .. k : Zeros(n)[i] = "0"
  <2>1. "0" \in Numerals
    BY DigitWorth
  <2> DEFINE z == [i \in 1 .. k |-> "0"]
  <2>2. z \in Seq(Numerals)
    BY <1>1, <2>1
  <2>3. Len(z) = k /\ \A i \in 1 .. k : z[i] = "0"
    BY <1>1
  <2> HIDE DEF z
  <2> QED BY <1>2, <2>2, <2>3, Zenon DEF z
<1> QED BY <1>3 DEF k

(* Zeros in front of digits change nothing. *)
LEMMA ZerosInFront ==
  ASSUME NEW n \in Int, NEW s \in Seq(Numerals)
  PROVE  NumberIn(Zeros(n) \o s) = NumberIn(s) /\ Zeros(n) \o s \in Seq(Numerals)
<1> DEFINE z == Zeros(n)
           f == [i \in 0 .. Len(z) |-> 0]
<1>1. z \in Seq(Numerals) /\ Len(z) \in Nat /\ \A i \in 1 .. Len(z) : z[i] = "0"
  BY ZerosAre
<1> HIDE DEF z
<1>2. IsValue(f, z)
  <2>1. \A i \in 1 .. Len(z) : Worth(z[i]) = 0
    BY <1>1, DigitWorth, Zenon
  <2>2. f[0] = 0 /\ \A i \in 1 .. Len(z) : f[i] = 0 /\ f[i - 1] = 0
    BY <1>1
  <2>3. 0 * 10 + 0 = 0
    OBVIOUS
  <2> HIDE DEF f
  <2> QED BY <2>1, <2>2, <2>3, Zenon DEF IsValue
<1>3. NumberIn(z) = 0
  <2>1. NumberIn(z) = f[Len(z)]
    <3> HIDE DEF f
    <3> QED BY <1>1, <1>2, ValueIs, Zenon
  <2> QED BY <1>1, <2>1
<1>4. NumberIn(z \o s) = NumberIn(z) * Power10[Len(s)] + NumberIn(s)
  BY <1>1, NumberJoined
<1>5. Power10[Len(s)] \in Nat /\ NumberIn(s) \in Nat
  BY PowerType, NumberType
<1>6. \A p, q \in Nat : 0 * p + q = q
  OBVIOUS
<1> QED BY <1>1, <1>3, <1>4, <1>5, <1>6 DEF z

LEMMA OneDigit ==
  ASSUME NEW d \in 0 .. 9
  PROVE  <<Digit[d + 1]>> \in Seq(Numerals) /\ NumberIn(<<Digit[d + 1]>>) = d
<1> DEFINE s == <<Digit[d + 1]>>
           f == [i \in 0 .. 1 |-> IF i = 0 THEN 0 ELSE d]
<1>1. Digit[d + 1] \in Numerals /\ Worth(Digit[d + 1]) = d
  BY DigitWorth, Zenon
<1>2. s \in Seq(Numerals) /\ Len(s) = 1 /\ s[1] = Digit[d + 1] /\ Len(s) \in Nat
  BY <1>1, Zenon, SMT
<1>3. f[0] = 0 /\ f[1] = d /\ 0 * 10 + d = d /\ \A i \in 1 .. 1 : i = 1 /\ i - 1 = 0
  OBVIOUS
<1> HIDE DEF s, f
<1>4. IsValue(f, s)
  BY <1>1, <1>2, <1>3, Zenon DEF IsValue
<1>5. NumberIn(s) = f[Len(s)]
  BY <1>2, <1>4, ValueIs, Zenon
<1> QED BY <1>2, <1>3, <1>5, Zenon DEF s

-----------------------------------------------------------------------------
(* The digits of a number: behind those of a tenth of it. *)

Longer(x, tenth) == (IF x < 10 THEN <<>> ELSE tenth) \o <<Digit[(x % 10) + 1]>>

(* What has been computed for the numbers up to n. *)
FirstBase(x) == [y \in 0 .. 0 |-> Longer(0, <<>>)]
HistoryStep(x, n, before) ==
  [y \in 0 .. n |-> IF y = n THEN Longer(n, before[n \div 10]) ELSE before[y]]
History == INSTANCE Recursion WITH base <- FirstBase, step <- HistoryStep

LEMMA DigitsStep ==
  \A x \in Nat : Digits(x) = Longer(x, Digits(x \div 10))
<1> DEFINE H == CHOOSE h : h = [n \in Nat |-> IF n = 0 THEN FirstBase(0) ELSE HistoryStep(0, n, h[n - 1])]
           f == [x \in Nat |-> H[x][x]]
<1>1. H = [n \in Nat |-> IF n = 0 THEN FirstBase(0) ELSE HistoryStep(0, n, H[n - 1])]
  BY History!ExistsOnNat, Zenon
<1> HIDE DEF H
<1>2. H[0] = FirstBase(0) /\ \A n \in Nat : H[n + 1] = HistoryStep(0, n + 1, H[n])
  <2>1. H[0] = FirstBase(0)
    BY <1>1
  <2>2. ASSUME NEW n \in Nat PROVE H[n + 1] = HistoryStep(0, n + 1, H[n])
    <3>1. n + 1 \in Nat /\ n + 1 # 0 /\ (n + 1) - 1 = n
      OBVIOUS
    <3> QED BY <1>1, <3>1
  <2> QED BY <2>1, <2>2
<1>3. \A n, x \in Nat : x <= n => H[n][x] = H[x][x]
  <2> DEFINE S == {n \in Nat : \A x \in 0 .. n : H[n][x] = H[x][x]}
  <2>1. 0 \in S
    OBVIOUS
  <2>2. ASSUME NEW n \in Nat, n \in S PROVE n + 1 \in S
    <3>1. ASSUME NEW x \in 0 .. n PROVE H[n + 1][x] = H[n][x]
      <4>1. H[n + 1] = HistoryStep(0, n + 1, H[n]) /\ x \in 0 .. n + 1 /\ x # n + 1
        BY <1>2
      <4> QED BY <4>1 DEF HistoryStep
    <3>2. \A x \in 0 .. n + 1 : x \in 0 .. n \/ x = n + 1
      OBVIOUS
    <3> QED BY <2>2, <3>1, <3>2
  <2>3. Nat \subseteq S
    <3> HIDE DEF S
    <3> QED BY <2>1, <2>2, Powers!FromBelow
  <2> QED BY <2>3
<1>4. ASSUME NEW x \in Nat PROVE f[x] = Longer(x, f[x \div 10])
  <2>1. CASE x = 0
    BY <1>2, <2>1 DEF FirstBase, Longer
  <2>2. CASE x # 0
    <3>1. x - 1 \in Nat /\ (x - 1) + 1 = x /\ x \div 10 \in Nat /\ x \div 10 <= x - 1
      BY <2>2
    <3>2. H[x] = HistoryStep(0, x, H[x - 1])
      BY <1>2, <3>1
    <3>3. H[x][x] = Longer(x, H[x - 1][x \div 10])
      BY <3>2 DEF HistoryStep
    <3>4. H[x - 1][x \div 10] = H[x \div 10][x \div 10]
      BY <1>3, <3>1
    <3> QED BY <3>1, <3>3, <3>4
  <2> QED BY <2>1, <2>2
<1>5. f = [x \in Nat |-> Longer(x, f[x \div 10])]
  <2>1. f = [x \in Nat |-> f[x]]
    OBVIOUS
  <2> HIDE DEF f
  <2> QED BY <1>4, <2>1
<1> DEFINE text == CHOOSE g : g = [x \in Nat |-> Longer(x, g[x \div 10])]
<1>6. text = [x \in Nat |-> Longer(x, text[x \div 10])]
  <2> HIDE DEF f
  <2> QED BY <1>5, Zenon
<1>7. \A x : Digits(x) = text[x]
  BY Zenon DEF Digits, Longer
<1> HIDE DEF text
<1> QED BY <1>6, <1>7

(* What Digits writes is read back. *)
LEMMA DigitsBack ==
  \A x \in Nat : /\ Digits(x) \in Seq(Numerals) /\ Len(Digits(x)) >= 1 /\ NumberIn(Digits(x)) = x
                 /\ \A w \in Nat \ {0} : x < Power10[w] => Len(Digits(x)) <= w
<1> DEFINE Right(x) == /\ Digits(x) \in Seq(Numerals) /\ Len(Digits(x)) >= 1 /\ NumberIn(Digits(x)) = x
                       /\ \A w \in Nat \ {0} : x < Power10[w] => Len(Digits(x)) <= w
           T == {x \in Nat : ~ Right(x)}
<1> HIDE DEF Right
<1> SUFFICES ASSUME T # {} PROVE FALSE
  BY Zenon DEF Right
<1>1. PICK x \in T : \A k \in T : x <= k
  <2>1. T \in SUBSET Nat
    OBVIOUS
  <2> HIDE DEF T
  <2> QED BY <2>1, Powers!LeastNumber
<1>2. x \in Nat /\ ~ Right(x) /\ \A k \in Nat : k < x => Right(k)
  BY <1>1
<1> DEFINE q == x \div 10
           r == x % 10
<1>3. q \in Nat /\ r \in 0 .. 9 /\ x = q * 10 + r
  BY <1>2
<1>4. Digits(x) = (IF x < 10 THEN <<>> ELSE Digits(q)) \o <<Digit[r + 1]>>
  BY <1>2, DigitsStep DEF Longer
<1> HIDE DEF q, r
<1>5. <<Digit[r + 1]>> \in Seq(Numerals) /\ NumberIn(<<Digit[r + 1]>>) = r
  BY <1>3, OneDigit
<1>6. CASE x < 10
  <2>1. Digits(x) = <<Digit[r + 1]>> /\ r = x
    BY <1>2, <1>3, <1>4, <1>5, <1>6
  <2>2. Len(<<Digit[r + 1]>>) = 1
    OBVIOUS
  <2> QED BY <1>2, <1>5, <2>1, <2>2 DEF Right
<1>7. CASE x >= 10
  <2>1. Digits(x) = Digits(q) \o <<Digit[r + 1]>> /\ q < x /\ q >= 1
    BY <1>2, <1>3, <1>4, <1>7
  <2>2. /\ Digits(q) \in Seq(Numerals) /\ Len(Digits(q)) >= 1 /\ NumberIn(Digits(q)) = q
        /\ \A w \in Nat \ {0} : q < Power10[w] => Len(Digits(q)) <= w
    BY <1>2, <1>3, <2>1 DEF Right
  <2>3. NumberIn(Digits(x)) = q * Power10[1] + r
    <3>1. Len(<<Digit[r + 1]>>) = 1
      OBVIOUS
    <3> QED BY <1>5, <2>1, <2>2, <3>1, NumberJoined, Zenon
  <2>4. Power10[1] = 10
    BY PowerDef
  <2>5. Digits(x) \in Seq(Numerals) /\ Len(Digits(x)) = Len(Digits(q)) + 1
    BY <1>5, <2>1, <2>2
  <2>6. ASSUME NEW w \in Nat \ {0}, x < Power10[w] PROVE Len(Digits(x)) <= w
    <3>1. w # 1
      BY <1>2, <1>7, <2>4, <2>6
    <3>2. w - 1 \in Nat \ {0} /\ (w - 1) + 1 = w /\ w - 1 \in Nat
      BY <3>1
    <3>3. Power10[w] = 10 * Power10[w - 1] /\ Power10[w - 1] \in Nat
      BY <3>2, PowerDef, PowerType
    <3>4. q < Power10[w - 1]
      BY <1>3, <2>6, <3>3
    <3>5. Len(Digits(q)) <= w - 1
      BY <2>2, <3>2, <3>4
    <3> QED BY <2>2, <2>5, <3>5
  <2> QED BY <1>2, <1>3, <2>2, <2>3, <2>4, <2>5, <2>6 DEF Right
<1> QED BY <1>2, <1>6, <1>7

(* And what Padded writes, which has its width at least. *)
LEMMA PaddedBack ==
  ASSUME NEW n \in Nat, NEW w \in Int
  PROVE  /\ Padded(n, w) \in Seq(Numerals) /\ NumberIn(Padded(n, w)) = n /\ Len(Padded(n, w)) >= 1
         /\ w >= 1 /\ n < Power10[w] => Len(Padded(n, w)) = w
<1> DEFINE d == Digits(n)
           z == Zeros(w - Len(d))
<1>1. /\ d \in Seq(Numerals) /\ Len(d) \in Nat /\ Len(d) >= 1 /\ NumberIn(d) = n
      /\ w >= 1 /\ n < Power10[w] => Len(d) <= w
  BY DigitsBack
<1>2. Padded(n, w) = z \o d
  BY Zenon DEF Padded
<1> HIDE DEF d
<1>3. /\ z \in Seq(Numerals) /\ Len(z) = (IF w - Len(d) < 0 THEN 0 ELSE w - Len(d))
      /\ NumberIn(z \o d) = NumberIn(d) /\ z \o d \in Seq(Numerals)
  <2>1. w - Len(d) \in Int
    BY <1>1
  <2> QED BY <1>1, <2>1, ZerosAre, ZerosInFront, Zenon
<1> HIDE DEF z
<1>4. Len(z \o d) = Len(z) + Len(d)
  BY <1>1, <1>3
<1> QED BY <1>1, <1>2, <1>3, <1>4

LEMMA MinIs ==
  ASSUME NEW S \in SUBSET Int, NEW m \in S, \A k \in S : m <= k
  PROVE  Min(S) = m
<1>1. \A x \in S : (\A y \in S : x <= y) => x = m
  OBVIOUS
<1>2. Min(S) \in S /\ \A y \in S : Min(S) <= y
  BY Zenon DEF Min
<1> QED BY <1>1, <1>2

LEMMA MaxIs ==
  ASSUME NEW S \in SUBSET Int, NEW m \in S, \A k \in S : k <= m
  PROVE  Max(S) = m
<1>1. \A x \in S : (\A y \in S : x >= y) => x = m
  OBVIOUS
<1>2. \A y \in S : m >= y
  OBVIOUS
<1>3. Max(S) \in S /\ \A y \in S : Max(S) >= y
  BY <1>2, Zenon DEF Max
<1> QED BY <1>1, <1>3

(* m is how much of a text there is in front of its last zeros. *)
Counting(text, m) ==
  /\ m \in 0 .. Len(text) /\ (m # 0 => text[m] # "0")
  /\ \A i \in 1 .. Len(text) : i > m => text[i] = "0"

LEMMA TrimIs ==
  ASSUME NEW s \in Seq(Numerals), NEW m, Counting(s, m)
  PROVE  TrimZeros(s) = SubSeq(s, 1, m)
<1> DEFINE S == {i \in DOMAIN s : s[i] # "0"} \cup {0}
<1>1. DOMAIN s = 1 .. Len(s) /\ Len(s) \in Nat
  OBVIOUS
<1>2. S \in SUBSET Int
  BY <1>1
<1>3. m \in S
  BY <1>1 DEF Counting
<1>4. \A k \in S : k <= m
  BY <1>1 DEF Counting
<1> HIDE DEF S
<1>5. Max(S) = m
  BY <1>2, <1>3, <1>4, MaxIs, Zenon
<1> QED BY <1>5, Zenon DEF TrimZeros, S

LEMMA CountingExists ==
  ASSUME NEW s \in Seq(Numerals)
  PROVE  \E m : Counting(s, m)
<1> DEFINE T == {k \in Nat : k <= Len(s) /\ (k # Len(s) => s[Len(s) - k] # "0")}
<1>1. Len(s) \in Nat /\ Len(s) \in T
  OBVIOUS
<1>2. PICK k \in T : \A j \in T : k <= j
  <2>1. T \in SUBSET Nat /\ T # {}
    BY <1>1
  <2> HIDE DEF T
  <2> QED BY <2>1, Powers!LeastNumber
<1> DEFINE m == Len(s) - k
<1>3. m \in 0 .. Len(s) /\ (m # 0 => s[m] # "0")
  BY <1>1, <1>2
<1>4. ASSUME NEW i \in 1 .. Len(s), i > m PROVE s[i] = "0"
  <2>1. Len(s) - i \in Nat /\ Len(s) - i < k /\ Len(s) - (Len(s) - i) = i /\ Len(s) - i # Len(s)
    BY <1>1, <1>2, <1>4
  <2>2. Len(s) - i \notin T
    BY <1>1, <1>2, <2>1
  <2> QED BY <2>1, <2>2
<1> HIDE DEF m
<1> QED BY <1>3, <1>4, Zenon DEF Counting

(* Trimmed zeros are made up for when the width is known. *)
LEMMA TrimBack ==
  ASSUME NEW s \in Seq(Numerals)
  PROVE  LET t == TrimZeros(s)
         IN /\ t \in Seq(Numerals) /\ Len(t) \in 0 .. Len(s)
            /\ t \o Zeros(Len(s) - Len(t)) = s
            /\ t # <<>> => Last(t) # "0"
            /\ Len(t) = 0 => \A i \in 1 .. Len(s) : s[i] = "0"
<1>1. PICK m : Counting(s, m)
  BY CountingExists
<1> DEFINE t == TrimZeros(s)
           z == Zeros(Len(s) - Len(t))
<1>2. t = SubSeq(s, 1, m)
  BY <1>1, TrimIs
<1>3. m \in 0 .. Len(s) /\ Len(s) \in Nat
  BY <1>1 DEF Counting
<1> HIDE DEF t
<1>4. t \in Seq(Numerals) /\ Len(t) = m /\ \A i \in 1 .. m : t[i] = s[i]
  BY <1>2, <1>3
<1>5. z \in Seq(Numerals) /\ Len(z) = Len(s) - m /\ \A i \in 1 .. Len(s) - m : z[i] = "0"
  BY <1>3, <1>4, ZerosAre
<1> HIDE DEF z
<1>6. t \o z = s
  <2>1. t \o z \in Seq(Numerals) /\ Len(t \o z) = Len(s)
    BY <1>3, <1>4, <1>5
  <2>2. ASSUME NEW i \in 1 .. Len(s) PROVE (t \o z)[i] = s[i]
    <3>1. CASE i <= m
      BY <1>3, <1>4, <1>5, <3>1
    <3>2. CASE i > m
      <4>1. (t \o z)[i] = z[i - m] /\ i - m \in 1 .. Len(s) - m
        BY <1>3, <1>4, <1>5, <3>2
      <4>2. s[i] = "0"
        BY <1>1, <3>2 DEF Counting
      <4> QED BY <1>5, <4>1, <4>2
    <3>3. i <= m \/ i > m
      BY <1>3, SMT
    <3> QED BY <3>1, <3>2, <3>3, Zenon
  <2> QED BY <2>1, <2>2, SeqEqual
<1>7. t # <<>> => Last(t) # "0"
  <2> SUFFICES ASSUME t # <<>> PROVE Last(t) # "0"
    OBVIOUS
  <2>1. m # 0
    BY <1>4
  <2>2. Last(t) = t[m] /\ m \in 1 .. m
    BY <1>3, <1>4, <2>1 DEF Last
  <2> QED BY <1>1, <1>4, <2>1, <2>2 DEF Counting
<1>8. Len(t) = 0 => \A i \in 1 .. Len(s) : s[i] = "0"
  BY <1>1, <1>4 DEF Counting
<1> QED BY <1>3, <1>4, <1>6, <1>7, <1>8 DEF t, z

-----------------------------------------------------------------------------
(* Where a text comes apart. *)

LEMMA PartedIs ==
  ASSUME NEW S, NEW a \in Seq(S), NEW b \in Seq(S), NEW mark \in S,
         \A i \in 1 .. Len(a) : a[i] # mark
  PROVE  /\ BeforeThe(a \o <<mark>> \o b, mark) = a /\ BehindThe(a \o <<mark>> \o b, mark) = b
         /\ BeforeThe(a, mark) = a /\ BehindThe(a, mark) = <<>>
<1> DEFINE t == a \o <<mark>> \o b
           m == Len(a)
<1>1. m \in Nat /\ t \in Seq(S) /\ Len(t) = m + 1 + Len(b) /\ Len(b) \in Nat /\ DOMAIN t = 1 .. Len(t) /\ DOMAIN a = 1 .. m
  OBVIOUS
<1>2. /\ \A i \in 1 .. m : t[i] = a[i]
      /\ t[m + 1] = mark
      /\ \A i \in 1 .. Len(b) : t[m + 1 + i] = b[i]
  OBVIOUS
<1> HIDE DEF t
<1>3. FirstOf(t, mark) = m + 1
  <2> DEFINE T == {i \in DOMAIN t : t[i] = mark} \cup {Len(t) + 1}
  <2>1. T \in SUBSET Int /\ m + 1 \in T
    BY <1>1, <1>2
  <2>2. \A k \in T : m + 1 <= k
    BY <1>1, <1>2
  <2> HIDE DEF T
  <2>3. Min(T) = m + 1
    BY <2>1, <2>2, MinIs
  <2> QED BY <2>3, Zenon DEF FirstOf, T
<1>4. FirstOf(a, mark) = m + 1
  <2> DEFINE T == {i \in DOMAIN a : a[i] = mark} \cup {Len(a) + 1}
  <2>1. T = {m + 1}
    BY <1>1
  <2>2. Min({m + 1}) = m + 1
    <3>1. {m + 1} \in SUBSET Int /\ m + 1 \in {m + 1} /\ \A k \in {m + 1} : m + 1 <= k
      BY <1>1
    <3> QED BY <3>1, MinIs, Zenon
  <2> HIDE DEF T
  <2> QED BY <2>1, <2>2, Zenon DEF FirstOf, T
<1>5. BeforeThe(t, mark) = a
  <2>1. BeforeThe(t, mark) = SubSeq(t, 1, m)
    BY <1>1, <1>3 DEF BeforeThe
  <2>2. SubSeq(t, 1, m) \in Seq(S) /\ Len(SubSeq(t, 1, m)) = m /\ \A i \in 1 .. m : SubSeq(t, 1, m)[i] = a[i]
    BY <1>1, <1>2
  <2> QED BY <2>1, <2>2, SeqEqual
<1>6. BehindThe(t, mark) = b
  <2>1. BehindThe(t, mark) = SubSeq(t, m + 2, Len(t))
    BY <1>1, <1>3 DEF BehindThe
  <2>2. SubSeq(t, m + 2, Len(t)) \in Seq(S) /\ Len(SubSeq(t, m + 2, Len(t))) = Len(b)
        /\ \A i \in 1 .. Len(b) : SubSeq(t, m + 2, Len(t))[i] = t[m + 1 + i]
    BY <1>1
  <2> QED BY <1>2, <2>1, <2>2, SeqEqual
<1>7. BeforeThe(a, mark) = a
  <2>1. BeforeThe(a, mark) = SubSeq(a, 1, m)
    BY <1>1, <1>4 DEF BeforeThe
  <2>2. SubSeq(a, 1, m) = a
    BY <1>1
  <2> QED BY <2>1, <2>2
<1>8. BehindThe(a, mark) = <<>>
  <2>1. BehindThe(a, mark) = SubSeq(a, m + 2, m)
    BY <1>1, <1>4 DEF BehindThe
  <2>2. SubSeq(a, m + 2, m) = <<>>
    BY <1>1
  <2> QED BY <2>1, <2>2
<1> QED BY <1>5, <1>6, <1>7, <1>8 DEF t

LEMMA Wider ==
  /\ Seq(Numerals) \subseteq Seq(Glyphs)
  /\ \A mark \in Marks : Seq(Numerals) \subseteq Seq(Glyphs \ {mark}) /\ mark \in Glyphs
  /\ \A mark : Seq(Glyphs \ {mark}) \subseteq Seq(Glyphs)
<1>1. \A mark \in Marks : Numerals \subseteq Glyphs \ {mark} /\ mark \in Glyphs
  BY DigitWorth, Zenon DEF Glyphs
<1>2. Numerals \subseteq Glyphs /\ \A mark : Glyphs \ {mark} \subseteq Glyphs
  BY Zenon DEF Glyphs
<1> QED BY <1>1, <1>2, SeqMonotonic, Zenon

(* The part of a text in front of a character it does not have. *)
LEMMA Parted ==
  ASSUME NEW mark \in Marks, NEW a \in Seq(Glyphs \ {mark}), NEW b \in Seq(Glyphs)
  PROVE  /\ BeforeThe(a \o <<mark>> \o b, mark) = a /\ BehindThe(a \o <<mark>> \o b, mark) = b
         /\ BeforeThe(a, mark) = a /\ BehindThe(a, mark) = <<>>
         /\ a \o <<mark>> \o b \in Seq(Glyphs)
<1>1. a \in Seq(Glyphs) /\ mark \in Glyphs
  BY Wider, Zenon
<1>2. \A i \in 1 .. Len(a) : a[i] # mark
  OBVIOUS
<1>3. a \o <<mark>> \o b \in Seq(Glyphs)
  BY <1>1
<1> QED BY <1>1, <1>2, <1>3, PartedIs

(* A sign in front of a text without one. *)
LEMMA Signs ==
  ASSUME NEW negative \in BOOLEAN, NEW t \in Seq(Glyphs), t # <<>>, Head(t) # "-"
  PROVE  /\ IsNegative(Sign(negative) \o t) = negative /\ Unsigned(Sign(negative) \o t) = t
         /\ Sign(negative) \o t \in Seq(Glyphs)
<1>1. CASE negative
  <2>1. Sign(negative) \o t = <<"-">> \o t
    BY <1>1 DEF Sign
  <2>2. Head(<<"-">> \o t) = "-" /\ Tail(<<"-">> \o t) = t /\ <<"-">> \o t \in Seq(Glyphs)
    <3>1. "-" \in Glyphs
      BY DEF Glyphs, Marks
    <3> QED BY <3>1
  <2> QED BY <1>1, <2>1, <2>2 DEF IsNegative, Unsigned
<1>2. CASE ~ negative
  <2>1. Sign(negative) \o t = t
    BY <1>2 DEF Sign
  <2> QED BY <1>2, <2>1 DEF IsNegative, Unsigned
<1> QED BY <1>1, <1>2

LEMMA Nothing ==
  /\ \A n \in Int : n <= 0 => Zeros(n) = <<>>
  /\ \A n \in Int : NumberIn(Zeros(n)) = 0
<1>1. ASSUME NEW n \in Int, n <= 0 PROVE Zeros(n) = <<>>
  BY <1>1, ZerosAre
<1>2. NumberIn(<<>>) = 0
  <2>1. <<>> \in Seq(Numerals) /\ Len(<<>>) = 0 /\ <<>> \o <<>> = <<>>
    OBVIOUS
  <2>2. NumberIn(<<>> \o <<>>) = NumberIn(<<>>) * Power10[0] + NumberIn(<<>>)
    BY <2>1, NumberJoined, Zenon
  <2>3. NumberIn(<<>>) \in Nat
    BY <2>1, NumberType, Zenon
  <2>4. \A n, p \in Nat : p = 1 /\ n = n * p + n => n = 0
    OBVIOUS
  <2>5. Power10[0] = 1
    BY PowerDef
  <2> QED BY <2>1, <2>2, <2>3, <2>4, <2>5, SMT
<1>3. ASSUME NEW n \in Int PROVE NumberIn(Zeros(n)) = 0
  <2>1. Zeros(n) \in Seq(Numerals) /\ Zeros(n) \o <<>> = Zeros(n) /\ <<>> \in Seq(Numerals)
    BY ZerosAre
  <2> QED BY <1>2, <2>1, ZerosInFront, Zenon
<1> QED BY <1>1, <1>3

LEMMA Regrouped ==
  \A a, b, c \in Seq(Glyphs) : a \o b \o c = a \o (b \o c)
OBVIOUS

(* A fraction behind a whole number; it may be left out. *)
Point(f, shown) == IF shown THEN <<".">> \o f ELSE <<>>

LEMMA PointParted ==
  ASSUME NEW a \in Seq(Glyphs \ {"."}), NEW f \in Seq(Numerals), NEW shown \in BOOLEAN, ~ shown => f = <<>>
  PROVE  /\ BeforeThe(a \o Point(f, shown), ".") = a /\ BehindThe(a \o Point(f, shown), ".") = f
         /\ a \o Point(f, shown) \in Seq(Glyphs) /\ Point(f, shown) \in Seq(Glyphs)
         /\ \A scale \in Nat : TicksIn(a \o Point(f, shown), scale) = NumberIn(f \o Zeros(scale - Len(f)))
<1>0. a \in Seq(Glyphs) /\ f \in Seq(Glyphs) /\ <<".">> \in Seq(Glyphs) /\ "." \in Marks
  <2>1. "." \in Marks /\ "." \in Glyphs
    BY DEF Marks, Glyphs
  <2>2. a \in Seq(Glyphs) /\ f \in Seq(Glyphs)
    BY Wider, Zenon
  <2> QED BY <2>1, <2>2
<1>1. CASE shown
  <2>1. Point(f, shown) = <<".">> \o f
    BY <1>1 DEF Point
  <2>2. a \o <<".">> \o f = a \o (<<".">> \o f)
    BY <1>0, Regrouped, Zenon
  <2>3. <<".">> \o f \in Seq(Glyphs) /\ a \o (<<".">> \o f) \in Seq(Glyphs)
    BY <1>0
  <2>4. BeforeThe(a \o <<".">> \o f, ".") = a /\ BehindThe(a \o <<".">> \o f, ".") = f
    BY <1>0, Parted, Zenon
  <2> QED BY <2>1, <2>2, <2>3, <2>4, Zenon DEF TicksIn
<1>2. CASE ~ shown
  <2>1. Point(f, shown) = <<>> /\ a \o <<>> = a /\ <<>> \in Seq(Glyphs)
    BY <1>0, <1>2 DEF Point
  <2>2. BeforeThe(a, ".") = a /\ BehindThe(a, ".") = <<>>
    BY <1>0, <2>1, Parted, Zenon
  <2> QED BY <1>0, <1>2, <2>1, <2>2, Zenon DEF TicksIn
<1> QED BY <1>1, <1>2

(* A decimal is its whole part and its fraction, and its sign. *)
IsDecimal(text, negative, a, f, shown) ==
  /\ negative \in BOOLEAN /\ shown \in BOOLEAN /\ (~ shown => f = <<>>)
  /\ a \in Seq(Numerals) /\ a # <<>> /\ f \in Seq(Numerals)
  /\ text = Sign(negative) \o a \o Point(f, shown)

(* A whole and a fraction around a point, as a number of ticks. *)
LEMMA DecimalBack ==
  ASSUME NEW text, NEW negative, NEW a, NEW f, NEW shown, IsDecimal(text, negative, a, f, shown),
         NEW scale \in Nat
  PROVE  /\ IsNegative(text) = negative
         /\ DecimalIn(Unsigned(text), scale) =
              NumberIn(a) * Power10[scale] + NumberIn(f \o Zeros(scale - Len(f)))
<1> DEFINE t == a \o Point(f, shown)
<1> USE DEF IsDecimal
<1>0. a \in Seq(Glyphs \ {"."})
  <2>1. "." \in Marks
    BY DEF Marks
  <2> QED BY <2>1, Wider, Zenon
<1>1. t \in Seq(Glyphs) /\ Point(f, shown) \in Seq(Glyphs) /\ BeforeThe(t, ".") = a
  BY <1>0, PointParted, Zenon
<1>2. t # <<>> /\ Head(t) \in Numerals
  <2>1. t # <<>> /\ Head(t) = a[1] /\ a[1] \in Numerals
    BY <1>1
  <2> QED BY <2>1
<1>3. Sign(negative) \in Seq(Glyphs) /\ a \in Seq(Glyphs)
  <2>1. "-" \in Glyphs
    BY DEF Glyphs, Marks
  <2> QED BY <2>1, Wider DEF Sign
<1>4. text = Sign(negative) \o t
  BY <1>1, <1>3, Regrouped, Zenon
<1>5. Head(t) # "-"
  BY <1>2, DigitWorth, Zenon
<1>6. TicksIn(t, scale) = NumberIn(f \o Zeros(scale - Len(f)))
  BY <1>0, PointParted, Zenon
<1> HIDE DEF t, IsDecimal
<1>8. negative \in BOOLEAN
  BY Zenon DEF IsDecimal
<1>7. IsNegative(text) = negative /\ Unsigned(text) = t
  BY <1>1, <1>2, <1>4, <1>5, <1>8, Signs, Zenon
<1> QED BY <1>1, <1>6, <1>7, Zenon DEF DecimalIn

(* Trimmed, a fraction is the same. *)
LEMMA FractionBack ==
  ASSUME NEW n \in Nat, NEW scale \in Nat, n < Power10[scale]
  PROVE  LET f == TrimZeros(Padded(n, scale))
         IN scale > 0 => /\ f \in Seq(Numerals) /\ Len(f) <= scale
                         /\ NumberIn(f \o Zeros(scale - Len(f))) = n
<1> SUFFICES ASSUME scale > 0
             PROVE  LET f == TrimZeros(Padded(n, scale))
                    IN /\ f \in Seq(Numerals) /\ Len(f) <= scale
                       /\ NumberIn(f \o Zeros(scale - Len(f))) = n
  OBVIOUS
<1>1. Padded(n, scale) \in Seq(Numerals) /\ NumberIn(Padded(n, scale)) = n /\ Len(Padded(n, scale)) = scale
  <2>1. scale \in Int /\ scale >= 1
    OBVIOUS
  <2> QED BY <2>1, PaddedBack, Zenon
<1> DEFINE p == Padded(n, scale)
           t == TrimZeros(p)
<1> HIDE DEF p
<1>2. t \in Seq(Numerals) /\ Len(t) \in 0 .. Len(p) /\ t \o Zeros(Len(p) - Len(t)) = p
  BY <1>1, TrimBack, Zenon DEF p
<1> HIDE DEF t
<1>3. t \in Seq(Numerals) /\ Len(t) <= scale /\ NumberIn(t \o Zeros(scale - Len(t))) = n
  <2>1. NumberIn(p) = n /\ Len(p) = scale
    BY <1>1, Zenon DEF p
  <2>2. t \o Zeros(scale - Len(t)) = p
    BY <1>2, <2>1, Zenon
  <2>3. Len(t) \in 0 .. scale
    BY <1>2, <2>1, Zenon
  <2>4. Len(t) <= scale
    BY <2>3
  <2> QED BY <1>2, <2>1, <2>2, <2>4, Zenon
<1> QED BY <1>3, Zenon DEF t, p

(* write_decimal says the value, of every value and scale. *)
LEMMA SmallDecimal ==
  ASSUME NEW v \in Int, NEW scale \in Nat
  PROVE  SaysDecimal(write_decimal(v, scale), scale, v)
<1> DEFINE abs   == Magnitude(v)
           P     == Power10[scale]
           whole == abs \div P
           frac  == abs % P
           shown == scale > 0 /\ frac # 0
           a     == Digits(whole)
           f     == IF shown THEN TrimZeros(Padded(frac, scale)) ELSE <<>>
           neg   == v < 0
<1>1. abs \in Nat
  BY DEF Magnitude
<1>2. P \in Nat /\ P > 0
  BY PowerType
<1> HIDE DEF abs
<1>3. whole \in Nat /\ frac \in 0 .. P - 1 /\ abs = whole * P + frac
  <2> HIDE DEF P
  <2> QED BY <1>1, <1>2, SMT
<1>4. a \in Seq(Numerals) /\ a # <<>> /\ NumberIn(a) = whole
  <2>1. whole \in Nat
    BY <1>3
  <2> HIDE DEF whole
  <2>2. a \in Seq(Numerals) /\ Len(a) >= 1 /\ NumberIn(a) = whole
    BY <2>1, DigitsBack, Zenon
  <2> QED BY <2>2
<1>5. frac \in Nat /\ frac < P
  BY <1>2, <1>3
<1>6. write_decimal(v, scale) = Sign(neg) \o a \o Point(f, shown)
  BY Zenon DEF write_decimal, Point, abs
<1> HIDE DEF whole, frac
<1>7. scale = 0 => P = 1
  BY PowerDef
<1> HIDE DEF P
<1>8. f \in Seq(Numerals) /\ (~ shown => f = <<>>) /\ NumberIn(f \o Zeros(scale - Len(f))) = frac
  <2>1. CASE shown
    <3>1. frac < Power10[scale]
      BY <1>5 DEF P
    <3> QED BY <1>5, <2>1, <3>1, FractionBack
  <2>2. CASE ~ shown
    <3>1. frac = 0
      BY <1>3, <1>5, <1>7, <2>2
    <3>2. f = <<>> /\ <<>> \in Seq(Numerals)
      BY <2>2
    <3>3. NumberIn(<<>> \o Zeros(scale - Len(<<>>))) = 0
      <4>1. <<>> \o Zeros(scale - Len(<<>>)) = Zeros(scale) 
        <5>1. scale - Len(<<>>) = scale /\ Zeros(scale) \in Seq(Numerals)
          BY ZerosAre
        <5> QED BY <5>1
      <4> QED BY <4>1, Nothing
    <3> QED BY <3>1, <3>2, <3>3
  <2> QED BY <2>1, <2>2
<1> HIDE DEF a, f
<1>9. shown \in BOOLEAN /\ neg \in BOOLEAN
  OBVIOUS
<1> HIDE DEF shown, neg
<1>10. /\ IsNegative(write_decimal(v, scale)) = neg
       /\ DecimalIn(Unsigned(write_decimal(v, scale)), scale) = NumberIn(a) * Power10[scale] + frac
  <2> DEFINE text == write_decimal(v, scale)
             g == f \o Zeros(scale - Len(f))
  <2>1. IsDecimal(text, neg, a, f, shown)
    BY <1>4, <1>6, <1>8, <1>9, Zenon DEF IsDecimal
  <2>2. /\ IsNegative(text) = neg
        /\ DecimalIn(Unsigned(text), scale) = NumberIn(a) * Power10[scale] + NumberIn(g)
    <3> HIDE DEF text
    <3> QED BY <2>1, DecimalBack, SMT
  <2> QED BY <1>8, <2>2, Zenon
<1>11. NumberIn(a) * Power10[scale] + frac = abs
  BY <1>3, <1>4, Zenon DEF P
<1> QED BY <1>10, <1>11, Zenon DEF SaysDecimal, neg, abs

-----------------------------------------------------------------------------
(* Clocks and dates. *)

AreSeqs(S, a, b, c) == a \in Seq(S) /\ b \in Seq(S) /\ c \in Seq(S)

IsJoined(S, a, b, c) ==
  a \o b \o c = a \o (b \o c) /\ a \o b \o c \in Seq(S) /\ a \o b \in Seq(S) /\ b \o c \in Seq(S)

LEMMA JoinedTwice ==
  ASSUME NEW S, NEW a, NEW b, NEW c, AreSeqs(S, a, b, c)
  PROVE  IsJoined(S, a, b, c)
BY DEF AreSeqs, IsJoined

AllIn(S, s, a, b, c, d, e) ==
  /\ s \in Seq(S) /\ a \in Seq(S) /\ b \in Seq(S) /\ c \in Seq(S) /\ d \in Seq(S) /\ e \in Seq(S)

AreOne(S, s, a, b, c, d, e) ==
  /\ s \o a \o b \o c \o d \o e = s \o (a \o b \o c \o d \o e)
  /\ a \o b \o c \o d \o e = a \o b \o (c \o d \o e)
  /\ s \o a \o b \o c \o d \o e \in Seq(S) /\ a \o b \o c \o d \o e \in Seq(S) /\ c \o d \o e \in Seq(S)

LEMMA Together ==
  ASSUME NEW S, NEW s, NEW a, NEW b, NEW c, NEW d, NEW e, AllIn(S, s, a, b, c, d, e)
  PROVE  AreOne(S, s, a, b, c, d, e)
<1> DEFINE ab == a \o b
           abc == ab \o c
           abcd == abc \o d
           abcde == abcd \o e
           cd == c \o d
           cde == cd \o e
<1>0. s \in Seq(S) /\ a \in Seq(S) /\ b \in Seq(S) /\ c \in Seq(S) /\ d \in Seq(S) /\ e \in Seq(S)
  BY Zenon DEF AllIn
<1>1. IsJoined(S, s, a, b)
  BY <1>0, JoinedTwice, Zenon DEF AreSeqs
<1>2. IsJoined(S, s, ab, c)
  BY <1>0, <1>1, JoinedTwice, Zenon DEF AreSeqs, IsJoined
<1>3. IsJoined(S, s, abc, d)
  BY <1>0, <1>2, JoinedTwice, Zenon DEF AreSeqs, IsJoined
<1>4. IsJoined(S, s, abcd, e)
  BY <1>0, <1>3, JoinedTwice, Zenon DEF AreSeqs, IsJoined
<1>5. IsJoined(S, ab, c, d)
  BY <1>0, <1>1, JoinedTwice, Zenon DEF AreSeqs, IsJoined
<1>6. IsJoined(S, ab, cd, e)
  BY <1>0, <1>1, <1>5, JoinedTwice, Zenon DEF AreSeqs, IsJoined
<1>7. s \o a \o b \o c \o d \o e = s \o abcde /\ s \o abcde \in Seq(S)
  BY <1>1, <1>2, <1>3, <1>4, Zenon DEF IsJoined
<1>8. abcde = ab \o cde
  BY <1>5, <1>6, Zenon DEF IsJoined
<1> QED BY <1>4, <1>6, <1>7, <1>8, Zenon DEF AreOne, IsJoined

(* Three numbers with a mark between them. *)
Three(mark, a, b, c) == a \o <<mark>> \o b \o <<mark>> \o c

IsThree(text, mark, a, b, c) ==
  /\ mark \in Marks /\ a \in Seq(Numerals) /\ b \in Seq(Numerals) /\ c \in Seq(Numerals) /\ a # <<>>
  /\ text = Three(mark, a, b, c)

(* Three parts between two marks. *)
LEMMA ThreeParted ==
  ASSUME NEW text, NEW mark, NEW a, NEW b, NEW c, IsThree(text, mark, a, b, c)
  PROVE  /\ text \in Seq(Numerals \cup {mark}) /\ text \in Seq(Glyphs)
         /\ BeforeThe(text, mark) = a /\ BeforeThe(BehindThe(text, mark), mark) = b
         /\ BehindThe(BehindThe(text, mark), mark) = c
         /\ text # <<>> /\ Head(text) \in Numerals
<1> DEFINE S == Numerals \cup {mark}
           rest == b \o <<mark>> \o c
<1>0. /\ mark \in Marks /\ a \in Seq(Numerals) /\ b \in Seq(Numerals) /\ c \in Seq(Numerals) /\ a # <<>>
      /\ text = a \o <<mark>> \o b \o <<mark>> \o c
  BY Zenon DEF IsThree, Three
<1>1. a \in Seq(S) /\ b \in Seq(S) /\ c \in Seq(S) /\ <<mark>> \in Seq(S)
  <2>1. Numerals \subseteq S /\ mark \in S
    OBVIOUS
  <2> HIDE DEF S
  <2> QED BY <1>0, <2>1
<1>2. S \subseteq Glyphs
  BY <1>0, Zenon DEF Glyphs
<1> HIDE DEF S
<1>3. text = a \o <<mark>> \o rest /\ text \in Seq(S)
  <2> DEFINE m == <<mark>>
  <2>1. m \in Seq(S)
    BY <1>1
  <2> HIDE DEF m
  <2>2. AreOne(S, a, a, m, b, m, c)
    <3>1. AllIn(S, a, a, m, b, m, c)
      BY <1>1, <2>1, Zenon DEF AllIn
    <3> QED BY <3>1, Together, Zenon
  <2>3. a \o m \o b \o m \o c = a \o m \o rest /\ a \o m \o b \o m \o c \in Seq(S)
    BY <2>2, Zenon DEF AreOne, m
  <2> QED BY <1>0, <2>3, Zenon DEF m
<1>4. text \in Seq(Glyphs)
  BY <1>2, <1>3
<1>5. /\ a \in Seq(Glyphs \ {mark}) /\ b \in Seq(Glyphs \ {mark}) /\ c \in Seq(Glyphs)
  BY <1>0, Wider, Zenon
<1>6. BeforeThe(rest, mark) = b /\ BehindThe(rest, mark) = c /\ rest \in Seq(Glyphs)
  BY <1>0, <1>5, Parted, Zenon
<1>8. text # <<>> /\ Head(text) \in Numerals
  <2> HIDE DEF rest
  <2>1. /\ <<mark>> \in Seq(Glyphs) /\ a \in Seq(Glyphs) /\ a \o <<mark>> \in Seq(Glyphs)
        /\ Len(a \o <<mark>>) >= 1 /\ (a \o <<mark>>)[1] = a[1] /\ a[1] \in Numerals
    BY <1>0, <1>1, <1>2
  <2> DEFINE am == a \o <<mark>>
  <2> HIDE DEF am
  <2>2. am \in Seq(Glyphs) /\ Len(am) >= 1 /\ am[1] \in Numerals /\ text = am \o rest
    BY <1>3, <2>1, Zenon DEF am
  <2> QED BY <1>6, <2>2
<1> HIDE DEF rest
<1>7. BeforeThe(text, mark) = a /\ BehindThe(text, mark) = rest
  <2>1. /\ BeforeThe(a \o <<mark>> \o rest, mark) = a /\ BehindThe(a \o <<mark>> \o rest, mark) = rest
    BY <1>0, <1>5, <1>6, Parted, Zenon
  <2> QED BY <1>3, <2>1, Zenon
<1> QED BY <1>3, <1>4, <1>6, <1>7, <1>8, Zenon DEF S

LEMMA Padded2And4 ==
  \A n \in Nat, w \in {2, 4} :
    Padded(n, w) \in Seq(Numerals) /\ Padded(n, w) # <<>> /\ NumberIn(Padded(n, w)) = n
<1>1. ASSUME NEW n \in Nat, NEW w \in {2, 4}
      PROVE  Padded(n, w) \in Seq(Numerals) /\ Padded(n, w) # <<>> /\ NumberIn(Padded(n, w)) = n
  <2>1. w \in Int
    OBVIOUS
  <2>2. Padded(n, w) \in Seq(Numerals) /\ NumberIn(Padded(n, w)) = n /\ Len(Padded(n, w)) >= 1
    BY <2>1, PaddedBack, Zenon
  <2> QED BY <2>2
<1> QED BY <1>1

(* A clock of two digits each, or of more hours. *)
LEMMA ClockBack ==
  ASSUME NEW s \in Nat
  PROVE  /\ SecondsIn(Clock(s)) = s /\ Clock(s) \in Seq(Numerals \cup {":"})
         /\ Clock(s) # <<>> /\ Head(Clock(s)) \in Numerals /\ Clock(s) \in Seq(Glyphs)
<1> DEFINE h == s \div 3600
           m == (s % 3600) \div 60
           r == s % 60
           a == Padded(h, 2)
           b == Padded(m, 2)
           c == Padded(r, 2)
           t == Clock(s)
<1>1. h \in Nat /\ m \in Nat /\ r \in Nat
  BY SMT
<1>2. h * 3600 + m * 60 + r = s
  <2> DEFINE k == s % 3600
             j == k % 60
  <2>1. s = 3600 * h + k /\ k \in Nat /\ m = k \div 60
    BY SMT
  <2>2. k = 60 * m + j /\ j \in 0 .. 59
    <3> HIDE DEF k
    <3> QED BY <2>1, SMT
  <2> HIDE DEF k, j, m, h
  <2>3. s = 60 * (60 * h + m) + j
    BY <1>1, <2>1, <2>2, SMT
  <2>4. r = j
    BY <1>1, <2>2, <2>3, SMT
  <2> QED BY <1>1, <2>2, <2>3, <2>4, SMT
<1>3. t = Three(":", a, b, c)
  BY SMT DEF Clock, Three
<1> HIDE DEF t, h, m, r
<1>4. /\ a \in Seq(Numerals) /\ NumberIn(a) = h /\ a # <<>>
      /\ b \in Seq(Numerals) /\ NumberIn(b) = m
      /\ c \in Seq(Numerals) /\ NumberIn(c) = r
  <2>1. 2 \in {2, 4}
    OBVIOUS
  <2> QED BY <1>1, <2>1, Padded2And4, Zenon
<1> HIDE DEF a, b, c
<1>5. ":" \in Marks
  BY DEF Marks
<1>6. /\ t \in Seq(Numerals \cup {":"}) /\ t \in Seq(Glyphs)
      /\ BeforeThe(t, ":") = a /\ BeforeThe(BehindThe(t, ":"), ":") = b
      /\ BehindThe(BehindThe(t, ":"), ":") = c
      /\ t # <<>> /\ Head(t) \in Numerals
  <2>1. IsThree(t, ":", a, b, c)
    BY <1>3, <1>4, <1>5, Zenon DEF IsThree
  <2> QED BY <2>1, ThreeParted, Zenon
<1>7. SecondsIn(t) = NumberIn(a) * 3600 + NumberIn(b) * 60 + NumberIn(c)
  BY <1>6, SMT DEF SecondsIn, ClockIn
<1> QED BY <1>1, <1>2, <1>4, <1>6, <1>7, SMT DEF t

LEMMA DateTextBack ==
  ASSUME NEW c, c.y \in Int, c.m \in Nat, c.d \in Nat
  PROVE  /\ DateIn(DateText(c)) = [y |-> c.y, m |-> c.m, d |-> c.d]
         /\ DateText(c) \in Seq(Numerals \cup {"-"})
<1> DEFINE n == Magnitude(c.y)
           y == Padded(n, 4)
           m == Padded(c.m, 2)
           d == Padded(c.d, 2)
           date == Three("-", y, m, d)
           negative == c.y < 0
           sign == Sign(negative)
           text == DateText(c)
<1>1. n \in Nat /\ c.y = (IF negative THEN -n ELSE n)
  BY DEF Magnitude
<1>3. text = sign \o y \o <<"-">> \o m \o <<"-">> \o d
  BY Zenon DEF DateText
<1>4. negative \in BOOLEAN
  OBVIOUS
<1> HIDE DEF n
<1>2. /\ y \in Seq(Numerals) /\ NumberIn(y) = n /\ y # <<>>
      /\ m \in Seq(Numerals) /\ NumberIn(m) = c.m
      /\ d \in Seq(Numerals) /\ NumberIn(d) = c.d
  <2>1. 2 \in {2, 4} /\ 4 \in {2, 4}
    OBVIOUS
  <2> QED BY <1>1, <2>1, Padded2And4, Zenon
<1> HIDE DEF y, m, d, negative, text
<1>5. "-" \in Marks
  BY DEF Marks
<1>6. /\ date \in Seq(Numerals \cup {"-"}) /\ date \in Seq(Glyphs)
      /\ BeforeThe(date, "-") = y /\ BeforeThe(BehindThe(date, "-"), "-") = m
      /\ BehindThe(BehindThe(date, "-"), "-") = d
      /\ date # <<>> /\ Head(date) \in Numerals
  <2> HIDE DEF date
  <2>1. IsThree(date, "-", y, m, d)
    BY <1>2, <1>5, Zenon DEF date, IsThree
  <2> QED BY <2>1, ThreeParted, Zenon
<1>8. text = sign \o date /\ text \in Seq(Numerals \cup {"-"})
  <2> DEFINE S == Numerals \cup {"-"}
  <2>1. Numerals \subseteq S /\ "-" \in S
    OBVIOUS
  <2> HIDE DEF S
  <2>2. /\ y \in Seq(S) /\ m \in Seq(S) /\ d \in Seq(S) /\ <<"-">> \in Seq(S)
        /\ sign \in Seq(S)
    BY <1>2, <2>1 DEF Sign
  <2> DEFINE dash == <<"-">>
  <2> HIDE DEF sign, dash
  <2>3. text = sign \o date /\ text \in Seq(S)
    <3>1. dash \in Seq(S)
      BY <2>2 DEF dash
    <3>2. sign \o y \o dash \o m \o dash \o d = sign \o (y \o dash \o m \o dash \o d)
          /\ sign \o y \o dash \o m \o dash \o d \in Seq(S)
      <4>1. AllIn(S, sign, y, dash, m, dash, d)
        BY <2>2, <3>1, Zenon DEF AllIn
      <4>2. AreOne(S, sign, y, dash, m, dash, d)
        BY <4>1, Together, Zenon
      <4> QED BY <4>2, Zenon DEF AreOne
    <3> QED BY <1>3, <3>2, Zenon DEF Three, dash
  <2> QED BY <2>3, Zenon DEF S
<1>9. Head(date) # "-"
  BY <1>6, DigitWorth, Zenon
<1> HIDE DEF date
<1>10. IsNegative(text) = negative /\ Unsigned(text) = date
  <2>1. IsNegative(sign \o date) = negative /\ Unsigned(sign \o date) = date
    BY <1>4, <1>6, <1>9, Signs, Zenon
  <2> QED BY <1>8, <2>1, Zenon
<1> HIDE DEF sign
<1>11. DateIn(text) = [y |-> IF negative THEN -NumberIn(y) ELSE NumberIn(y),
                       m |-> NumberIn(m), d |-> NumberIn(d)]
  <2>1. DateIn(text) = [y |-> IF IsNegative(text) THEN -NumberIn(y) ELSE NumberIn(y),
                        m |-> NumberIn(m), d |-> NumberIn(d)]
    BY <1>6, <1>10, Zenon DEF DateIn
  <2> QED BY <1>10, <2>1, SMT
<1>12. DateIn(text) = [y |-> IF negative THEN -n ELSE n, m |-> c.m, d |-> c.d]
  BY <1>2, <1>11, Zenon
<1> QED BY <1>1, <1>8, <1>12, Zenon DEF text

(* write_date says the day, of every day. *)
LEMMA SaysDateBack ==
  ASSUME NEW days \in Int
  PROVE  /\ SaysDate(write_date(days), days)
         /\ write_date(days) \in Seq(Numerals \cup {"-"})
<1> DEFINE c == civil_from_days(days)
           e == DateIn(write_date(days))
<1>1. /\ c.y \in Int /\ c.m \in 1 .. 12 /\ c.d \in 1 .. 31
      /\ IsDate(c) /\ DayNumber(c) = days
  BY DateBack, Zenon
<1>2. c.m \in Nat /\ c.d \in Nat
  <2> HIDE DEF c
  <2> QED BY <1>1
<1>3. write_date(days) = DateText(c)
  BY Zenon DEF write_date
<1> HIDE DEF c
<1>4. e = [y |-> c.y, m |-> c.m, d |-> c.d] /\ write_date(days) \in Seq(Numerals \cup {"-"})
  BY <1>1, <1>2, <1>3, DateTextBack, Zenon
<1> HIDE DEF e
<1>5. e.y = c.y /\ e.m = c.m /\ e.d = c.d
  BY <1>4, SMT
<1>6. IsDate(e) = IsDate(c) /\ DayNumber(e) = DayNumber(c)
  BY <1>5, SMT DEF IsDate, DayNumber
<1> QED BY <1>1, <1>4, <1>6, SMT DEF SaysDate, e

(* Ticks behind the text of something. *)
IsTicking(text, a, n, scale) ==
  /\ a \in Seq(Glyphs \ {"."}) /\ n \in Nat /\ scale \in Nat /\ n < Power10[scale]
  /\ text = a \o Fraction(n, scale)

LEMMA Ticking ==
  ASSUME NEW text, NEW a, NEW n, NEW scale, IsTicking(text, a, n, scale)
  PROVE  /\ BeforeThe(text, ".") = a /\ TicksIn(text, scale) = n
         /\ text \in Seq(Glyphs) /\ Fraction(n, scale) \in Seq(Glyphs)
<1> DEFINE shown == scale > 0
           f == IF shown THEN Padded(n, scale) ELSE <<>>
<1>1. /\ a \in Seq(Glyphs \ {"."}) /\ n \in Nat /\ scale \in Nat /\ n < Power10[scale]
      /\ text = a \o Fraction(n, scale)
  BY Zenon DEF IsTicking
<1>2. f \in Seq(Numerals) /\ NumberIn(f \o Zeros(scale - Len(f))) = n
  <2>1. CASE scale > 0
    <3> DEFINE p == Padded(n, scale)
    <3>1. scale \in Int /\ scale >= 1
      BY <1>1, <2>1
    <3>2. p \in Seq(Numerals) /\ NumberIn(p) = n /\ Len(p) = scale
      BY <1>1, <3>1, PaddedBack, Zenon
    <3> HIDE DEF p
    <3>3. scale - Len(p) = 0
      BY <3>1, <3>2
    <3>4. Zeros(0) = <<>>
      BY Nothing
    <3>5. p \o <<>> = p
      BY <3>2
    <3>6. f = p
      BY <2>1, Zenon DEF p
    <3> HIDE DEF f
    <3> QED BY <2>1, <3>2, <3>3, <3>4, <3>5, <3>6, Zenon
  <2>2. CASE ~ (scale > 0)
    <3>1. scale = 0
      BY <1>1, <2>2
    <3>2. n = 0
      <4>1. Power10[scale] = 1
        BY <3>1, PowerDef, Zenon
      <4> QED BY <1>1, <4>1
    <3>3. Zeros(0) = <<>> /\ NumberIn(Zeros(0)) = 0
      BY Nothing
    <3>4. <<>> \in Seq(Numerals) /\ <<>> \o <<>> = <<>> /\ Len(<<>>) = 0 /\ 0 - 0 = 0
      OBVIOUS
    <3>5. NumberIn(<<>> \o Zeros(scale - Len(<<>>))) = n
      BY <3>1, <3>2, <3>3, <3>4, Zenon
    <3>6. f = <<>>
      BY <2>2, Zenon
    <3> HIDE DEF f
    <3> QED BY <3>4, <3>5, <3>6, Zenon
  <2> QED BY <2>1, <2>2, Zenon
<1>5. shown \in BOOLEAN /\ (~ shown => f = <<>>)
  OBVIOUS
<1>3. Fraction(n, scale) = Point(f, shown)
  BY Zenon DEF Fraction, Point
<1> HIDE DEF f, shown
<1>4. /\ BeforeThe(a \o Point(f, shown), ".") = a
      /\ a \o Point(f, shown) \in Seq(Glyphs) /\ Point(f, shown) \in Seq(Glyphs)
      /\ TicksIn(a \o Point(f, shown), scale) = NumberIn(f \o Zeros(scale - Len(f)))
  BY <1>1, <1>2, <1>5, PointParted, Zenon
<1> QED BY <1>1, <1>2, <1>3, <1>4, Zenon

(* Texts of digits and one mark have no other. *)
LEMMA OnlyMark ==
  ASSUME NEW mark \in Marks, NEW other \in Marks, mark # other
  PROVE  Seq(Numerals \cup {mark}) \subseteq Seq(Glyphs \ {other})
<1>1. Numerals \cup {mark} \subseteq Glyphs \ {other}
  BY DigitWorth, Zenon DEF Glyphs
<1> QED BY <1>1

InDays(s, days, rest) ==
  days \in Int /\ rest \in Nat /\ rest < SecondsPerDay /\ days * SecondsPerDay + rest = s

LEMMA DaysSplit ==
  ASSUME NEW s \in Int
  PROVE  /\ InDays(s, s \div SecondsPerDay, s % SecondsPerDay)
         /\ s \div SecondsPerDay \in Int /\ s % SecondsPerDay \in Nat
<1> DEFINE D == SecondsPerDay
<1>1. D \in Nat /\ D > 0
  BY SMT DEF SecondsPerDay
<1> DEFINE q == s \div D
           m == s % D
<1> HIDE DEF D
<1>2. q \in Int /\ m \in Nat /\ m < D /\ q * D + m = s
  BY <1>1, SMT
<1> HIDE DEF q, m
<1>3. InDays(s, q, m)
  BY <1>2, Zenon DEF D, InDays
<1> QED BY <1>2, <1>3, Zenon DEF q, m, D

(* What a text has to say of an instant. *)
Saying(text, scale, days, rest, n) ==
  /\ IsDate(DateIn(BeforeThe(text, " "))) /\ DayNumber(DateIn(BeforeThe(text, " "))) = days
  /\ SecondsIn(BeforeThe(BehindThe(text, " "), ".")) = rest
  /\ TicksIn(BehindThe(text, " "), scale) = n

LEMMA SayingIt ==
  ASSUME NEW text, NEW scale, NEW s, NEW days, NEW rest, NEW n, InDays(s, days, rest),
         Saying(text, scale, days, rest, n)
  PROVE  SaysInstant(text, scale, s * Power10[scale] + n)
<1> DEFINE date == BeforeThe(text, " ")
           clock == BehindThe(text, " ")
           before == DayNumber(DateIn(date))
           since == SecondsIn(BeforeThe(clock, "."))
<1>1. /\ IsDate(DateIn(date)) /\ before = days /\ since = rest /\ TicksIn(clock, scale) = n
  BY Zenon DEF Saying
<1>2. rest < SecondsPerDay /\ days * SecondsPerDay + rest = s
  BY Zenon DEF InDays
<1>3. before * SecondsPerDay + since = s /\ since < SecondsPerDay
  BY <1>1, <1>2, Zenon
<1>4. (before * SecondsPerDay + since) * Power10[scale] + TicksIn(clock, scale) = s * Power10[scale] + n
  BY <1>1, <1>3, Zenon
<1> QED BY <1>1, <1>3, <1>4, Zenon DEF SaysInstant

(* A date, a clock and a fraction, behind one another. *)
LEMMA InstantBack ==
  ASSUME NEW s \in Int, NEW n \in Nat, NEW scale \in Nat, n < Power10[scale]
  PROVE  SaysInstant(write_datetime(s, n, scale), scale, s * Power10[scale] + n)
<1> DEFINE days == s \div SecondsPerDay
           rest == s % SecondsPerDay
           date == write_date(days)
           clock == Clock(rest)
           t == clock \o Fraction(n, scale)
           text == write_datetime(s, n, scale)
<1>1. InDays(s, days, rest) /\ days \in Int /\ rest \in Nat
  BY DaysSplit, Zenon
<1>2. text = date \o <<" ">> \o clock \o Fraction(n, scale)
  BY Zenon DEF write_datetime, InstantText
<1> HIDE DEF days, rest, text
<1>3. /\ SaysDate(date, days) /\ date \in Seq(Numerals \cup {"-"})
  BY <1>1, SaysDateBack, Zenon
<1>4. /\ SecondsIn(clock) = rest /\ clock \in Seq(Numerals \cup {":"}) /\ clock \in Seq(Glyphs)
  <2>1. rest \in Nat
    BY <1>1, Zenon
  <2> QED BY <2>1, ClockBack, Zenon
<1> HIDE DEF date, clock
<1>5. "-" \in Marks /\ ":" \in Marks /\ "." \in Marks /\ " " \in Marks /\ "-" # " " /\ ":" # "."
  BY DEF Marks
<1>6. date \in Seq(Glyphs \ {" "}) /\ clock \in Seq(Glyphs \ {"."})
  <2>1. Seq(Numerals \cup {"-"}) \subseteq Seq(Glyphs \ {" "})
    BY <1>5, OnlyMark, Zenon
  <2>2. Seq(Numerals \cup {":"}) \subseteq Seq(Glyphs \ {"."})
    BY <1>5, OnlyMark, Zenon
  <2> QED BY <1>3, <1>4, <2>1, <2>2, Zenon
<1>7. /\ BeforeThe(t, ".") = clock /\ TicksIn(t, scale) = n
      /\ t \in Seq(Glyphs) /\ Fraction(n, scale) \in Seq(Glyphs)
  <2>1. IsTicking(t, clock, n, scale)
    BY <1>6, Zenon DEF IsTicking
  <2> HIDE DEF t
  <2> QED BY <2>1, Ticking, Zenon
<1>8. text = date \o <<" ">> \o t
  <2> DEFINE front == date \o <<" ">>
  <2>1. front \in Seq(Glyphs)
    <3>1. <<>> \in Seq(Glyphs)
      OBVIOUS
    <3>2. date \o <<" ">> \o <<>> \in Seq(Glyphs)
      BY <1>5, <1>6, <3>1, Parted, Zenon
    <3>3. date \o <<" ">> \o <<>> = date \o <<" ">>
      <4>1. date \in Seq(Glyphs) /\ " " \in Glyphs
        BY <1>5, <1>6, Wider, Zenon
      <4>2. AreSeqs(Glyphs, date, <<" ">>, <<>>)
        <5> DEFINE mark == " "
        <5>1. mark \in Glyphs
          BY <4>1, Zenon
        <5> HIDE DEF mark
        <5>2. <<mark>> \in Seq(Glyphs)
          BY <5>1
        <5> QED BY <3>1, <4>1, <5>2, Zenon DEF AreSeqs, mark
      <4> DEFINE sp == <<" ">>
      <4>3. sp \o <<>> = sp
        OBVIOUS
      <4> HIDE DEF sp
      <4>4. IsJoined(Glyphs, date, sp, <<>>)
        BY <4>2, JoinedTwice, Zenon DEF sp
      <4>5. date \o sp \o <<>> = date \o sp
        BY <4>3, <4>4, Zenon DEF IsJoined
      <4> QED BY <4>5, Zenon DEF sp
    <3> QED BY <3>2, <3>3, Zenon
  <2> HIDE DEF front
  <2>2. IsJoined(Glyphs, front, clock, Fraction(n, scale))
    BY <1>4, <1>7, <2>1, JoinedTwice, Zenon DEF AreSeqs
  <2>3. front \o clock \o Fraction(n, scale) = front \o t
    BY <2>2, Zenon DEF IsJoined
  <2> QED BY <1>2, <2>3, Zenon DEF front
<1> HIDE DEF t
<1>9. BeforeThe(text, " ") = date /\ BehindThe(text, " ") = t
  <2>1. BeforeThe(date \o <<" ">> \o t, " ") = date /\ BehindThe(date \o <<" ">> \o t, " ") = t
    BY <1>5, <1>6, <1>7, Parted, Zenon
  <2> QED BY <1>8, <2>1, Zenon
<1>10. Saying(text, scale, days, rest, n)
  BY <1>3, <1>4, <1>7, <1>9, Zenon DEF SaysDate, Saying
<1>11. SaysInstant(text, scale, s * Power10[scale] + n)
  BY <1>1, <1>10, SayingIt, Zenon
<1> QED BY <1>11, Zenon DEF text

(* write_datetime64 says the instant, on either side of 1970, at every scale. *)
LEMMA DateTime64Back ==
  ASSUME NEW v \in Int, NEW scale \in Nat
  PROVE  SaysInstant(write_datetime64(v, scale), scale, v)
<1> DEFINE P == Power10[scale]
           s == v \div P
           n == v % P
<1>1. P \in Nat /\ P > 0
  <2>1. P \in Nat /\ P > scale
    BY PowerType, Zenon
  <2> HIDE DEF P
  <2> QED BY <2>1
<1>2. write_datetime64(v, scale) = write_datetime(s, n, scale)
  BY Zenon DEF write_datetime64
<1>3. s \in Int /\ n \in Nat /\ n < P /\ s * P + n = v
  <2> HIDE DEF P
  <2> QED BY <1>1, SMT
<1> HIDE DEF s, n
<1>4. SaysInstant(write_datetime(s, n, scale), scale, s * Power10[scale] + n)
  <2>1. n < Power10[scale]
    BY <1>3, Zenon DEF P
  <2> QED BY <1>3, <2>1, InstantBack, Zenon
<1> QED BY <1>2, <1>3, <1>4, Zenon DEF P

(* write_datetime says the second. *)
LEMMA DateTimeBack ==
  ASSUME NEW v \in Int
  PROVE  SaysInstant(write_datetime(v, 0, 0), 0, v)
<1>1. Power10[0] = 1 /\ 0 \in Nat /\ 0 < Power10[0]
  <2>1. Power10[0] = 1
    BY PowerDef, Zenon
  <2> QED BY <2>1
<1>2. SaysInstant(write_datetime(v, 0, 0), 0, v * Power10[0] + 0)
  BY <1>1, InstantBack, Zenon
<1>3. v * Power10[0] + 0 = v
  <2>1. v * 1 + 0 = v
    OBVIOUS
  <2> QED BY <1>1, <2>1, Zenon
<1> QED BY <1>2, <1>3, Zenon

(* A sign, a clock, and ticks. *)
IsClock(text, negative, c, n, scale) ==
  /\ negative \in BOOLEAN /\ c \in Nat /\ n \in Nat /\ scale \in Nat /\ n < Power10[scale]
  /\ text = Sign(negative) \o Clock(c) \o Fraction(n, scale)

LEMMA ClockSays ==
  ASSUME NEW text, NEW negative, NEW c, NEW n, NEW scale, IsClock(text, negative, c, n, scale)
  PROVE  /\ IsNegative(text) = negative
         /\ SecondsIn(BeforeThe(Unsigned(text), ".")) = c /\ TicksIn(Unsigned(text), scale) = n
<1> DEFINE clock == Clock(c)
           frac == Fraction(n, scale)
           body == clock \o frac
           sign == Sign(negative)
<1>1. /\ negative \in BOOLEAN /\ c \in Nat /\ n \in Nat /\ scale \in Nat /\ n < Power10[scale]
      /\ text = sign \o clock \o frac
  BY Zenon DEF IsClock
<1>2. /\ SecondsIn(clock) = c /\ clock \in Seq(Numerals \cup {":"}) /\ clock \in Seq(Glyphs)
      /\ clock # <<>> /\ Head(clock) \in Numerals
  BY <1>1, ClockBack, Zenon
<1> HIDE DEF clock
<1>3. clock \in Seq(Glyphs \ {"."})
  <2>1. "." \in Marks /\ ":" \in Marks /\ ":" # "."
    BY DEF Marks
  <2>2. Seq(Numerals \cup {":"}) \subseteq Seq(Glyphs \ {"."})
    BY <2>1, OnlyMark, Zenon
  <2> QED BY <1>2, <2>2, Zenon
<1>4. BeforeThe(body, ".") = clock /\ TicksIn(body, scale) = n /\ body \in Seq(Glyphs) /\ frac \in Seq(Glyphs)
  <2>1. IsTicking(body, clock, n, scale)
    BY <1>1, <1>3, Zenon DEF IsTicking
  <2> HIDE DEF body
  <2> QED BY <2>1, Ticking, Zenon
<1> HIDE DEF frac
<1>5. body # <<>> /\ Head(body) = Head(clock)
  BY <1>2, <1>4
<1>6. Head(body) # "-"
  BY <1>2, <1>5, DigitWorth, Zenon
<1> HIDE DEF body
<1>7. IsNegative(sign \o body) = negative /\ Unsigned(sign \o body) = body
  BY <1>1, <1>4, <1>5, <1>6, Signs, Zenon
<1>8. text = sign \o body
  <2>1. sign \in Seq(Glyphs)
    <3>1. "-" \in Glyphs
      BY Zenon DEF Glyphs, Marks
    <3>2. <<"-">> \in Seq(Glyphs) /\ <<>> \in Seq(Glyphs)
      BY <3>1
    <3> QED BY <3>2, Zenon DEF Sign
  <2> HIDE DEF sign
  <2>2. IsJoined(Glyphs, sign, clock, frac)
    BY <1>2, <1>4, <2>1, JoinedTwice, Zenon DEF AreSeqs
  <2> QED BY <1>1, <2>2, Zenon DEF IsJoined, body
<1> HIDE DEF sign
<1> QED BY <1>2, <1>4, <1>7, <1>8, Zenon

(* write_time64 says the duration, or the cap of the clock. *)
LEMMA TimeBack ==
  ASSUME NEW v \in Int, NEW scale \in Nat
  PROVE  SaysTime(write_time64(v, scale), scale, v)
<1> DEFINE P == Power10[scale]
           a == Magnitude(v)
           s == a \div P
           r == a % P
           negative == v < 0
           capped == s > TimeCap
           c == IF capped THEN TimeCap ELSE s
           n == IF capped THEN 0 ELSE r
           text == write_time64(v, scale)
<1>1. P \in Nat /\ P > 0
  <2>1. P \in Nat /\ P > scale
    BY PowerType, Zenon
  <2> HIDE DEF P
  <2> QED BY <2>1
<1>2. a \in Nat /\ negative \in BOOLEAN
  BY DEF Magnitude
<1>3. text = Sign(negative) \o Clock(c) \o Fraction(n, scale)
  BY Zenon DEF write_time64, write_hms
<1> HIDE DEF text, a, negative, P
<1>4. s \in Nat /\ r \in Nat /\ r < P /\ a = P * s + r
  BY <1>1, <1>2, SMT
<1> HIDE DEF s, r
<1>5. TimeCap \in Nat
  BY WidthsAssumption
<1>6. /\ c \in Nat /\ n \in Nat /\ n < P
      /\ c * P + n = IF a >= (TimeCap + 1) * P THEN TimeCap * P ELSE a
  <2>1. CASE s > TimeCap
    <3>1. c = TimeCap /\ n = 0
      BY <2>1
    <3>2. s >= TimeCap + 1
      BY <2>1, <1>4, <1>5
    <3>3. P * s >= P * (TimeCap + 1)
      BY <3>2, <1>1, <1>4, <1>5, SMT
    <3>4. a >= (TimeCap + 1) * P
      BY <3>3, <1>1, <1>4, <1>5, SMT
    <3> QED BY <1>1, <1>5, <3>1, <3>4, SMT
  <2>2. CASE ~ (s > TimeCap)
    <3>1. c = s /\ n = r
      BY <2>2
    <3>2. s + 1 <= TimeCap + 1
      BY <2>2, <1>4, <1>5
    <3>3. P * (s + 1) <= P * (TimeCap + 1)
      BY <3>2, <1>1, <1>4, <1>5, SMT
    <3>4. a < (TimeCap + 1) * P
      BY <3>3, <1>1, <1>4, <1>5, SMT
    <3>5. c * P + n = a
      BY <1>1, <1>4, <3>1, SMT
    <3> HIDE DEF c, n
    <3> QED BY <1>1, <1>2, <1>4, <1>5, <3>1, <3>4, <3>5, SMT
  <2> QED BY <2>1, <2>2, Zenon
<1> HIDE DEF c, n
<1>7. /\ IsNegative(text) = negative
      /\ SecondsIn(BeforeThe(Unsigned(text), ".")) = c /\ TicksIn(Unsigned(text), scale) = n
  <2>1. n < Power10[scale]
    BY <1>6, Zenon DEF P
  <2>2. IsClock(text, negative, c, n, scale)
    BY <1>2, <1>3, <1>6, <2>1, Zenon DEF IsClock
  <2> QED BY <2>2, ClockSays, Zenon
<1>8. SecondsIn(BeforeThe(Unsigned(text), ".")) * P + TicksIn(Unsigned(text), scale)
        = IF a >= (TimeCap + 1) * P THEN TimeCap * P ELSE a
  BY <1>6, <1>7, Zenon
<1> QED BY <1>7, <1>8, Zenon DEF SaysTime, text, P, a, negative

-----------------------------------------------------------------------------
(* Wide integers: bytes, the lowest first. *)

B == ByteBase
W == WideBytes
Wide == [1 .. W -> 0 .. B - 1]

LEMMA Widths == B \in Nat /\ B > 1 /\ W \in Nat /\ W > 0
<1>1. B \in Nat /\ B > 0 /\ B % 2 = 0 /\ W \in Nat /\ W > 0
  BY WidthsAssumption DEF B, W
<1>2. B # 1
  <2>1. 1 % 2 # 0
    OBVIOUS
  <2> QED BY <1>1, <2>1
<1> QED BY <1>1, <1>2

ByteStep(x, n, before) == ByteBase * before
BytePowers == INSTANCE Recursion WITH base <- OneBase, step <- ByteStep

LEMMA BytePowerDef ==
  /\ BytePower[0] = 1
  /\ \A n \in Nat : BytePower[n + 1] = B * BytePower[n]
<1>1. \E f : f = [n \in Nat |-> IF n = 0 THEN OneBase(0) ELSE ByteStep(0, n, f[n - 1])]
  BY BytePowers!ExistsOnNat
<1>2. BytePower = [n \in Nat |-> IF n = 0 THEN 1 ELSE B * BytePower[n - 1]]
  BY <1>1, Zenon DEF BytePower, OneBase, ByteStep, B
<1> HIDE DEF BytePower
<1>3. ASSUME NEW n \in Nat
      PROVE  BytePower[n + 1] = B * BytePower[n]
  <2>1. n + 1 \in Nat /\ n + 1 # 0 /\ (n + 1) - 1 = n
    OBVIOUS
  <2> QED BY <1>2, <2>1
<1> QED BY <1>2, <1>3

LEMMA BytePowerType ==
  \A n \in Nat : BytePower[n] \in Nat /\ BytePower[n] > 0
<1> DEFINE S == {n \in Nat : BytePower[n] \in Nat /\ BytePower[n] > 0}
<1>1. 0 \in S
  BY BytePowerDef
<1>2. ASSUME NEW n \in Nat, n \in S PROVE n + 1 \in S
  <2> DEFINE p == BytePower[n]
  <2>1. BytePower[n + 1] = B * p /\ p \in Nat /\ p > 0
    BY <1>2, BytePowerDef
  <2> HIDE DEF p
  <2>2. B * p \in Nat /\ B * p > 0
    BY <2>1, Widths, SMT
  <2> QED BY <2>1, <2>2
<1>3. Nat \subseteq S
  <2> HIDE DEF S
  <2> QED BY <1>1, <1>2, Powers!FromBelow
<1> QED BY <1>3

(* What the lowest bytes are worth. *)
LowStep(x, n, before) == before + x[n] * BytePower[n - 1]
Lows == INSTANCE Recursion WITH base <- ZeroBase, step <- LowStep

Low(le) == CHOOSE f : f = [i \in 0 .. W |-> IF i = 0 THEN ZeroBase(le) ELSE LowStep(le, i, f[i - 1])]

LEMMA LowIs ==
  ASSUME NEW le
  PROVE  /\ UnsignedOf(le) = Low(le)[W] /\ Low(le)[0] = 0
         /\ \A i \in Nat : i < W => Low(le)[i + 1] = Low(le)[i] + le[i + 1] * BytePower[i]
<1> DEFINE f == Low(le)
<1>1. UnsignedOf(le) = f[W]
  BY Zenon DEF UnsignedOf, Low, W, ZeroBase, LowStep
<1>2. Lows!IsUpTo(f, le, W)
  BY Lows!Exists, Widths, Zenon DEF Lows!IsUpTo, Low
<1> HIDE DEF f
<1>3. f[0] = ZeroBase(le) /\ \A i \in 1 .. W : f[i] = LowStep(le, i, f[i - 1])
  BY <1>2, Lows!Unfolds, Widths
<1>4. ASSUME NEW i \in Nat, i < W PROVE f[i + 1] = f[i] + le[i + 1] * BytePower[i]
  <2>1. i + 1 \in 1 .. W /\ (i + 1) - 1 = i
    BY <1>4, Widths
  <2> QED BY <1>3, <2>1, Zenon DEF LowStep
<1> QED BY <1>1, <1>3, <1>4, Zenon DEF f, ZeroBase

LEMMA LowType ==
  ASSUME NEW le \in Wide
  PROVE  \A i \in Nat : i <= W => Low(le)[i] \in Nat /\ Low(le)[i] < BytePower[i]
<1> DEFINE f == Low(le)
           S == {i \in Nat : i <= W => f[i] \in Nat /\ f[i] < BytePower[i]}
<1>1. f[0] = 0 /\ \A i \in Nat : i < W => f[i + 1] = f[i] + le[i + 1] * BytePower[i]
  BY LowIs, Zenon
<1> HIDE DEF f
<1>2. 0 \in S
  BY <1>1, BytePowerDef
<1>3. ASSUME NEW i \in Nat, i \in S PROVE i + 1 \in S
  <2> SUFFICES ASSUME i + 1 <= W PROVE f[i + 1] \in Nat /\ f[i + 1] < BytePower[i + 1]
    OBVIOUS
  <2> DEFINE p == BytePower[i]
             v == le[i + 1]
             a == f[i]
  <2>1. p \in Nat /\ BytePower[i + 1] = B * p
    BY BytePowerType, BytePowerDef
  <2>2. a \in Nat /\ a < p /\ f[i + 1] = a + v * p
    BY <1>1, <1>3, Widths
  <2>3. v \in 0 .. B - 1
    BY Widths DEF Wide
  <2> HIDE DEF p, v, a
  <2>4. v + 1 <= B /\ v \in Nat
    BY <2>3, Widths
  <2>5. (v + 1) * p <= B * p
    BY <2>1, <2>4, Widths, SMT
  <2>6. (v + 1) * p = v * p + p /\ v * p \in Nat
    BY <2>1, <2>4, SMT
  <2> QED BY <2>1, <2>2, <2>5, <2>6, Widths, SMT
<1>4. Nat \subseteq S
  <2> HIDE DEF S
  <2> QED BY <1>2, <1>3, Powers!FromBelow
<1> QED BY <1>4 DEF f

LEMMA UnsignedType ==
  ASSUME NEW le \in Wide
  PROVE  UnsignedOf(le) \in Nat /\ UnsignedOf(le) < BytePower[W]
<1>1. W \in Nat /\ W <= W
  BY Widths
<1>2. Low(le)[W] \in Nat /\ Low(le)[W] < BytePower[W]
  BY <1>1, LowType, Zenon
<1> QED BY <1>2, LowIs, Zenon

(* A number is zero when all of its bytes are. *)
LEMMA AllZero ==
  ASSUME NEW le \in Wide
  PROVE  UnsignedOf(le) = 0 <=> \A i \in 1 .. W : le[i] = 0
<1> DEFINE f == Low(le)
<1>1. /\ f[0] = 0 /\ \A i \in Nat : i < W => f[i + 1] = f[i] + le[i + 1] * BytePower[i]
      /\ UnsignedOf(le) = f[W]
  BY LowIs, Zenon
<1>2. \A i \in Nat : i <= W => f[i] \in Nat
  BY LowType, Zenon
<1> HIDE DEF f
<1>3. \A i \in Nat : BytePower[i] \in Nat /\ BytePower[i] > 0
  BY BytePowerType
<1>4. ASSUME NEW i \in Nat, i < W, f[i + 1] = 0 PROVE f[i] = 0 /\ le[i + 1] = 0
  <2> DEFINE p == BytePower[i]
             v == le[i + 1]
             a == f[i]
  <2>1. p \in Nat /\ p > 0 /\ a \in Nat /\ a + v * p = 0
    BY <1>1, <1>2, <1>3, <1>4, Widths
  <2>2. v \in Nat
    BY <1>4, Widths DEF Wide
  <2> HIDE DEF p, v, a
  <2>3. a = 0 /\ v = 0
    BY <2>1, <2>2, SMT
  <2> QED BY <2>3 DEF a, v
<1>5. ASSUME f[W] = 0 PROVE \A i \in 1 .. W : le[i] = 0
  <2> DEFINE S == {j \in Nat : j <= W => f[W - j] = 0}
  <2>1. 0 \in S
    BY <1>5, Widths
  <2>2. ASSUME NEW j \in Nat, j \in S PROVE j + 1 \in S
    <3> SUFFICES ASSUME j + 1 <= W PROVE f[W - (j + 1)] = 0
      OBVIOUS
    <3>1. W - (j + 1) \in Nat /\ W - (j + 1) < W /\ (W - (j + 1)) + 1 = W - j /\ j <= W
      BY Widths
    <3>2. f[W - j] = 0
      BY <2>2, <3>1
    <3> QED BY <1>4, <3>1, <3>2, Zenon
  <2>3. Nat \subseteq S
    <3> HIDE DEF S
    <3> QED BY <2>1, <2>2, Powers!FromBelow
  <2>4. ASSUME NEW i \in 1 .. W PROVE le[i] = 0
    <3>1. i - 1 \in Nat /\ i - 1 < W /\ (i - 1) + 1 = i /\ W - i \in Nat /\ W - i <= W /\ W - (W - i) = i
      BY Widths
    <3>2. f[(i - 1) + 1] = 0
      BY <2>3, <3>1
    <3>3. le[(i - 1) + 1] = 0
      BY <1>4, <3>1, <3>2, Zenon
    <3> QED BY <3>1, <3>3, Zenon
  <2> QED BY <2>4
<1>6. ASSUME \A i \in 1 .. W : le[i] = 0 PROVE f[W] = 0
  <2> DEFINE S == {j \in Nat : j <= W => f[j] = 0}
  <2>1. 0 \in S
    BY <1>1
  <2>2. ASSUME NEW j \in Nat, j \in S PROVE j + 1 \in S
    <3> SUFFICES ASSUME j + 1 <= W PROVE f[j + 1] = 0
      OBVIOUS
    <3>1. j < W /\ f[j] = 0 /\ j + 1 \in 1 .. W
      BY <2>2, Widths
    <3>2. f[j + 1] = 0 + 0 * BytePower[j]
      BY <1>1, <1>6, <3>1, Zenon
    <3> QED BY <1>3, <3>2
  <2>3. Nat \subseteq S
    <3> HIDE DEF S
    <3> QED BY <2>1, <2>2, Powers!FromBelow
  <2> QED BY <2>3, Widths
<1> QED BY <1>1, <1>5, <1>6, Zenon

(* What remains behind a byte, and a tenth. *)
RemStep(x, n, before) == (before * ByteBase + x[WideBytes + 1 - n]) % 10
Rests == INSTANCE Recursion WITH base <- ZeroBase, step <- RemStep

Rem(le) == CHOOSE f : f = [i \in 0 .. W |-> IF i = 0 THEN ZeroBase(le) ELSE RemStep(le, i, f[i - 1])]

LEMMA RemaindersIs ==
  ASSUME NEW le
  PROVE  /\ Remainders(le) = Rem(le) /\ Remainders(le)[0] = 0
         /\ \A i \in 1 .. W : Remainders(le)[i] = (Remainders(le)[i - 1] * B + le[W + 1 - i]) % 10
<1> DEFINE f == Rem(le)
<1>1. Remainders(le) = f
  BY Zenon DEF Remainders, Rem, W, ZeroBase, RemStep
<1>2. Rests!IsUpTo(f, le, W)
  BY Rests!Exists, Widths, Zenon DEF Rests!IsUpTo, Rem
<1> HIDE DEF f
<1>3. f[0] = ZeroBase(le) /\ \A i \in 1 .. W : f[i] = RemStep(le, i, f[i - 1])
  BY <1>2, Rests!Unfolds, Widths
<1> QED BY <1>1, <1>3, Zenon DEF f, ZeroBase, RemStep, B, W

(* From one byte to the next lower one. *)
Divides(le, i, above, here) ==
  /\ above \in 0 .. 9 /\ here \in 0 .. 9 /\ Tenth(le)[i] \in 0 .. B - 1
  /\ above * B + le[i] = 10 * Tenth(le)[i] + here

(* What remains of a byte and those above it is below ten, its quotient a byte. *)
LEMMA OneByte ==
  ASSUME NEW le \in Wide
  PROVE  /\ Tenth(le) \in Wide
         /\ \A i \in 1 .. W : Divides(le, i, Remainders(le)[W - i], Remainders(le)[W + 1 - i])
<1> DEFINE r == Remainders(le)
           t == Tenth(le)
<1>1. r[0] = 0 /\ \A i \in 1 .. W : r[i] = (r[i - 1] * B + le[W + 1 - i]) % 10
  BY RemaindersIs, Zenon
<1>2. t = [i \in 1 .. W |-> (r[W - i] * B + le[i]) \div 10]
  BY Zenon DEF Tenth, W, B
<1> HIDE DEF r
<1> DEFINE S == {i \in Nat : i <= W => r[i] \in 0 .. 9}
<1>3. 0 \in S
  BY <1>1
<1>4. ASSUME NEW i \in Nat, i \in S PROVE i + 1 \in S
  <2> SUFFICES ASSUME i + 1 <= W PROVE r[i + 1] \in 0 .. 9
    OBVIOUS
  <2> DEFINE n == r[i] * B + le[W - i]
  <2>1. i + 1 \in 1 .. W /\ (i + 1) - 1 = i /\ W + 1 - (i + 1) = W - i /\ W - i \in 1 .. W
    BY Widths
  <2>2. r[i + 1] = n % 10
    BY <1>1, <2>1
  <2>3. n \in Nat
    <3>1. r[i] \in Nat /\ le[W - i] \in Nat
      BY <1>4, <2>1, Widths DEF Wide
    <3>2. \A x, y \in Nat : x * B + y \in Nat
      BY Widths
    <3> QED BY <3>1, <3>2
  <2> HIDE DEF n
  <2> QED BY <2>2, <2>3
<1>5. Nat \subseteq S
  <2> HIDE DEF S
  <2> QED BY <1>3, <1>4, Powers!FromBelow
<1>6. ASSUME NEW i \in 1 .. W PROVE Divides(le, i, r[W - i], r[W + 1 - i])
  <2> DEFINE a == r[W - i]
             v == le[i]
             n == a * B + v
             j == W + 1 - i
  <2>1. W - i \in Nat /\ W - i <= W /\ j \in 1 .. W /\ j - 1 = W - i /\ W + 1 - j = i
    BY Widths
  <2>2. a \in 0 .. 9 /\ v \in 0 .. B - 1
    BY <1>5, <2>1 DEF Wide
  <2>3. t[i] = n \div 10
    BY <1>2
  <2>4. r[j] = n % 10
    BY <1>1, <2>1
  <2> HIDE DEF a, v, t
  <2>5. n \in Nat /\ n < 10 * B
    <3>1. a * B <= 9 * B /\ a * B \in Nat
      BY <2>2, Widths, SMT
    <3> DEFINE k == a * B
    <3> HIDE DEF k
    <3>2. k + v \in Nat /\ k + v < 10 * B
      BY <2>2, <3>1, Widths, SMT DEF k
    <3> QED BY <3>2, Zenon DEF k
  <2> DEFINE q == n \div 10
             m == n % 10
  <2> HIDE DEF n
  <2>6. q \in 0 .. B - 1 /\ m \in 0 .. 9 /\ n = 10 * q + m
    BY <2>5, Widths, SMT
  <2> HIDE DEF j, q, m
  <2>7. Divides(le, i, a, r[j])
    BY <2>2, <2>3, <2>4, <2>6, Zenon DEF Divides, n, t, v, q, m
  <2> QED BY <2>7, Zenon DEF a, j
<1>7. t \in Wide
  <2>1. \A i \in 1 .. W : t[i] \in 0 .. B - 1
    BY <1>6, Zenon DEF Divides
  <2>2. t = [i \in 1 .. W |-> t[i]]
    BY <1>2
  <2> HIDE DEF t
  <2> QED BY <2>1, <2>2 DEF Wide
<1> QED BY <1>6, <1>7, Zenon DEF r, t

(* The number, a tenth of it, and its last digit. *)
LastDigit(le) == Remainders(le)[WideBytes]

(* A round of the long division: a tenth of the value, and its last digit. *)
LEMMA TenthIs ==
  ASSUME NEW le \in Wide
  PROVE  /\ Tenth(le) \in Wide /\ LastDigit(le) \in 0 .. 9
         /\ UnsignedOf(le) = 10 * UnsignedOf(Tenth(le)) + LastDigit(le)
<1> DEFINE r == Remainders(le)
           t == Tenth(le)
           d == LastDigit(le)
           f == Low(le)
           g == Low(t)
<1>0. d = r[W] /\ r[0] = 0
  BY RemaindersIs, Zenon DEF LastDigit, W
<1>1. t \in Wide /\ \A i \in 1 .. W : Divides(le, i, r[W - i], r[W + 1 - i])
  BY OneByte, Zenon
<1>2. /\ UnsignedOf(le) = f[W] /\ f[0] = 0
      /\ \A i \in Nat : i < W => f[i + 1] = f[i] + le[i + 1] * BytePower[i]
  BY LowIs, Zenon
<1>3. /\ UnsignedOf(t) = g[W] /\ g[0] = 0
      /\ \A i \in Nat : i < W => g[i + 1] = g[i] + t[i + 1] * BytePower[i]
  BY LowIs, Zenon
<1>4. (\A i \in Nat : i <= W => f[i] \in Nat) /\ (\A i \in Nat : i <= W => g[i] \in Nat)
  <2> HIDE DEF t
  <2> QED BY <1>1, LowType, Zenon
<1>5. d \in 0 .. 9
  <2>1. 1 \in 1 .. W /\ W + 1 - 1 = W
    BY Widths
  <2>2. Divides(le, 1, r[W - 1], r[W + 1 - 1])
    BY <1>1, <2>1, Zenon
  <2> QED BY <1>0, <2>1, <2>2, Zenon DEF Divides
<1> HIDE DEF r, t, d, f, g
<1> DEFINE S == {j \in Nat : j <= W => r[W - j] * BytePower[j] + f[j] = 10 * g[j] + d}
<1>6. 0 \in S
  <2>1. W - 0 = W /\ BytePower[0] = 1
    BY Widths, BytePowerDef
  <2>2. r[W] * 1 + 0 = 10 * 0 + d
    BY <1>0, <1>5
  <2> QED BY <1>2, <1>3, <2>1, <2>2
<1>7. ASSUME NEW j \in Nat, j \in S PROVE j + 1 \in S
  <2> SUFFICES ASSUME j + 1 <= W PROVE r[W - (j + 1)] * BytePower[j + 1] + f[j + 1] = 10 * g[j + 1] + d
    OBVIOUS
  <2> DEFINE p == BytePower[j]
             v == le[j + 1]
             u == t[j + 1]
             a == r[W - (j + 1)]
             h == r[W - j]
             x == f[j]
             y == g[j]
  <2>1. j + 1 \in 1 .. W /\ j < W /\ j <= W /\ W + 1 - (j + 1) = W - j
    BY Widths
  <2>2. h * p + x = 10 * y + d
    BY <1>7, <2>1
  <2>3. BytePower[j + 1] = B * p /\ p \in Nat
    BY BytePowerDef, BytePowerType
  <2>4. f[j + 1] = x + v * p /\ g[j + 1] = y + u * p /\ x \in Nat /\ y \in Nat
    BY <1>2, <1>3, <1>4, <2>1, Zenon
  <2>5. a \in 0 .. 9 /\ h \in 0 .. 9 /\ u \in 0 .. B - 1 /\ a * B + v = 10 * u + h
    <3>1. Divides(le, j + 1, a, r[W + 1 - (j + 1)])
      BY <1>1, <2>1, Zenon
    <3>2. Divides(le, j + 1, a, h)
      BY <2>1, <3>1, Zenon
    <3> QED BY <3>2, Zenon DEF Divides, t
  <2>6. v \in Nat
    BY <2>1, Widths DEF Wide
  <2> HIDE DEF p, v, u, a, h, x, y
  <2>7. a \in Int /\ h \in Int /\ u \in Int /\ v \in Int /\ p \in Int /\ x \in Int /\ y \in Int /\ d \in Int /\ B \in Int
    BY <1>5, <2>3, <2>4, <2>5, <2>6, Widths, SMT
  <2>8. a * (B * p) + (x + v * p) = 10 * (y + u * p) + d
    <3>1. a * (B * p) + v * p = (a * B + v) * p
      BY <2>7, SMT
    <3>2. (a * B + v) * p = (10 * u + h) * p
      BY <2>5, Zenon
    <3>3. (10 * u + h) * p = 10 * (u * p) + h * p
      BY <2>7, SMT
    <3> DEFINE ap == a * (B * p)
               vp == v * p
               hp == h * p
               up == u * p
    <3>4. ap \in Int /\ vp \in Int /\ hp \in Int /\ up \in Int
      BY <2>7, SMT
    <3>5. ap + vp = 10 * up + hp
      BY <3>1, <3>2, <3>3, Zenon
    <3>6. hp + x = 10 * y + d
      BY <2>2, Zenon
    <3> HIDE DEF ap, vp, hp, up
    <3>7. ap + (x + vp) = 10 * (y + up) + d
      BY <2>7, <3>4, <3>5, <3>6, SMT
    <3> QED BY <3>7, Zenon DEF ap, vp, up
  <2>9. r[W - (j + 1)] * BytePower[j + 1] + f[j + 1] = a * (B * p) + (x + v * p)
    BY <2>3, <2>4, Zenon DEF a
  <2>10. 10 * g[j + 1] + d = 10 * (y + u * p) + d
    BY <2>4, Zenon
  <2> QED BY <2>8, <2>9, <2>10, Zenon
<1>8. Nat \subseteq S
  <2> HIDE DEF S
  <2> QED BY <1>6, <1>7, Powers!FromBelow
<1>9. f[W] = 10 * g[W] + d
  <2>1. W \in Nat /\ W <= W /\ W - W = 0 /\ f[W] \in Nat
    BY <1>4, Widths
  <2>2. r[W - W] * BytePower[W] + f[W] = 10 * g[W] + d
    BY <1>8, <2>1
  <2>3. 0 * BytePower[W] + f[W] = f[W]
    BY <2>1, BytePowerType
  <2> QED BY <1>0, <2>1, <2>2, <2>3, Zenon
<1> QED BY <1>1, <1>2, <1>3, <1>5, <1>9, Zenon DEF t, d

(* What is left after each round. *)
Same(x) == x
LeftStep(x, n, before) == Tenth(before)
Lefts == INSTANCE Recursion WITH base <- Same, step <- LeftStep

Left(le) == CHOOSE f : f = [k \in Nat |-> IF k = 0 THEN Same(le) ELSE LeftStep(le, k, f[k - 1])]

NothingLeft(le, k) == ~ Nonzero(Left(le)[k])

Rounds(le) ==
  CHOOSE k \in 1 .. ByteBase * WideBytes : NothingLeft(le, k) /\ \A j \in 1 .. k - 1 : Nonzero(Left(le)[j])

(* Each round leaves a tenth of what the one before it left. *)
LEMMA LeftIs ==
  ASSUME NEW le \in Wide
  PROVE  /\ Left(le)[0] = le
         /\ \A k \in Nat : Left(le)[k] \in Wide /\ Left(le)[k + 1] = Tenth(Left(le)[k])
<1> DEFINE f == Left(le)
<1>1. f = [k \in Nat |-> IF k = 0 THEN Same(le) ELSE LeftStep(le, k, f[k - 1])]
  BY Lefts!ExistsOnNat, Zenon DEF Left
<1> HIDE DEF f
<1>2. f[0] = le
  BY <1>1 DEF Same
<1>3. ASSUME NEW k \in Nat PROVE f[k + 1] = Tenth(f[k])
  <2>1. k + 1 \in Nat /\ k + 1 # 0 /\ (k + 1) - 1 = k
    OBVIOUS
  <2>2. f[k + 1] = LeftStep(le, k + 1, f[(k + 1) - 1])
    BY <1>1, <2>1
  <2> QED BY <2>1, <2>2, Zenon DEF LeftStep
<1> DEFINE S == {k \in Nat : f[k] \in Wide}
<1>4. 0 \in S
  BY <1>2
<1>5. ASSUME NEW k \in Nat, k \in S PROVE k + 1 \in S
  <2>1. Tenth(f[k]) \in Wide
    BY <1>5, TenthIs, Zenon
  <2> QED BY <1>3, <2>1
<1>6. Nat \subseteq S
  <2> HIDE DEF S
  <2> QED BY <1>4, <1>5, Powers!FromBelow
<1> QED BY <1>2, <1>3, <1>6 DEF f

LEMMA LeftOver ==
  ASSUME NEW le \in Wide
  PROVE  /\ UnsignedOf(Left(le)[0]) = UnsignedOf(le)
         /\ \A k \in Nat : /\ UnsignedOf(Left(le)[k]) \in Nat /\ LastDigit(Left(le)[k]) \in 0 .. 9
                           /\ UnsignedOf(Left(le)[k]) =
                                10 * UnsignedOf(Left(le)[k + 1]) + LastDigit(Left(le)[k])
<1> DEFINE f == Left(le)
<1>1. f[0] = le /\ \A k \in Nat : f[k] \in Wide /\ f[k + 1] = Tenth(f[k])
  BY LeftIs, Zenon
<1> HIDE DEF f
<1>2. ASSUME NEW k \in Nat
      PROVE  /\ UnsignedOf(f[k]) \in Nat /\ LastDigit(f[k]) \in 0 .. 9
             /\ UnsignedOf(f[k]) = 10 * UnsignedOf(f[k + 1]) + LastDigit(f[k])
  <2>1. f[k] \in Wide /\ f[k + 1] = Tenth(f[k])
    BY <1>1, Zenon
  <2>2. LastDigit(f[k]) \in 0 .. 9 /\ UnsignedOf(f[k]) = 10 * UnsignedOf(Tenth(f[k])) + LastDigit(f[k])
    BY <2>1, TenthIs, Zenon
  <2>3. UnsignedOf(f[k]) \in Nat
    BY <2>1, UnsignedType, Zenon
  <2> QED BY <2>1, <2>2, <2>3, Zenon
<1> QED BY <1>1, <1>2, Zenon DEF f

(* A byte is worth less than ByteBase digits. *)
LEMMA BytesInDigits ==
  \A n \in Nat : BytePower[n] <= Power10[B * n]
<1> DEFINE S == {n \in Nat : BytePower[n] <= Power10[B * n]}
<1>1. 0 \in S
  <2>1. B * 0 = 0
    BY Widths
  <2> QED BY <2>1, BytePowerDef, PowerDef
<1>2. ASSUME NEW n \in Nat, n \in S PROVE n + 1 \in S
  <2> DEFINE m == B * n
             p == BytePower[n]
             q == Power10[m]
             t == Power10[B]
  <2>1. m \in Nat /\ B * (n + 1) = m + B /\ B \in Nat
    BY Widths
  <2> HIDE DEF m
  <2>2. Power10[m + B] = q * t /\ BytePower[n + 1] = B * p
    BY <2>1, PowerSum, BytePowerDef
  <2>3. p \in Nat /\ q \in Nat /\ t \in Nat /\ t > B
    BY <2>1, PowerType, BytePowerType
  <2>4. p <= q
    BY <1>2 DEF m
  <2> HIDE DEF p, q, t
  <2>5. B * p <= B * q
    BY <2>1, <2>3, <2>4, SMT
  <2>6. B * q <= q * t
    BY <2>1, <2>3, SMT
  <2>7. B * p \in Int /\ B * q \in Int /\ q * t \in Int
    BY <2>1, <2>3, SMT
  <2>8. B * p <= q * t
    <3> DEFINE x == B * p
               y == B * q
               z == q * t
    <3>1. x \in Int /\ y \in Int /\ z \in Int /\ x <= y /\ y <= z
      BY <2>5, <2>6, <2>7, Zenon
    <3> HIDE DEF x, y, z
    <3>2. x <= z
      BY <3>1
    <3> QED BY <3>2, Zenon DEF x, z
  <2>9. BytePower[n + 1] <= Power10[B * (n + 1)]
    BY <2>1, <2>2, <2>8, Zenon
  <2> QED BY <2>9
<1>3. Nat \subseteq S
  <2> HIDE DEF S
  <2> QED BY <1>1, <1>2, Powers!FromBelow
<1> QED BY <1>3

(* The rounds end, at the first that leaves nothing. *)
LEMMA Rounded ==
  ASSUME NEW le \in Wide
  PROVE  Rounds(le) \in Nat /\ Rounds(le) >= 1 /\ UnsignedOf(Left(le)[Rounds(le)]) = 0
<1> DEFINE u(k) == UnsignedOf(Left(le)[k])
           N == B * W
<1>1. /\ u(0) = UnsignedOf(le)
      /\ \A k \in Nat : /\ u(k) \in Nat /\ LastDigit(Left(le)[k]) \in 0 .. 9
                        /\ u(k) = 10 * u(k + 1) + LastDigit(Left(le)[k])
  BY LeftOver, Zenon
<1>2. u(0) < BytePower[W]
  BY <1>1, UnsignedType, Zenon
<1>3. \A k \in Nat : Left(le)[k] \in Wide
  BY LeftIs, Zenon
<1>4. N \in Nat /\ N >= 1 /\ W \in Nat
  BY Widths, SMT
<1>5. \A k \in Nat : u(k) = 0 <=> \A i \in 1 .. W : Left(le)[k][i] = 0
  BY <1>3, AllZero, Zenon
<1> HIDE DEF u, N
<1> DEFINE S == {k \in Nat : u(k) * Power10[k] <= u(0)}
<1>6. 0 \in S
  BY <1>1, PowerDef
<1>7. ASSUME NEW k \in Nat, k \in S PROVE k + 1 \in S
  <2> DEFINE a == u(k)
             b == u(k + 1)
             p == Power10[k]
  <2>1. k + 1 \in Nat
    OBVIOUS
  <2>2. a \in Nat /\ b \in Nat /\ a >= 10 * b /\ u(0) \in Nat
    <3>1. a \in Nat /\ b \in Nat /\ LastDigit(Left(le)[k]) \in 0 .. 9 /\ a = 10 * b + LastDigit(Left(le)[k])
      BY <1>1, <2>1, Zenon
    <3> HIDE DEF a, b
    <3>2. a >= 10 * b
      BY <3>1
    <3> QED BY <1>1, <3>1, <3>2
  <2>3. p \in Nat /\ Power10[k + 1] = 10 * p
    BY PowerDef, PowerType
  <2>4. a * p <= u(0)
    BY <1>7
  <2> DEFINE c == u(0)
  <2> HIDE DEF a, b, p, c
  <2>5. (10 * b) * p <= a * p
    BY <2>2, <2>3, SMT
  <2>6. b * (10 * p) = (10 * b) * p /\ b * (10 * p) \in Int /\ a * p \in Int /\ c \in Int
    BY <2>2, <2>3, SMT DEF c
  <2>7. b * (10 * p) <= c
    <3> DEFINE x == b * (10 * p)
               y == a * p
    <3>1. x \in Int /\ y \in Int /\ c \in Int /\ x <= y /\ y <= c
      BY <2>4, <2>5, <2>6, Zenon DEF c
    <3> HIDE DEF x, y
    <3>2. x <= c
      BY <3>1
    <3> QED BY <3>2, Zenon DEF x
  <2>8. u(k + 1) * Power10[k + 1] <= u(0)
    BY <2>3, <2>7, Zenon DEF b, c
  <2> QED BY <2>1, <2>8
<1>8. Nat \subseteq S
  <2> HIDE DEF S
  <2> QED BY <1>6, <1>7, Powers!FromBelow
<1>9. u(N) = 0
  <2> DEFINE a == u(N)
             p == Power10[N]
             c == u(0)
  <2>1. a \in Nat /\ c \in Nat /\ p \in Nat
    BY <1>1, <1>4, PowerType
  <2>2. a * p <= c
    BY <1>4, <1>8
  <2>3. c < p
    <3>1. BytePower[W] <= p /\ BytePower[W] \in Nat
      BY <1>4, BytesInDigits, BytePowerType, Zenon DEF N
    <3> HIDE DEF p, c
    <3>2. c < BytePower[W]
      BY <1>2, Zenon DEF c
    <3> QED BY <2>1, <3>1, <3>2
  <2> HIDE DEF a, p, c
  <2>4. ~ (a >= 1)
    <3> SUFFICES ASSUME a >= 1 PROVE FALSE
      OBVIOUS
    <3>1. a * p >= 1 * p
      BY <2>1, SMT
    <3> DEFINE x == a * p
    <3>2. x \in Int
      BY <2>1, SMT
    <3>3. x >= p /\ x <= c
      BY <2>1, <2>2, <3>1, SMT
    <3> HIDE DEF x
    <3> QED BY <2>1, <2>3, <3>2, <3>3
  <2> QED BY <2>1, <2>4 DEF a
<1>10. \A k \in 1 .. N : NothingLeft(le, k) <=> u(k) = 0
  <2>1. \A k : NothingLeft(le, k) <=> \A i \in 1 .. W : Left(le)[k][i] = 0
    BY Zenon DEF NothingLeft, Nonzero, W
  <2>2. \A k \in 1 .. N : k \in Nat
    OBVIOUS
  <2> QED BY <1>5, <2>1, <2>2, Zenon
<1> DEFINE R == {k \in 1 .. N : NothingLeft(le, k)}
<1>11. N \in R /\ R \in SUBSET Nat
  <2>1. N \in 1 .. N
    BY <1>4
  <2>2. NothingLeft(le, N)
    BY <1>9, <1>10, <2>1, Zenon
  <2> QED BY <2>1, <2>2
<1>12. PICK r \in R : \A k \in R : r <= k
  <2> HIDE DEF R
  <2> QED BY <1>11, Powers!LeastNumber, Zenon
<1>13. r \in 1 .. N /\ NothingLeft(le, r) /\ \A j \in 1 .. r - 1 : ~ NothingLeft(le, j)
  <2>1. r \in 1 .. N /\ NothingLeft(le, r)
    BY <1>12, Zenon
  <2>2. ASSUME NEW j \in 1 .. r - 1 PROVE ~ NothingLeft(le, j)
    <3>1. j \in 1 .. N /\ ~ (r <= j)
      BY <1>4, <2>1
    <3> QED BY <1>12, <3>1, Zenon
  <2> QED BY <2>1, <2>2, Zenon
<1>14. Rounds(le) \in 1 .. N /\ NothingLeft(le, Rounds(le))
  BY <1>13, Zenon DEF Rounds, NothingLeft, N, B, W
<1>15. Rounds(le) \in Nat /\ Rounds(le) >= 1 /\ u(Rounds(le)) = 0
  <2>1. u(Rounds(le)) = 0
    BY <1>10, <1>14, Zenon
  <2> QED BY <1>4, <1>14, <2>1
<1> QED BY <1>15, Zenon DEF u

(* The digits of u256_to_decimal are those of the value. *)
LEMMA WideText ==
  ASSUME NEW le \in Wide
  PROVE  /\ u256_to_decimal(le) \in Seq(Numerals) /\ Len(u256_to_decimal(le)) >= 1
         /\ NumberIn(u256_to_decimal(le)) = UnsignedOf(le)
<1> DEFINE u(k) == UnsignedOf(Left(le)[k])
           d(k) == LastDigit(Left(le)[k])
           text == u256_to_decimal(le)
           r == Rounds(le)
<1>1. r \in Nat /\ r >= 1 /\ u(r) = 0
  BY Rounded, Zenon
<1>2. /\ u(0) = UnsignedOf(le)
      /\ \A k \in Nat : /\ u(k) \in Nat /\ d(k) \in 0 .. 9 /\ u(k) = 10 * u(k + 1) + d(k)
  BY LeftOver, Zenon
<1>3. text = [i \in 1 .. r |-> Digit[d(r - i) + 1]]
  BY Zenon DEF u256_to_decimal, Left, Same, LeftStep, Rounds, NothingLeft, LastDigit
<1> HIDE DEF r
<1> DEFINE f == [i \in 0 .. r |-> u(r - i)]
<1> HIDE DEF u, d, text
<1>4. \A i \in 1 .. r : Digit[d(r - i) + 1] \in Numerals /\ Worth(Digit[d(r - i) + 1]) = d(r - i)
  <2>1. \A i \in 1 .. r : r - i \in Nat
    BY <1>1
  <2>2. \A i \in 1 .. r : d(r - i) \in 0 .. 9
    BY <1>2, <2>1, Zenon
  <2> QED BY <2>2, DigitWorth, Zenon
<1>5. text \in Seq(Numerals) /\ Len(text) = r
  <2>1. text \in [1 .. r -> Numerals]
    BY <1>3, <1>4, Zenon
  <2> QED BY <1>1, <2>1, SMT
<1>6. IsValue(f, text)
  <2>1. f[0] = 0
    BY <1>1
  <2>2. ASSUME NEW i \in 1 .. r PROVE f[i] = f[i - 1] * 10 + Worth(text[i])
    <3>1. r - i \in Nat /\ (r - i) + 1 = r - (i - 1) /\ i - 1 \in 0 .. r /\ i \in 0 .. r
      BY <1>1
    <3>2. u(r - i) = 10 * u((r - i) + 1) + d(r - i) /\ u((r - i) + 1) \in Nat /\ d(r - i) \in 0 .. 9
      <4>1. (r - i) + 1 \in Nat
        BY <3>1
      <4> QED BY <1>2, <3>1, <4>1, Zenon
    <3>3. f[i] = u(r - i) /\ f[i - 1] = u(r - (i - 1))
      BY <3>1
    <3>4. Worth(text[i]) = d(r - i)
      BY <1>3, <1>4, Zenon
    <3> DEFINE x == u((r - i) + 1)
               y == d(r - i)
    <3>5. f[i] = 10 * x + y /\ f[i - 1] = x /\ Worth(text[i]) = y
      BY <3>1, <3>2, <3>3, <3>4, Zenon
    <3>6. x \in Nat /\ y \in 0 .. 9
      BY <3>2, Zenon
    <3> HIDE DEF x, y, f
    <3>7. 10 * x + y = x * 10 + y
      BY <3>6
    <3> QED BY <3>5, <3>7, Zenon
  <2> HIDE DEF f
  <2> QED BY <1>5, <2>1, <2>2, Zenon DEF IsValue
<1>7. f[r] = u(0)
  BY <1>1
<1> HIDE DEF f
<1>8. NumberIn(text) = f[Len(text)]
  BY <1>1, <1>5, <1>6, ValueIs, Zenon
<1> QED BY <1>1, <1>2, <1>5, <1>7, <1>8, Zenon DEF text

(* Two's complement: inverted, plus one, with what is carried behind each  *)
(* byte.                                                                   *)
FirstCarry(x) == 1
CarryStep(x, n, before) == (ByteBase - 1 - x[n] + before) \div ByteBase
Carries == INSTANCE Recursion WITH base <- FirstCarry, step <- CarryStep

Carry(le) == CHOOSE f : f = [i \in 0 .. W |-> IF i = 0 THEN FirstCarry(le) ELSE CarryStep(le, i, f[i - 1])]

Negated(le) == [i \in 1 .. WideBytes |-> (ByteBase - 1 - le[i] + Carry(le)[i - 1]) % ByteBase]

LEMMA SignMagnitudeIs ==
  ASSUME NEW le
  PROVE  i256_sign_magnitude(le) =
           [neg |-> le[WideBytes] >= ByteBase \div 2,
            mag |-> IF le[WideBytes] >= ByteBase \div 2 THEN Negated(le) ELSE le]
BY Zenon DEF i256_sign_magnitude, Negated, Carry, FirstCarry, CarryStep, W

(* From one byte to the next higher one. *)
Carried(le, i, before, behind) ==
  /\ before \in 0 .. 1 /\ behind \in 0 .. 1 /\ Negated(le)[i] \in 0 .. B - 1
  /\ Negated(le)[i] + B * behind = B - 1 - le[i] + before

LEMMA OneCarried ==
  ASSUME NEW le \in Wide
  PROVE  /\ Carry(le)[0] = 1 /\ Negated(le) \in Wide
         /\ \A i \in Nat : i < W => Carried(le, i + 1, Carry(le)[i], Carry(le)[i + 1])
<1> DEFINE c == Carry(le)
           m == Negated(le)
<1>1. Carries!IsUpTo(c, le, W)
  BY Carries!Exists, Widths, Zenon DEF Carries!IsUpTo, Carry
<1>2. m = [i \in 1 .. W |-> (B - 1 - le[i] + c[i - 1]) % B]
  BY Zenon DEF Negated, W, B
<1> HIDE DEF c
<1>3. c[0] = 1 /\ \A i \in 1 .. W : c[i] = (B - 1 - le[i] + c[i - 1]) \div B
  <2>1. c[0] = FirstCarry(le) /\ \A i \in 1 .. W : c[i] = CarryStep(le, i, c[i - 1])
    BY <1>1, Carries!Unfolds, Widths
  <2> QED BY <2>1, Zenon DEF FirstCarry, CarryStep, B
<1> DEFINE S == {i \in Nat : i <= W => c[i] \in 0 .. 1}
<1>4. ASSUME NEW i \in Nat, i < W, c[i] \in 0 .. 1
      PROVE  Carried(le, i + 1, c[i], c[i + 1]) /\ c[i + 1] \in 0 .. 1
  <2> DEFINE v == le[i + 1]
             a == c[i]
             n == B - 1 - v + a
             q == n \div B
             u == n % B
  <2>1. i + 1 \in 1 .. W /\ (i + 1) - 1 = i
    BY <1>4, Widths
  <2>2. v \in 0 .. B - 1
    BY <2>1 DEF Wide
  <2>3. c[i + 1] = q /\ m[i + 1] = u
    BY <1>2, <1>3, <2>1
  <2>4. n \in 0 .. B
    BY <1>4, <2>2, Widths
  <2> HIDE DEF n
  <2>5. q \in 0 .. 1 /\ u \in 0 .. B - 1 /\ u + B * q = n
    <3>1. CASE n = B
      BY <3>1, Widths
    <3>2. CASE n < B
      BY <2>4, <3>2, Widths
    <3> QED BY <2>4, <3>1, <3>2, Widths
  <2> HIDE DEF q, u, m, a
  <2>6. Carried(le, i + 1, a, q)
    BY <1>4, <2>3, <2>5, Zenon DEF Carried, n, v, a, m
  <2> QED BY <2>3, <2>5, <2>6, Zenon DEF a
<1>5. 0 \in S
  BY <1>3
<1>6. ASSUME NEW i \in Nat, i \in S PROVE i + 1 \in S
  <2> SUFFICES ASSUME i + 1 <= W PROVE c[i + 1] \in 0 .. 1
    OBVIOUS
  <2>1. i < W /\ c[i] \in 0 .. 1
    BY <1>6, Widths
  <2> QED BY <1>4, <2>1, Zenon
<1>7. Nat \subseteq S
  <2> HIDE DEF S
  <2> QED BY <1>5, <1>6, Powers!FromBelow
<1>8. \A i \in Nat : i < W => Carried(le, i + 1, c[i], c[i + 1])
  <2>1. \A i \in Nat : i < W => c[i] \in 0 .. 1
    BY <1>7, Widths
  <2> QED BY <1>4, <2>1, Zenon
<1>9. m \in Wide
  <2>1. ASSUME NEW i \in 1 .. W PROVE m[i] \in 0 .. B - 1
    <3>1. i - 1 \in Nat /\ i - 1 < W /\ (i - 1) + 1 = i
      BY Widths
    <3>2. m[(i - 1) + 1] \in 0 .. B - 1
      BY <1>8, <3>1, Zenon DEF Carried
    <3> QED BY <3>1, <3>2, Zenon
  <2>2. m = [i \in 1 .. W |-> m[i]]
    BY <1>2
  <2> HIDE DEF m
  <2> QED BY <2>1, <2>2 DEF Wide
<1> QED BY <1>3, <1>8, <1>9, Zenon DEF c, m

(* Inverted bytes plus one are the negative, in two's complement. *)
LEMMA NegatedIs ==
  ASSUME NEW le \in Wide
  PROVE  /\ Negated(le) \in Wide /\ Carry(le)[W] \in 0 .. 1
         /\ UnsignedOf(Negated(le)) + UnsignedOf(le) + BytePower[W] * Carry(le)[W] = BytePower[W]
<1> DEFINE c == Carry(le)
           m == Negated(le)
           f == Low(le)
           g == Low(m)
<1>1. c[0] = 1 /\ m \in Wide /\ \A i \in Nat : i < W => Carried(le, i + 1, c[i], c[i + 1])
  BY OneCarried, Zenon
<1>2. /\ UnsignedOf(le) = f[W] /\ f[0] = 0
      /\ \A i \in Nat : i < W => f[i + 1] = f[i] + le[i + 1] * BytePower[i]
  BY LowIs, Zenon
<1>3. /\ UnsignedOf(m) = g[W] /\ g[0] = 0
      /\ \A i \in Nat : i < W => g[i + 1] = g[i] + m[i + 1] * BytePower[i]
  BY LowIs, Zenon
<1>4. (\A i \in Nat : i <= W => f[i] \in Nat) /\ (\A i \in Nat : i <= W => g[i] \in Nat)
  <2> HIDE DEF m
  <2> QED BY <1>1, LowType, Zenon
<1>5. c[W] \in 0 .. 1
  <2>1. W - 1 \in Nat /\ W - 1 < W /\ (W - 1) + 1 = W
    BY Widths
  <2>2. c[(W - 1) + 1] \in 0 .. 1
    BY <1>1, <2>1, Zenon DEF Carried
  <2> QED BY <2>1, <2>2, Zenon
<1> HIDE DEF c, m, f, g
<1> DEFINE S == {j \in Nat : j <= W => g[j] + f[j] + BytePower[j] * c[j] = BytePower[j]}
<1>6. 0 \in S
  BY <1>1, <1>2, <1>3, BytePowerDef
<1>7. ASSUME NEW j \in Nat, j \in S PROVE j + 1 \in S
  <2> SUFFICES ASSUME j + 1 <= W PROVE g[j + 1] + f[j + 1] + BytePower[j + 1] * c[j + 1] = BytePower[j + 1]
    OBVIOUS
  <2> DEFINE p == BytePower[j]
             v == le[j + 1]
             u == m[j + 1]
             a == c[j]
             h == c[j + 1]
             x == f[j]
             y == g[j]
  <2>1. j + 1 \in 1 .. W /\ j < W /\ j <= W
    BY Widths
  <2>2. y + x + p * a = p
    BY <1>7, <2>1
  <2>3. BytePower[j + 1] = B * p /\ p \in Nat
    BY BytePowerDef, BytePowerType
  <2>4. f[j + 1] = x + v * p /\ g[j + 1] = y + u * p /\ x \in Nat /\ y \in Nat
    BY <1>2, <1>3, <1>4, <2>1, Zenon
  <2>5. a \in 0 .. 1 /\ h \in 0 .. 1 /\ u \in 0 .. B - 1 /\ u + B * h = B - 1 - v + a
    BY <1>1, <2>1, Zenon DEF Carried, m
  <2>6. v \in Nat
    BY <2>1, Widths DEF Wide
  <2> HIDE DEF p, v, u, a, h, x, y
  <2>7. a \in Int /\ h \in Int /\ u \in Int /\ v \in Int /\ p \in Int /\ x \in Int /\ y \in Int /\ B \in Int
    BY <2>3, <2>4, <2>5, <2>6, Widths, SMT
  <2>8. (y + u * p) + (x + v * p) + (B * p) * h = B * p
    <3>1. (u + B * h) * p = u * p + (B * p) * h
      BY <2>7, SMT
    <3>2. (u + B * h) * p = (B - 1 - v + a) * p
      BY <2>5, Zenon
    <3>3. (B - 1 - v + a) * p = B * p - p - v * p + p * a
      BY <2>7, SMT
    <3> DEFINE up == u * p
               hp == (B * p) * h
               vp == v * p
               ap == p * a
               bp == B * p
    <3>4. ap \in Int /\ vp \in Int /\ hp \in Int /\ up \in Int /\ bp \in Int
      BY <2>7, SMT
    <3>5. up + hp = bp - p - vp + ap
      BY <3>1, <3>2, <3>3, Zenon
    <3>6. y + x + ap = p
      BY <2>2, Zenon
    <3> HIDE DEF ap, vp, hp, up, bp
    <3>7. (y + up) + (x + vp) + hp = bp
      BY <2>7, <3>4, <3>5, <3>6, SMT
    <3> QED BY <3>7, Zenon DEF vp, hp, up, bp
  <2>9. g[j + 1] + f[j + 1] + BytePower[j + 1] * c[j + 1] = (y + u * p) + (x + v * p) + (B * p) * h
    BY <2>3, <2>4, Zenon DEF h
  <2> QED BY <2>3, <2>8, <2>9, Zenon
<1>8. Nat \subseteq S
  <2> HIDE DEF S
  <2> QED BY <1>6, <1>7, Powers!FromBelow
<1>9. g[W] + f[W] + BytePower[W] * c[W] = BytePower[W]
  BY <1>8, Widths
<1> QED BY <1>1, <1>2, <1>3, <1>5, <1>9, Zenon DEF m, c

(* Sign and magnitude are the value. *)
LEMMA SignBack ==
  ASSUME NEW le \in Wide, NEW v, v = i256_sign_magnitude(le)
  PROVE  /\ v.neg \in BOOLEAN /\ v.mag \in Wide /\ SignedOf(le) \in Int
         /\ v.neg = (SignedOf(le) < 0) /\ UnsignedOf(v.mag) = Magnitude(SignedOf(le))
<1> DEFINE h == B \div 2
           b == le[W]
           n == UnsignedOf(le)
           p == BytePower[W]
           k == UnsignedOf(Negated(le))
           c == Carry(le)[W]
           neg == b >= h
<1>1. v = [neg |-> neg, mag |-> IF neg THEN Negated(le) ELSE le]
  BY SignMagnitudeIs, Zenon DEF B, W
<1>2. SignedOf(le) = n - (IF neg THEN p ELSE 0)
  BY Zenon DEF SignedOf, B, W
<1>3. Negated(le) \in Wide /\ c \in 0 .. 1 /\ k + n + p * c = p
  BY NegatedIs, Zenon
<1>4. n \in Nat /\ n < p /\ p \in Nat /\ k \in Nat
  BY <1>3, UnsignedType, BytePowerType, Widths
<1>5. h \in Nat /\ h >= 1 /\ b \in 0 .. B - 1
  BY Widths DEF Wide
<1>6. n = 0 => b = 0
  <2>1. W \in 1 .. W
    BY Widths
  <2> QED BY <2>1, AllZero, Zenon
<1>9. neg \in BOOLEAN
  BY <1>5, Widths
<1> HIDE DEF h, b, n, p, k, c, neg
<1>10. v.neg = neg /\ v.mag = (IF neg THEN Negated(le) ELSE le)
  BY <1>1
<1>7. CASE neg
  <2>1. n # 0
    BY <1>5, <1>6, <1>7 DEF neg
  <2>2. c = 0
    <3>1. c # 1
      <4> SUFFICES ASSUME c = 1 PROVE FALSE
        OBVIOUS
      <4> QED BY <1>3, <1>4, <2>1
    <3> QED BY <1>3, <3>1
  <2>3. k + n = p
    BY <1>3, <1>4, <2>2
  <2>4. v.neg = neg /\ v.mag = Negated(le) /\ SignedOf(le) = n - p /\ neg = TRUE
    BY <1>2, <1>7, <1>9, <1>10, Zenon
  <2>5. n - p \in Int /\ (n - p < 0) = TRUE /\ Magnitude(n - p) = k
    BY <1>4, <2>3 DEF Magnitude
  <2> QED BY <1>3, <1>9, <2>4, <2>5, Zenon DEF k
<1>8. CASE ~ neg
  <2>1. v.neg = neg /\ v.mag = le /\ SignedOf(le) = n - 0 /\ neg = FALSE
    BY <1>2, <1>8, <1>9, <1>10, Zenon
  <2>2. n - 0 = n /\ n \in Int /\ (n < 0) = FALSE /\ Magnitude(n) = n
    BY <1>4 DEF Magnitude
  <2> QED BY <1>9, <2>1, <2>2, Zenon DEF n
<1> QED BY <1>7, <1>8, Zenon

LEMMA CutInTwo ==
  ASSUME NEW S, NEW p \in Seq(S), NEW k \in 0 .. Len(p)
  PROVE  /\ SubSeq(p, 1, k) \in Seq(S) /\ Len(SubSeq(p, 1, k)) = k
         /\ SubSeq(p, k + 1, Len(p)) \in Seq(S) /\ Len(SubSeq(p, k + 1, Len(p))) = Len(p) - k
         /\ SubSeq(p, 1, k) \o SubSeq(p, k + 1, Len(p)) = p
<1>1. /\ 1 \in 1 .. Len(p) + 1 /\ k \in 1 - 1 .. Len(p) /\ Len(p) \in k .. Len(p)
      /\ 1 \in Int /\ k \in Int /\ k + 1 \in Int /\ Len(p) \in Int
  OBVIOUS
<1>2. SubSeq(p, 1, k) \o SubSeq(p, k + 1, Len(p)) = SubSeq(p, 1, Len(p))
  BY <1>1, ConcatAdjacentSubSeq, Zenon
<1>3. SubSeq(p, 1, Len(p)) = p
  BY SubSeqFull, Zenon
<1>4. SubSeq(p, 1, k) \in Seq(S) /\ Len(SubSeq(p, 1, k)) = k
  BY <1>1
<1>5. SubSeq(p, k + 1, Len(p)) \in Seq(S)
  BY <1>1
<1>6. Len(SubSeq(p, k + 1, Len(p))) = Len(p) - k
  BY <1>1
<1> QED BY <1>2, <1>3, <1>4, <1>5, <1>6, Zenon

(* A sign and digits say a whole number. *)
IsWhole(text, negative, t, v) ==
  /\ negative \in BOOLEAN /\ negative = (v < 0) /\ t \in Seq(Numerals) /\ Len(t) >= 1
  /\ NumberIn(t) = Magnitude(v) /\ text = Sign(negative) \o t

LEMMA WholeBack ==
  ASSUME NEW text, NEW negative, NEW t, NEW v, IsWhole(text, negative, t, v)
  PROVE  SaysDecimal(text, 0, v)
<1>1. /\ negative \in BOOLEAN /\ negative = (v < 0) /\ t \in Seq(Numerals) /\ Len(t) >= 1
      /\ NumberIn(t) = Magnitude(v) /\ text = Sign(negative) \o t
  BY Zenon DEF IsWhole
<1>2. Sign(negative) \o t \o <<>> = Sign(negative) \o t
  <2> DEFINE s == Sign(negative)
  <2>1. s \in Seq(Glyphs)
    <3>1. "-" \in Glyphs
      BY Zenon DEF Glyphs, Marks
    <3>2. <<"-">> \in Seq(Glyphs) /\ <<>> \in Seq(Glyphs)
      BY <3>1
    <3> QED BY <3>2, Zenon DEF Sign
  <2>2. t \in Seq(Glyphs)
    BY <1>1, Wider, Zenon
  <2> HIDE DEF s
  <2>3. s \o t \in Seq(Glyphs)
    BY <2>1, <2>2
  <2>4. s \o t \o <<>> = s \o t
    BY <2>3
  <2> QED BY <2>4, Zenon DEF s
<1>3. IsDecimal(text, negative, t, <<>>, FALSE)
  <2>1. <<>> \in Seq(Numerals) /\ t # <<>>
    BY <1>1
  <2>2. Point(<<>>, FALSE) = <<>>
    BY Zenon DEF Point
  <2> QED BY <1>1, <1>2, <2>1, <2>2, Zenon DEF IsDecimal
<1>4. /\ IsNegative(text) = negative
      /\ DecimalIn(Unsigned(text), 0) =
           NumberIn(t) * Power10[0] + NumberIn(<<>> \o Zeros(0 - Len(<<>>)))
  <2>1. 0 \in Nat
    OBVIOUS
  <2> DEFINE none == <<>>
             shown == FALSE
             k == 0
             g == none \o Zeros(k - Len(none))
  <2>2. IsDecimal(text, negative, t, none, shown) /\ k \in Nat
    BY <1>3, <2>1, Zenon
  <2> HIDE DEF none, k, shown
  <2>3. /\ IsNegative(text) = negative
        /\ DecimalIn(Unsigned(text), k) = NumberIn(t) * Power10[k] + NumberIn(g)
    BY <2>2, DecimalBack, SMT
  <2> QED BY <2>3, Zenon DEF none, k
<1>5. NumberIn(<<>> \o Zeros(0 - Len(<<>>))) = 0
  <2>1. Len(<<>>) = 0 /\ <<>> \o <<>> = <<>> /\ 0 \in Int /\ 0 <= 0 /\ 0 - 0 = 0
    OBVIOUS
  <2>2. Zeros(0) = <<>> /\ NumberIn(Zeros(0)) = 0
    BY <2>1, Nothing, Zenon
  <2> QED BY <2>1, <2>2, Zenon
<1>6. NumberIn(t) * Power10[0] + 0 = NumberIn(t)
  <2>1. NumberIn(t) \in Nat /\ Power10[0] = 1
    BY <1>1, NumberType, PowerDef
  <2> QED BY <2>1
<1> QED BY <1>1, <1>4, <1>5, <1>6, Zenon DEF SaysDecimal

(* u256_to_decimal says the value, of every number of bytes. *)
LEMMA Uint256Back ==
  ASSUME NEW le \in Wide
  PROVE  SaysDecimal(u256_to_decimal(le), 0, UnsignedOf(le))
<1> DEFINE t == u256_to_decimal(le)
           v == UnsignedOf(le)
<1>1. t \in Seq(Numerals) /\ Len(t) >= 1 /\ NumberIn(t) = v
  BY WideText, Zenon
<1>2. v \in Nat
  BY UnsignedType, Zenon
<1> HIDE DEF t, v
<1>3. (v < 0) = FALSE /\ Magnitude(v) = v
  BY <1>2 DEF Magnitude
<1>4. Sign(FALSE) \o t = t
  <2>1. <<>> \o t = t
    BY <1>1
  <2> QED BY <2>1, Zenon DEF Sign
<1>5. IsWhole(t, FALSE, t, v)
  BY <1>1, <1>3, <1>4, Zenon DEF IsWhole
<1> QED BY <1>5, WholeBack, Zenon DEF t, v

(* write_i256 says the value, of the smallest as well. *)
LEMMA Int256Back ==
  ASSUME NEW le \in Wide
  PROVE  SaysDecimal(write_i256(le), 0, SignedOf(le))
<1> DEFINE v == i256_sign_magnitude(le)
           t == u256_to_decimal(v.mag)
<1>1. /\ v.neg \in BOOLEAN /\ v.mag \in Wide
      /\ v.neg = (SignedOf(le) < 0) /\ UnsignedOf(v.mag) = Magnitude(SignedOf(le))
  BY SignBack, Zenon
<1>2. write_i256(le) = Sign(v.neg) \o t
  BY Zenon DEF write_i256
<1> HIDE DEF v
<1>3. t \in Seq(Numerals) /\ Len(t) >= 1 /\ NumberIn(t) = UnsignedOf(v.mag)
  BY <1>1, WideText, Zenon
<1> HIDE DEF t
<1>4. IsWhole(write_i256(le), v.neg, t, SignedOf(le))
  BY <1>1, <1>2, <1>3, Zenon DEF IsWhole
<1> QED BY <1>4, WholeBack, Zenon

(* Digits padded and cut in two before the last ones. *)
IsSplit(t, scale, p, a, tail) ==
  /\ p = Zeros(scale + 1 - Len(t)) \o t
  /\ a = SubSeq(p, 1, Len(p) - scale) /\ tail = SubSeq(p, Len(p) - scale + 1, Len(p))

LEMMA SplitBack ==
  ASSUME NEW t \in Seq(Numerals), NEW scale \in Nat, NEW p, NEW a, NEW tail, IsSplit(t, scale, p, a, tail),
         Len(t) >= 1
  PROVE  /\ a \in Seq(Numerals) /\ a # <<>> /\ tail \in Seq(Numerals) /\ Len(tail) = scale
         /\ NumberIn(a) * Power10[scale] + NumberIn(tail) = NumberIn(t)
<1> DEFINE z == Zeros(scale + 1 - Len(t))
<1>1. scale + 1 - Len(t) \in Int
  OBVIOUS
<1>2. /\ p = z \o t /\ a = SubSeq(p, 1, Len(p) - scale) /\ tail = SubSeq(p, Len(p) - scale + 1, Len(p))
  BY Zenon DEF IsSplit
<1>3. /\ z \in Seq(Numerals) /\ Len(z) = (IF scale + 1 - Len(t) < 0 THEN 0 ELSE scale + 1 - Len(t))
      /\ z \o t \in Seq(Numerals) /\ NumberIn(z \o t) = NumberIn(t)
  BY <1>1, ZerosAre, ZerosInFront, Zenon
<1> HIDE DEF z
<1>4. p \in Seq(Numerals) /\ Len(p) >= scale + 1 /\ NumberIn(p) = NumberIn(t)
  BY <1>2, <1>3
<1>5. /\ a \in Seq(Numerals) /\ Len(a) = Len(p) - scale /\ tail \in Seq(Numerals) /\ Len(tail) = scale
      /\ a \o tail = p
  <2> DEFINE k == Len(p) - scale
  <2>1. k \in 0 .. Len(p) /\ Len(p) - k = scale
    BY <1>4
  <2> HIDE DEF k
  <2>2. /\ SubSeq(p, 1, k) \in Seq(Numerals) /\ Len(SubSeq(p, 1, k)) = k
        /\ SubSeq(p, k + 1, Len(p)) \in Seq(Numerals) /\ Len(SubSeq(p, k + 1, Len(p))) = Len(p) - k
        /\ SubSeq(p, 1, k) \o SubSeq(p, k + 1, Len(p)) = p
    BY <1>4, <2>1, CutInTwo, Zenon
  <2> QED BY <1>2, <2>1, <2>2, Zenon DEF k
<1>6. a # <<>>
  BY <1>4, <1>5
<1>7. NumberIn(a \o tail) = NumberIn(a) * Power10[Len(tail)] + NumberIn(tail)
  BY <1>5, NumberJoined, Zenon
<1> QED BY <1>4, <1>5, <1>6, <1>7, Zenon

(* write_decimal256 says the value, of every value and scale. *)
LEMMA Decimal256Back ==
  ASSUME NEW le \in Wide, NEW scale \in Nat
  PROVE  SaysDecimal(write_decimal256(le, scale), scale, SignedOf(le))
<1> DEFINE v == i256_sign_magnitude(le)
           t == u256_to_decimal(v.mag)
           p == Zeros(scale + 1 - Len(t)) \o t
           a == SubSeq(p, 1, Len(p) - scale)
           tail == SubSeq(p, Len(p) - scale + 1, Len(p))
           f == TrimZeros(tail)
           shown == f # <<>>
           text == write_decimal256(le, scale)
<1>1. /\ v.neg \in BOOLEAN /\ v.mag \in Wide
      /\ v.neg = (SignedOf(le) < 0) /\ UnsignedOf(v.mag) = Magnitude(SignedOf(le))
  BY SignBack, Zenon
<1>2. text = Sign(v.neg) \o a \o Point(f, shown)
  BY Zenon DEF write_decimal256, Point
<1>3. shown \in BOOLEAN /\ (~ shown => f = <<>>)
  OBVIOUS
<1>4. t \in Seq(Numerals) /\ Len(t) >= 1 /\ NumberIn(t) = UnsignedOf(v.mag)
  <2> HIDE DEF v
  <2> QED BY <1>1, WideText, Zenon
<1>5. IsSplit(t, scale, p, a, tail)
  <2> HIDE DEF t
  <2> QED BY Zenon DEF IsSplit
<1> HIDE DEF text, v, t, p, a, tail, shown
<1>6. /\ a \in Seq(Numerals) /\ a # <<>> /\ tail \in Seq(Numerals) /\ Len(tail) = scale
      /\ NumberIn(a) * Power10[scale] + NumberIn(tail) = NumberIn(t)
  BY <1>4, <1>5, SplitBack, SMT
<1>7. f \in Seq(Numerals) /\ f \o Zeros(scale - Len(f)) = tail
  <2>1. f \in Seq(Numerals) /\ f \o Zeros(Len(tail) - Len(f)) = tail
    BY <1>6, TrimBack, Zenon
  <2> QED BY <1>6, <2>1, Zenon
<1> HIDE DEF f
<1>8. IsDecimal(text, v.neg, a, f, shown)
  BY <1>1, <1>2, <1>3, <1>6, <1>7, Zenon DEF IsDecimal
<1>9. /\ IsNegative(text) = v.neg
      /\ DecimalIn(Unsigned(text), scale) =
           NumberIn(a) * Power10[scale] + NumberIn(f \o Zeros(scale - Len(f)))
  <2> DEFINE g == f \o Zeros(scale - Len(f))
  <2>1. /\ IsNegative(text) = v.neg
        /\ DecimalIn(Unsigned(text), scale) = NumberIn(a) * Power10[scale] + NumberIn(g)
    BY <1>8, DecimalBack, SMT
  <2> QED BY <2>1, Zenon
<1> QED BY <1>1, <1>4, <1>6, <1>7, <1>9, Zenon DEF SaysDecimal, text

-----------------------------------------------------------------------------
(* Floats. *)

LEMMA InFront ==
  ASSUME NEW S, NEW a \in Seq(S), NEW b \in Seq(S), a # <<>>
  PROVE  /\ Head(a \o b) = Head(a) /\ Len(a \o b) = Len(a) + Len(b) /\ a \o b # <<>>
         /\ a \o b \in Seq(S) /\ Len(a) \in Nat /\ Len(b) \in Nat
<1> DEFINE c == a \o b
<1>1. c \in Seq(S) /\ Len(c) = Len(a) + Len(b) /\ Len(a) \in Nat /\ Len(b) \in Nat /\ Len(a) # 0
  OBVIOUS
<1>2. c[1] = a[1] /\ Head(a) = a[1]
  OBVIOUS
<1> HIDE DEF c
<1>3. Len(c) # 0 /\ Head(c) = c[1] /\ c # <<>>
  BY <1>1
<1> QED BY <1>1, <1>2, <1>3, Zenon DEF c

LEMMA SignedBack ==
  ASSUME NEW x \in Int
  PROVE  SignedIn(Signed(x)) = x /\ Signed(x) \in Seq(Glyphs)
<1> DEFINE n == Magnitude(x)
           d == Digits(n)
           negative == x < 0
           text == Signed(x)
<1>1. n \in Nat /\ negative \in BOOLEAN /\ x = (IF negative THEN -n ELSE n)
  BY DEF Magnitude
<1>2. text = Sign(negative) \o d
  BY Zenon DEF Signed
<1> HIDE DEF text, n, negative
<1>3. d \in Seq(Numerals) /\ Len(d) >= 1 /\ NumberIn(d) = n
  BY <1>1, DigitsBack, Zenon
<1> HIDE DEF d
<1>4. d \in Seq(Glyphs) /\ d # <<>> /\ Head(d) \in Numerals
  <2>1. d \in Seq(Glyphs)
    BY <1>3, Wider, Zenon
  <2>2. d # <<>> /\ Head(d) \in Numerals
    BY <1>3
  <2> QED BY <2>1, <2>2
<1>5. Head(d) # "-"
  BY <1>4, DigitWorth, Zenon
<1>6. IsNegative(text) = negative /\ Unsigned(text) = d /\ text \in Seq(Glyphs)
  BY <1>1, <1>2, <1>4, <1>5, Signs, Zenon
<1>7. SignedIn(text) = (IF negative THEN -NumberIn(d) ELSE NumberIn(d))
  <2>1. CASE negative
    <3>1. SignedIn(text) = -NumberIn(Tail(text)) /\ Unsigned(text) = Tail(text)
      BY <1>6, <2>1, Zenon DEF SignedIn, Unsigned
    <3> QED BY <1>6, <2>1, <3>1, Zenon
  <2>2. CASE ~ negative
    <3>1. SignedIn(text) = NumberIn(text) /\ Unsigned(text) = text
      BY <1>6, <2>2, Zenon DEF SignedIn, Unsigned
    <3> QED BY <1>6, <2>2, <3>1, Zenon
  <2> QED BY <2>1, <2>2, Zenon
<1> QED BY <1>1, <1>3, <1>6, <1>7, Zenon DEF text

(* What is in front of an exponent. *)
IsMantissa(man, whole, frac, shown) ==
  /\ whole \in Seq(Numerals) /\ whole # <<>> /\ frac \in Seq(Numerals)
  /\ shown \in BOOLEAN /\ (~ shown => frac = <<>>)
  /\ man = whole \o Point(frac, shown)

(* The digits of a mantissa on either side of its point. *)
LEMMA MantissaBack ==
  ASSUME NEW man, NEW whole, NEW frac, NEW shown, IsMantissa(man, whole, frac, shown)
  PROVE  /\ BeforeThe(man, ".") = whole /\ BehindThe(man, ".") = frac
         /\ man \in Seq(Glyphs \ {"e"}) /\ man \in Seq(Glyphs) /\ man # <<>> /\ Head(man) \in Numerals
<1> DEFINE S == Numerals \cup {"."}
           p == Point(frac, shown)
<1>1. /\ whole \in Seq(Numerals) /\ whole # <<>> /\ frac \in Seq(Numerals)
      /\ shown \in BOOLEAN /\ (~ shown => frac = <<>>)
      /\ man = whole \o p
  BY Zenon DEF IsMantissa
<1>2. Numerals \subseteq S /\ "." \in S
  OBVIOUS
<1> HIDE DEF S
<1>3. whole \in Seq(S) /\ frac \in Seq(S)
  BY <1>1, <1>2
<1>4. p \in Seq(S)
  <2>1. <<".">> \in Seq(S) /\ <<>> \in Seq(S)
    BY <1>2
  <2>2. <<".">> \o frac \in Seq(S)
    BY <1>3, <2>1
  <2> QED BY <2>1, <2>2, Zenon DEF Point
<1> HIDE DEF p
<1>5. man \in Seq(S) /\ man # <<>> /\ Head(man) = Head(whole) /\ Head(whole) \in Numerals
  BY <1>1, <1>3, <1>4
<1>6. "." \in Marks /\ "e" \in Marks /\ "." # "e"
  BY DEF Marks
<1>7. man \in Seq(Glyphs \ {"e"}) /\ man \in Seq(Glyphs)
  <2>1. Seq(S) \subseteq Seq(Glyphs \ {"e"})
    BY <1>6, OnlyMark, Zenon DEF S
  <2>2. man \in Seq(Glyphs \ {"e"})
    BY <1>5, <2>1, Zenon
  <2> QED BY <2>2, Wider, Zenon
<1>8. BeforeThe(whole \o p, ".") = whole /\ BehindThe(whole \o p, ".") = frac
  <2>1. whole \in Seq(Glyphs \ {"."})
    BY <1>1, <1>6, Wider, Zenon
  <2> QED BY <1>1, <2>1, PointParted, Zenon DEF p
<1> QED BY <1>1, <1>5, <1>7, <1>8, Zenon

(* Digits and exponent from the parts of a text. *)
ReadFloat(all, length, shift) ==
  LET first == Min({i \in DOMAIN all : all[i] # "0"} \cup {Len(all)})
      kept  == TrimZeros(SubSeq(all, first, Len(all)))
  IN IF kept = <<>> THEN [digits |-> <<"0">>, exp |-> 0]
     ELSE [digits |-> kept, exp |-> length - first + shift]

LEMMA PlainFloat ==
  ASSUME NEW man, NEW whole, NEW frac, NEW shown, IsMantissa(man, whole, frac, shown)
  PROVE  FloatIn(man) = ReadFloat(whole \o frac, Len(whole), 0)
<1>1. /\ BeforeThe(man, ".") = whole /\ BehindThe(man, ".") = frac
      /\ man \in Seq(Glyphs \ {"e"})
  BY MantissaBack, Zenon
<1>2. BeforeThe(man, "e") = man
  <2>1. "e" \in Marks /\ <<>> \in Seq(Glyphs)
    BY DEF Marks
  <2> QED BY <1>1, <2>1, Parted, Zenon
<1> QED BY <1>1, <1>2, Zenon DEF FloatIn, ReadFloat

IsShifted(text, man, x) == x \in Int /\ text = man \o <<"e">> \o Signed(x)

LEMMA ShiftedFloat ==
  ASSUME NEW man, NEW whole, NEW frac, NEW shown, IsMantissa(man, whole, frac, shown),
         NEW x, NEW text, IsShifted(text, man, x)
  PROVE  /\ FloatIn(text) = ReadFloat(whole \o frac, Len(whole), x)
         /\ text \in Seq(Glyphs) /\ text # <<>> /\ Head(text) \in Numerals
<1> DEFINE s == Signed(x)
<1>0. x \in Int /\ text = man \o <<"e">> \o s
  BY Zenon DEF IsShifted
<1>1. /\ BeforeThe(man, ".") = whole /\ BehindThe(man, ".") = frac
      /\ man \in Seq(Glyphs \ {"e"}) /\ man \in Seq(Glyphs) /\ man # <<>> /\ Head(man) \in Numerals
  BY MantissaBack, Zenon
<1>2. SignedIn(s) = x /\ s \in Seq(Glyphs)
  BY <1>0, SignedBack, Zenon
<1> HIDE DEF s
<1>3. "e" \in Marks /\ "e" \in Glyphs
  BY DEF Marks, Glyphs
<1>4. BeforeThe(man \o <<"e">> \o s, "e") = man /\ BehindThe(man \o <<"e">> \o s, "e") = s
      /\ man \o <<"e">> \o s \in Seq(Glyphs)
  BY <1>1, <1>2, <1>3, Parted, Zenon
<1>5. text # man /\ text # <<>> /\ Head(text) = Head(man)
  <2> DEFINE e == <<"e">>
  <2>1. e \in Seq(Glyphs) /\ Len(e) = 1
    <3> DEFINE mark == "e"
    <3>1. mark \in Glyphs
      BY <1>3, Zenon
    <3> HIDE DEF mark
    <3>2. <<mark>> \in Seq(Glyphs) /\ Len(<<mark>>) = 1
      BY <3>1
    <3> QED BY <3>2, Zenon DEF mark
  <2> HIDE DEF e
  <2>2. text = man \o e \o s
    BY <1>0, Zenon DEF e
  <2>3. man \o e \in Seq(Glyphs) /\ Len(man \o e) = Len(man) + 1 /\ Head(man \o e) = Head(man) /\ man \o e # <<>>
    BY <1>1, <2>1, InFront, Zenon
  <2> DEFINE me == man \o e
  <2> HIDE DEF me
  <2>4. me # <<>> /\ me \in Seq(Glyphs) /\ Len(me) = Len(man) + 1 /\ Head(me) = Head(man) /\ text = me \o s
    BY <2>2, <2>3, Zenon DEF me
  <2>5. Len(text) = Len(man) + 1 + Len(s) /\ Head(text) = Head(me) /\ Len(s) \in Nat /\ Len(man) \in Nat
    <3>1. Len(me \o s) = Len(me) + Len(s) /\ Head(me \o s) = Head(me) /\ Len(s) \in Nat
      BY <1>2, <2>4, InFront, Zenon
    <3>2. Len(man) \in Nat
      BY <1>1
    <3> QED BY <2>4, <3>1, <3>2, Zenon
  <2>6. Len(text) # Len(man) /\ Len(text) # 0
    BY <2>5
  <2>7. Len(<<>>) = 0
    OBVIOUS
  <2> QED BY <2>4, <2>5, <2>6, <2>7, Zenon
<1>6. FloatIn(text) = ReadFloat(whole \o frac, Len(whole), SignedIn(s))
  <2>1. BeforeThe(text, "e") = man /\ BehindThe(text, "e") = s
    BY <1>0, <1>4, Zenon
  <2> QED BY <1>1, <1>5, <2>1, Zenon DEF FloatIn, ReadFloat
<1> QED BY <1>0, <1>1, <1>2, <1>4, <1>5, <1>6, Zenon

LEMMA Joined ==
  ASSUME NEW S, NEW a \in Seq(S), NEW b \in Seq(S)
  PROVE  a \o b \in Seq(S) /\ Len(a \o b) = Len(a) + Len(b) /\ DOMAIN (a \o b) = 1 .. Len(a \o b)
<1> DEFINE c == a \o b
<1>1. c \in Seq(S) /\ Len(c) = Len(a) + Len(b)
  OBVIOUS
<1> HIDE DEF c
<1>2. DOMAIN c = 1 .. Len(c)
  BY <1>1
<1> QED BY <1>1, <1>2, Zenon DEF c

(* Digits that begin and end with one that counts. *)
Counts(digits) ==
  digits \in Seq(Numerals) /\ digits # <<>> /\ Head(digits) # "0" /\ Last(digits) # "0"

Between(all, z, digits, y) ==
  /\ Counts(digits) /\ z \in Nat /\ y \in Nat /\ all = Zeros(z) \o (digits \o Zeros(y))

(* Zeros around the digits of a float do not count. *)
LEMMA ReadBetween ==
  ASSUME NEW all, NEW z, NEW digits, NEW y, Between(all, z, digits, y), NEW length, NEW shift
  PROVE  ReadFloat(all, length, shift) = [digits |-> digits, exp |-> length - (z + 1) + shift]
<1> DEFINE a == Zeros(z)
           c == Zeros(y)
           t == digits \o c
           k == Len(digits)
           S == {i \in DOMAIN all : all[i] # "0"} \cup {Len(all)}
           first == Min(S)
           n == Len(all)
<1>1. /\ digits \in Seq(Numerals) /\ digits # <<>> /\ Head(digits) # "0" /\ Last(digits) # "0"
      /\ z \in Nat /\ y \in Nat /\ all = a \o t
  BY Zenon DEF Between, Counts
<1>2. a \in Seq(Numerals) /\ Len(a) = z /\ \A i \in 1 .. Len(a) : a[i] = "0"
  <2>1. z \in Int /\ ~ (z < 0)
    BY <1>1
  <2> QED BY <2>1, ZerosAre, Zenon
<1>3. c \in Seq(Numerals) /\ Len(c) = y /\ \A i \in 1 .. Len(c) : c[i] = "0"
  <2>1. y \in Int /\ ~ (y < 0)
    BY <1>1
  <2> QED BY <2>1, ZerosAre, Zenon
<1> HIDE DEF a, c
<1>4. k \in Nat /\ k >= 1 /\ digits[1] # "0" /\ digits[k] # "0"
  BY <1>1 DEF Last
<1>5. t \in Seq(Numerals) /\ Len(t) = k + y
  <2>1. t \in Seq(Numerals) /\ Len(t) = k + Len(c)
    BY <1>1, <1>3, Joined, Zenon
  <2> QED BY <1>3, <2>1, Zenon
<1>6. (\A i \in 1 .. k : t[i] = digits[i]) /\ (\A i \in 1 .. y : t[k + i] = "0")
  <2>1. ASSUME NEW i \in 1 .. k PROVE t[i] = digits[i]
    BY <1>1, <1>3
  <2>2. ASSUME NEW i \in 1 .. y PROVE t[k + i] = "0"
    <3>1. t[k + i] = c[i]
      BY <1>1, <1>3
    <3> QED BY <1>3, <3>1
  <2> QED BY <2>1, <2>2
<1> HIDE DEF t, k
<1>7. all \in Seq(Numerals) /\ n = z + k + y /\ DOMAIN all = 1 .. n
  <2>1. all \in Seq(Numerals) /\ n = Len(a) + Len(t) /\ DOMAIN all = 1 .. n
    BY <1>1, <1>2, <1>5, Joined, Zenon
  <2> HIDE DEF n
  <2>2. n = z + k + y
    BY <1>1, <1>2, <1>4, <1>5, <2>1
  <2> QED BY <2>1, <2>2
<1>8. (\A i \in 1 .. z : all[i] = "0") /\ all[z + 1] = t[1]
  <2>1. ASSUME NEW i \in 1 .. z PROVE all[i] = "0"
    <3>1. all[i] = a[i]
      BY <1>1, <1>2, <1>5
    <3> QED BY <1>2, <3>1
  <2>2. all[z + 1] = t[1]
    BY <1>1, <1>2, <1>4, <1>5
  <2> QED BY <2>1, <2>2
<1>9. first = z + 1
  <2>1. all[z + 1] # "0"
    <3>1. 1 \in 1 .. k
      BY <1>4
    <3> QED BY <1>4, <1>6, <1>8, <3>1, Zenon
  <2>2. z + 1 \in 1 .. n /\ n \in Nat /\ z + 1 <= n
    BY <1>1, <1>4, <1>7
  <2>3. S \in SUBSET Int /\ z + 1 \in S
    <3>1. DOMAIN all \subseteq Int
      BY <1>7
    <3> QED BY <1>7, <2>1, <2>2, <3>1
  <2>4. \A i \in S : z + 1 <= i
    <3>1. ASSUME NEW i \in 1 .. n, all[i] # "0" PROVE z + 1 <= i
      <4>1. ~ (i \in 1 .. z)
        BY <1>8, <3>1
      <4> QED BY <1>1, <2>2, <4>1
    <3> QED BY <1>7, <2>2, <3>1
  <2> HIDE DEF S
  <2> QED BY <2>3, <2>4, MinIs, Zenon
<1>10. SubSeq(all, z + 1, n) = t
  <2>1. z + 1 \in Len(a) + 1 .. Len(a) + Len(t) /\ n \in Len(a) + 1 .. Len(a) + Len(t)
    BY <1>1, <1>2, <1>4, <1>5, <1>7
  <2>2. SubSeq(a \o t, z + 1, n) = SubSeq(t, (z + 1) - Len(a), n - Len(a))
    BY <1>2, <1>5, <2>1, SubSeqOfConcat2, Zenon
  <2>3. (z + 1) - Len(a) = 1 /\ n - Len(a) = Len(t)
    BY <1>1, <1>2, <1>4, <1>5, <1>7
  <2>4. SubSeq(t, 1, Len(t)) = t
    BY <1>5, SubSeqFull, Zenon
  <2> HIDE DEF n
  <2> QED BY <1>1, <2>2, <2>3, <2>4, Zenon
<1>11. TrimZeros(t) = digits
  <2>1. Counting(t, k)
    <3>1. k \in 0 .. Len(t)
      BY <1>1, <1>4, <1>5
    <3>2. t[k] # "0"
      <4>1. k \in 1 .. k
        BY <1>4
      <4> QED BY <1>4, <1>6, <4>1, Zenon
    <3>3. ASSUME NEW i \in 1 .. Len(t), i > k PROVE t[i] = "0"
      <4>1. i - k \in 1 .. y /\ k + (i - k) = i
        BY <1>1, <1>4, <1>5, <3>3
      <4>2. t[k + (i - k)] = "0"
        BY <1>6, <4>1, Zenon
      <4> QED BY <4>1, <4>2, Zenon
    <3> QED BY <3>1, <3>2, <3>3, Zenon DEF Counting
  <2>2. TrimZeros(t) = SubSeq(t, 1, k)
    BY <1>5, <2>1, TrimIs, Zenon
  <2>3. SubSeq(digits \o c, 1, k) = SubSeq(digits, 1, k)
    <3>1. 1 \in 1 .. Len(digits) /\ k \in 1 .. Len(digits)
      BY <1>4 DEF k
    <3> QED BY <1>1, <1>3, <3>1, SubSeqOfConcat1, Zenon
  <2>4. SubSeq(digits, 1, k) = digits
    BY <1>1, SubSeqFull, Zenon DEF k
  <2> QED BY <2>2, <2>3, <2>4, Zenon DEF t
<1> HIDE DEF first
<1>12. ReadFloat(all, length, shift) =
         IF TrimZeros(SubSeq(all, first, n)) = <<>> THEN [digits |-> <<"0">>, exp |-> 0]
         ELSE [digits |-> TrimZeros(SubSeq(all, first, n)), exp |-> length - first + shift]
  BY Zenon DEF ReadFloat, first
<1> HIDE DEF n
<1>13. TrimZeros(SubSeq(all, first, n)) = digits
  BY <1>9, <1>10, <1>11, Zenon
<1> QED BY <1>1, <1>9, <1>12, <1>13, Zenon

LEMMA ReadZero ==
  ASSUME NEW length, NEW shift
  PROVE  ReadFloat(<<"0">>, length, shift) = [digits |-> <<"0">>, exp |-> 0]
<1> DEFINE all == <<"0">>
           S == {i \in DOMAIN all : all[i] # "0"} \cup {Len(all)}
<1>1. Len(all) = 1 /\ DOMAIN all = {1} /\ all[1] = "0"
  OBVIOUS
<1>2. all \in Seq(Numerals)
  <2>1. "0" \in Numerals
    BY DigitWorth, Zenon
  <2> QED BY <2>1
<1> HIDE DEF all
<1>3. S = {1}
  BY <1>1
<1>4. Min(S) = 1
  <2>1. S \in SUBSET Int /\ 1 \in S /\ \A k \in S : 1 <= k
    BY <1>3
  <2> HIDE DEF S
  <2> QED BY <2>1, MinIs, Zenon
<1>5. SubSeq(all, 1, 1) = all
  BY <1>1, <1>2, SubSeqFull, Zenon
<1>6. TrimZeros(all) = <<>>
  <2>1. Counting(all, 0)
    BY <1>1 DEF Counting
  <2>2. TrimZeros(all) = SubSeq(all, 1, 0)
    BY <1>2, <2>1, TrimIs, Zenon
  <2>3. SubSeq(all, 1, 0) = <<>>
    BY SubSeqEmpty
  <2> QED BY <2>2, <2>3, Zenon
<1> HIDE DEF S
<1>7. ReadFloat(all, length, shift) = [digits |-> <<"0">>, exp |-> 0]
  BY <1>1, <1>4, <1>5, <1>6, Zenon DEF ReadFloat, S
<1> QED BY <1>7, Zenon DEF all

(* The text of a float, without its sign. *)
BodySays(body, d, e) ==
  /\ body \in Seq(Glyphs) /\ body # <<>> /\ Head(body) \in Numerals
  /\ FloatIn(body) = [digits |-> d, exp |-> e]

IsSigned(text, neg, body) == neg \in BOOLEAN /\ text = Sign(neg) \o body

(* A float's sign in front of its digits. *)
LEMMA BodyBack ==
  ASSUME NEW text, NEW neg, NEW body, NEW d, NEW e, BodySays(body, d, e), IsSigned(text, neg, body)
  PROVE  FloatIn(Unsigned(text)) = [digits |-> d, exp |-> e] /\ IsNegative(text) = neg
<1>0. neg \in BOOLEAN /\ text = Sign(neg) \o body
  BY Zenon DEF IsSigned
<1>1. /\ body \in Seq(Glyphs) /\ body # <<>> /\ Head(body) \in Numerals
      /\ FloatIn(body) = [digits |-> d, exp |-> e]
  BY Zenon DEF BodySays
<1>2. Head(body) # "-"
  BY <1>1, DigitWorth, Zenon
<1>3. IsNegative(Sign(neg) \o body) = neg /\ Unsigned(Sign(neg) \o body) = body
  BY <1>0, <1>1, <1>2, Signs, Zenon
<1> QED BY <1>0, <1>1, <1>3, Zenon

(* Of a body without an exponent. *)
LEMMA PlainBody ==
  ASSUME NEW body, NEW whole, NEW frac, NEW shown, IsMantissa(body, whole, frac, shown),
         NEW z, NEW d, NEW y, Between(whole \o frac, z, d, y), NEW e \in Int, Len(whole) = e + z + 1
  PROVE  BodySays(body, d, e)
<1>1. /\ body \in Seq(Glyphs) /\ body # <<>> /\ Head(body) \in Numerals
  BY MantissaBack, Zenon
<1>2. FloatIn(body) = ReadFloat(whole \o frac, Len(whole), 0)
  BY PlainFloat, Zenon
<1>3. ReadFloat(whole \o frac, Len(whole), 0) = [digits |-> d, exp |-> Len(whole) - (z + 1) + 0]
  <2> DEFINE all == whole \o frac
             length == Len(whole)
             shift == 0
  <2>1. Between(all, z, d, y)
    BY Zenon
  <2> HIDE DEF all, length, shift
  <2>2. ReadFloat(all, length, shift) = [digits |-> d, exp |-> length - (z + 1) + shift]
    BY <2>1, ReadBetween, SMT
  <2> QED BY <2>2, Zenon DEF all, length, shift
<1>4. Len(whole) - (z + 1) + 0 = e
  <2>1. z \in Nat
    BY Zenon DEF Between
  <2> QED BY <2>1
<1> QED BY <1>1, <1>2, <1>3, <1>4, Zenon DEF BodySays

LEMMA NoZeros ==
  /\ Zeros(0) = <<>>
  /\ \A S : \A s \in Seq(S) : s \o <<>> = s /\ <<>> \o s = s
  /\ <<>> \in Seq(Numerals)
<1>1. Zeros(0) = <<>>
  BY Nothing
<1>2. ASSUME NEW S, NEW s \in Seq(S) PROVE s \o <<>> = s /\ <<>> \o s = s
  OBVIOUS
<1>3. <<>> \in Seq(Numerals)
  OBVIOUS
<1> QED BY <1>1, <1>2, <1>3, Zenon

(* Digits that begin and end with one that counts. *)
LEMMA CountsIs ==
  ASSUME NEW d, Counts(d)
  PROVE  d \in Seq(Numerals) /\ d # <<>> /\ Len(d) \in Nat /\ Len(d) >= 1
<1>1. d \in Seq(Numerals) /\ d # <<>>
  BY Zenon DEF Counts
<1> QED BY <1>1

(* 123000 *)
LEMMA WholeFloat ==
  ASSUME NEW d, Counts(d), NEW e \in Int, e + 1 >= Len(d)
  PROVE  BodySays(d \o Zeros(e + 1 - Len(d)), d, e)
<1> DEFINE k == Len(d)
           y == e + 1 - k
           zs == Zeros(y)
           whole == d \o zs
           none == <<>>
           shown == FALSE
<1>1. d \in Seq(Numerals) /\ d # <<>> /\ k \in Nat /\ k >= 1
  BY CountsIs, Zenon
<1>2. y \in Nat /\ y \in Int /\ ~ (y < 0) /\ k + y = e + 0 + 1
  BY <1>1
<1> HIDE DEF k, y
<1>3. zs \in Seq(Numerals) /\ Len(zs) = y
  BY <1>2, ZerosAre, Zenon
<1> HIDE DEF zs
<1>4. whole \in Seq(Numerals) /\ Len(whole) = k + y /\ whole # <<>>
  <2>1. Len(d \o zs) = Len(d) + Len(zs) /\ d \o zs \in Seq(Numerals) /\ d \o zs # <<>>
    BY <1>1, <1>3, InFront, Zenon
  <2> QED BY <1>3, <2>1, Zenon DEF k
<1>5. whole \o none = whole /\ Zeros(0) \o whole = whole
  <2> HIDE DEF whole
  <2> QED BY <1>4, NoZeros, Zenon
<1>6. IsMantissa(whole, whole, none, shown)
  <2>1. Point(none, shown) = none
    BY Zenon DEF Point
  <2>2. shown \in BOOLEAN /\ ~ shown /\ none \in Seq(Numerals)
    BY NoZeros
  <2> HIDE DEF whole, none, shown
  <2> QED BY <1>4, <1>5, <2>1, <2>2, Zenon DEF IsMantissa, none
<1>7. Between(whole \o none, 0, d, y)
  <2>1. 0 \in Nat
    OBVIOUS
  <2>2. whole \o none = Zeros(0) \o (d \o Zeros(y))
    BY <1>5, Zenon DEF zs
  <2> HIDE DEF whole, none
  <2> QED BY <1>2, <2>1, <2>2, Zenon DEF Between
<1>8. Len(whole) = e + 0 + 1
  BY <1>2, <1>4, Zenon
<1> HIDE DEF whole, none, shown
<1>9. BodySays(whole, d, e)
  BY <1>6, <1>7, <1>8, PlainBody, SMT
<1> QED BY <1>9, Zenon DEF whole, zs, y, k

(* 0 *)
LEMMA ZeroFloat ==
  BodySays(<<"0">> \o Zeros(0), <<"0">>, 0)
<1> DEFINE zero == <<"0">>
           none == <<>>
           shown == FALSE
<1>1. zero \in Seq(Numerals) /\ zero # <<>>
  <2>1. "0" \in Numerals
    BY DigitWorth, Zenon
  <2> QED BY <2>1
<1> HIDE DEF zero
<1>2. zero \o none = zero /\ zero \o Zeros(0) = zero
  BY <1>1, NoZeros, Zenon
<1>3. IsMantissa(zero, zero, none, shown)
  <2>1. Point(none, shown) = none
    BY Zenon DEF Point
  <2>2. shown \in BOOLEAN /\ ~ shown /\ none \in Seq(Numerals)
    BY NoZeros
  <2> HIDE DEF none, shown
  <2> QED BY <1>1, <1>2, <2>1, <2>2, Zenon DEF IsMantissa, none
<1>4. FloatIn(zero) = ReadFloat(zero \o none, Len(zero), 0)
  <2> HIDE DEF none, shown
  <2> QED BY <1>3, PlainFloat, Zenon
<1>5. ReadFloat(zero, Len(zero), 0) = [digits |-> <<"0">>, exp |-> 0]
  BY ReadZero, Zenon DEF zero
<1>6. zero \in Seq(Glyphs) /\ zero # <<>> /\ Head(zero) \in Numerals
  <2> HIDE DEF none, shown
  <2> QED BY <1>3, MantissaBack, Zenon
<1> QED BY <1>2, <1>4, <1>5, <1>6, Zenon DEF BodySays, zero

(* 0.00123 *)
LEMMA SmallFloat ==
  ASSUME NEW d, Counts(d), NEW e \in Int, e + 1 <= 0
  PROVE  BodySays(<<"0", ".">> \o Zeros(-(e + 1)) \o d, d, e)
<1> DEFINE y == -(e + 1)
           zs == Zeros(y)
           frac == zs \o d
           zero == <<"0">>
           body == <<"0", ".">> \o zs \o d
<1>1. d \in Seq(Numerals) /\ d # <<>>
  BY CountsIs, Zenon
<1>2. y \in Nat /\ y \in Int /\ ~ (y < 0) /\ y + 1 \in Nat /\ y + 1 \in Int /\ ~ (y + 1 < 0) /\ 1 = e + (y + 1) + 1
  OBVIOUS
<1> HIDE DEF y
<1>3. zs \in Seq(Numerals) /\ Len(zs) = y /\ \A i \in 1 .. Len(zs) : zs[i] = "0"
  BY <1>2, ZerosAre, Zenon
<1>4. zero \o zs = Zeros(y + 1) /\ zero \in Seq(Numerals) /\ zero # <<>> /\ Len(zero) = 1
  <2> DEFINE zz == Zeros(y + 1)
  <2>1. zz \in Seq(Numerals) /\ Len(zz) = y + 1 /\ \A i \in 1 .. Len(zz) : zz[i] = "0"
    BY <1>2, ZerosAre, Zenon
  <2>2. zero \in Seq(Numerals) /\ zero # <<>> /\ Len(zero) = 1 /\ zero[1] = "0"
    <3>1. "0" \in Numerals
      BY DigitWorth, Zenon
    <3> QED BY <3>1
  <2> HIDE DEF zs, zz, zero
  <2>3. zero \o zs \in Seq(Numerals) /\ Len(zero \o zs) = y + 1
    <3>1. zero \o zs \in Seq(Numerals) /\ Len(zero \o zs) = Len(zero) + Len(zs)
      BY <1>3, <2>2, Joined, Zenon DEF zs
    <3>2. 1 + y = y + 1
      BY <1>2
    <3> QED BY <1>3, <2>2, <3>1, <3>2, Zenon DEF zs
  <2>4. ASSUME NEW i \in 1 .. y + 1 PROVE (zero \o zs)[i] = "0"
    <3>1. CASE i = 1
      <4>1. (zero \o zs)[1] = zero[1]
        BY <1>3, <2>2
      <4> QED BY <2>2, <3>1, <4>1
    <3>2. CASE i # 1
      <4>1. i - 1 \in 1 .. y
        BY <1>2, <3>2
      <4>2. (zero \o zs)[i] = zs[i - 1]
        <5>1. i \in 1 .. Len(zero) + Len(zs) /\ ~ (i <= Len(zero))
          BY <1>2, <1>3, <2>2, <3>2 DEF zs
        <5>2. (zero \o zs)[i] = IF i <= Len(zero) THEN zero[i] ELSE zs[i - Len(zero)]
          BY <1>3, <2>2, <5>1, ConcatProperties, Zenon DEF zs
        <5> QED BY <2>2, <5>1, <5>2, Zenon
      <4> QED BY <1>3, <4>1, <4>2
    <3> QED BY <3>1, <3>2
  <2> DEFINE w == zero \o zs
  <2>5. w \in Seq(Numerals) /\ Len(w) = y + 1 /\ \A i \in 1 .. y + 1 : w[i] = "0"
    BY <2>3, <2>4, Zenon
  <2> HIDE DEF w
  <2>6. w = zz
    BY <1>2, <2>1, <2>5
  <2> QED BY <2>2, <2>6, Zenon DEF w, zz
<1>5. frac \in Seq(Numerals)
  <2> HIDE DEF zs
  <2> QED BY <1>1, <1>3
<1>6. body = zero \o Point(frac, TRUE)
  <2> DEFINE p == <<".">>
             zp == <<"0", ".">>
  <2>1. Point(frac, TRUE) = p \o frac
    BY Zenon DEF Point
  <2>2. zp = zero \o p
    OBVIOUS
  <2>3. zero \in Seq(Glyphs) /\ p \in Seq(Glyphs) /\ zs \in Seq(Glyphs) /\ d \in Seq(Glyphs)
    <3>1. zero \in Seq(Glyphs) /\ zs \in Seq(Glyphs) /\ d \in Seq(Glyphs)
      BY <1>1, <1>3, <1>4, Wider, Zenon
    <3> DEFINE mark == "."
    <3>2. mark \in Glyphs
      BY DEF Glyphs, Marks
    <3> HIDE DEF mark
    <3>3. <<mark>> \in Seq(Glyphs)
      BY <3>2
    <3> QED BY <3>1, <3>3, Zenon DEF mark
  <2> HIDE DEF zp, p, zero, zs
  <2>4. AllIn(Glyphs, zero, zero, p, zs, d, d)
    BY <2>3, Zenon DEF AllIn
  <2>5. IsJoined(Glyphs, zero, p, zs)
    BY <2>3, JoinedTwice, Zenon DEF AreSeqs
  <2>6. IsJoined(Glyphs, zero, p \o zs, d)
    BY <2>3, <2>5, JoinedTwice, Zenon DEF AreSeqs, IsJoined
  <2>7. IsJoined(Glyphs, p, zs, d)
    BY <2>3, JoinedTwice, Zenon DEF AreSeqs
  <2>8. zero \o p \o zs \o d = zero \o (p \o (zs \o d))
    BY <2>5, <2>6, <2>7, Zenon DEF IsJoined
  <2> QED BY <2>1, <2>2, <2>8, Zenon DEF zp
<1>7. IsMantissa(body, zero, frac, TRUE)
  <2>1. TRUE \in BOOLEAN
    OBVIOUS
  <2> HIDE DEF body, zero, frac
  <2> QED BY <1>4, <1>5, <1>6, <2>1, Zenon DEF IsMantissa
<1>8. Between(zero \o frac, y + 1, d, 0)
  <2> HIDE DEF zero, zs
  <2>1. IsJoined(Numerals, zero, zs, d)
    BY <1>1, <1>3, <1>4, JoinedTwice, Zenon DEF AreSeqs
  <2>2. zero \o frac = Zeros(y + 1) \o d
    BY <1>4, <2>1, Zenon DEF IsJoined
  <2>3. d \o Zeros(0) = d /\ 0 \in Nat
    BY <1>1, NoZeros, Zenon, SMT
  <2> QED BY <1>2, <2>2, <2>3, Zenon DEF Between
<1> DEFINE whole == zero
           z == y + 1
           y0 == 0
           shown == TRUE
<1>9. IsMantissa(body, whole, frac, shown) /\ Between(whole \o frac, z, d, y0) /\ Len(whole) = e + z + 1
  BY <1>2, <1>4, <1>7, <1>8, Zenon
<1> HIDE DEF whole, z, y0, body, frac, shown
<1>10. BodySays(body, d, e)
  BY <1>9, PlainBody, SMT
<1> QED BY <1>10, Zenon DEF body, zs, y

(* Digits with the point after n of them. *)
Cut(d, n, whole, frac) == whole = SubSeq(d, 1, n) /\ frac = SubSeq(d, n + 1, Len(d))

LEMMA CutDigits ==
  ASSUME NEW d, Counts(d), NEW n \in 1 .. Len(d), NEW whole, NEW frac, Cut(d, n, whole, frac)
  PROVE  /\ whole \in Seq(Numerals) /\ whole # <<>> /\ Len(whole) = n
         /\ frac \in Seq(Numerals) /\ (n = Len(d) => frac = <<>>)
         /\ Between(whole \o frac, 0, d, 0)
<1>1. d \in Seq(Numerals) /\ d # <<>> /\ Len(d) \in Nat /\ Len(d) >= 1
  BY CountsIs, Zenon
<1>2. n \in 0 .. Len(d) /\ n \in Nat /\ n >= 1
  BY <1>1
<1>3. whole = SubSeq(d, 1, n) /\ frac = SubSeq(d, n + 1, Len(d))
  BY Zenon DEF Cut
<1>4. /\ whole \in Seq(Numerals) /\ Len(whole) = n
      /\ frac \in Seq(Numerals) /\ Len(frac) = Len(d) - n /\ whole \o frac = d
  BY <1>1, <1>2, <1>3, CutInTwo, Zenon
<1>5. whole # <<>> /\ (n = Len(d) => frac = <<>>)
  BY <1>1, <1>2, <1>4
<1>6. d = Zeros(0) \o (d \o Zeros(0)) /\ 0 \in Nat
  <2>1. d \o Zeros(0) = d /\ Zeros(0) \o d = d
    BY <1>1, NoZeros, Zenon
  <2>2. 0 \in Nat
    OBVIOUS
  <2> QED BY <2>1, <2>2, Zenon
<1>7. Between(whole \o frac, 0, d, 0)
  BY <1>4, <1>6, Zenon DEF Between
<1> QED BY <1>4, <1>5, <1>7, Zenon

(* 1.23 *)
LEMMA PointFloat ==
  ASSUME NEW d, Counts(d), NEW e \in Int, NEW n, n = e + 1, n >= 1, n < Len(d)
  PROVE  BodySays(SubSeq(d, 1, n) \o <<".">> \o SubSeq(d, n + 1, Len(d)), d, e)
<1> DEFINE whole == SubSeq(d, 1, n)
           frac == SubSeq(d, n + 1, Len(d))
           body == whole \o <<".">> \o frac
           shown == TRUE
           zero == 0
<1>1. d \in Seq(Numerals) /\ Len(d) \in Nat
  BY CountsIs, Zenon
<1>2. n \in 1 .. Len(d) /\ n = e + zero + 1
  BY <1>1
<1>3. Cut(d, n, whole, frac)
  BY Zenon DEF Cut
<1> HIDE DEF whole, frac
<1>4. /\ whole \in Seq(Numerals) /\ whole # <<>> /\ Len(whole) = n
      /\ frac \in Seq(Numerals) /\ Between(whole \o frac, zero, d, zero)
  BY <1>2, <1>3, CutDigits, Zenon
<1>5. body = whole \o Point(frac, shown)
  <2> DEFINE p == <<".">>
  <2>1. whole \in Seq(Glyphs) /\ frac \in Seq(Glyphs) /\ p \in Seq(Glyphs)
    <3>1. whole \in Seq(Glyphs) /\ frac \in Seq(Glyphs)
      BY <1>4, Wider, Zenon
    <3> DEFINE mark == "."
    <3>2. mark \in Glyphs
      BY DEF Glyphs, Marks
    <3> HIDE DEF mark
    <3>3. <<mark>> \in Seq(Glyphs)
      BY <3>2
    <3> QED BY <3>1, <3>3, Zenon DEF mark
  <2>2. Point(frac, shown) = p \o frac
    BY Zenon DEF Point
  <2> HIDE DEF p
  <2>3. IsJoined(Glyphs, whole, p, frac)
    BY <2>1, JoinedTwice, Zenon DEF AreSeqs
  <2> QED BY <2>2, <2>3, Zenon DEF IsJoined, p
<1>6. shown \in BOOLEAN /\ shown
  OBVIOUS
<1> HIDE DEF shown, body, zero
<1>7. IsMantissa(body, whole, frac, shown) /\ Len(whole) = e + zero + 1
  BY <1>2, <1>4, <1>5, <1>6, Zenon DEF IsMantissa
<1>8. BodySays(body, d, e)
  BY <1>4, <1>7, PlainBody, SMT
<1> QED BY <1>8, Zenon DEF body, whole, frac

(* 1.23e45 *)
LEMMA ShiftedFloatSays ==
  ASSUME NEW d, Counts(d), NEW e \in Int
  PROVE  BodySays(<<d[1]>> \o (IF Len(d) > 1 THEN <<".">> \o SubSeq(d, 2, Len(d)) ELSE <<>>)
                    \o <<"e">> \o Signed(e), d, e)
<1> DEFINE whole == SubSeq(d, 1, 1)
           frac == SubSeq(d, 1 + 1, Len(d))
           shown == Len(d) > 1
           man == whole \o Point(frac, shown)
           text == man \o <<"e">> \o Signed(e)
           zero == 0
<1>1. d \in Seq(Numerals) /\ Len(d) \in Nat /\ Len(d) >= 1
  BY CountsIs, Zenon
<1>2. 1 \in 1 .. Len(d)
  BY <1>1
<1>3. Cut(d, 1, whole, frac)
  BY Zenon DEF Cut
<1>4. whole = <<d[1]>> /\ 1 + 1 = 2
  <2> HIDE DEF whole, frac
  <2>1. whole \in Seq(Numerals) /\ Len(whole) = 1
    BY <1>2, <1>3, CutDigits, Zenon
  <2>2. \A i \in 1 .. 1 : d[i] \in Numerals
    BY <1>1
  <2>3. \A i \in 1 .. 1 - 1 + 1 : SubSeq(d, 1, 1)[i] = d[1 + i - 1]
    BY <2>2, SubSeqProperties, Zenon, SMT
  <2>4. whole[1] = d[1]
    BY <2>3 DEF whole
  <2> QED BY <2>1, <2>4
<1>5. text = <<d[1]>> \o (IF Len(d) > 1 THEN <<".">> \o SubSeq(d, 2, Len(d)) ELSE <<>>)
               \o <<"e">> \o Signed(e)
  <2> DEFINE exponent == Signed(e)
  <2> HIDE DEF whole, exponent
  <2>1. Point(frac, shown) = IF Len(d) > 1 THEN <<".">> \o SubSeq(d, 2, Len(d)) ELSE <<>>
    BY <1>4, Zenon DEF Point
  <2> QED BY <1>4, <2>1, Zenon DEF exponent
<1> HIDE DEF whole, frac
<1>6. /\ whole \in Seq(Numerals) /\ whole # <<>> /\ Len(whole) = 1
      /\ frac \in Seq(Numerals) /\ (1 = Len(d) => frac = <<>>) /\ Between(whole \o frac, zero, d, zero)
  BY <1>2, <1>3, CutDigits, Zenon
<1>7. shown \in BOOLEAN /\ (~ shown => frac = <<>>)
  BY <1>1, <1>6
<1> HIDE DEF shown
<1>8. IsMantissa(man, whole, frac, shown)
  BY <1>6, <1>7, Zenon DEF IsMantissa
<1> HIDE DEF man, zero
<1>9. /\ FloatIn(text) = ReadFloat(whole \o frac, Len(whole), e)
      /\ text \in Seq(Glyphs) /\ text # <<>> /\ Head(text) \in Numerals
  <2>1. text = man \o <<"e">> \o Signed(e)
    BY Zenon
  <2> HIDE DEF text
  <2>2. IsShifted(text, man, e)
    BY <2>1, Zenon DEF IsShifted
  <2> QED BY <1>8, <2>2, ShiftedFloat, Zenon
<1>10. ReadFloat(whole \o frac, Len(whole), e) = [digits |-> d, exp |-> Len(whole) - (zero + 1) + e]
  <2> DEFINE all == whole \o frac
             length == Len(whole)
  <2>1. Between(all, zero, d, zero)
    BY <1>6, Zenon
  <2> HIDE DEF all, length
  <2>2. ReadFloat(all, length, e) = [digits |-> d, exp |-> length - (zero + 1) + e]
    BY <2>1, ReadBetween, SMT
  <2> QED BY <2>2, Zenon DEF all, length
<1>11. Len(whole) - (zero + 1) + e = e
  <2>1. 1 - (0 + 1) + e = e
    OBVIOUS
  <2> QED BY <1>6, <2>1, Zenon DEF zero
<1> HIDE DEF text
<1>12. BodySays(text, d, e)
  BY <1>9, <1>10, <1>11, Zenon DEF BodySays
<1> QED BY <1>5, <1>12, Zenon

(* A float's text without its sign. *)
FloatBody(d, e) ==
  LET k == Len(d)
      n == e + 1
      from(i) == SubSeq(d, i, k)
  IN CASE n > 21 \/ n <= -6 ->
            <<d[1]>> \o (IF k > 1 THEN <<".">> \o from(2) ELSE <<>>) \o <<"e">> \o Signed(n - 1)
       [] n \in -5 .. 0 -> <<"0", ".">> \o Zeros(-n) \o d
       [] n \in k .. 21 -> d \o Zeros(n - k)
       [] OTHER -> SubSeq(d, 1, n) \o <<".">> \o from(n + 1)

LEMMA WholeArm ==
  ASSUME NEW d, NEW e \in Int, Len(d) \in Nat, Len(d) >= 1, e + 1 >= Len(d), e + 1 <= 21
  PROVE  FloatBody(d, e) = d \o Zeros(e + 1 - Len(d))
<1> DEFINE k == Len(d)
           n == e + 1
<1>1. ~ (n > 21 \/ n <= -6) /\ ~ (n \in -5 .. 0) /\ n \in k .. 21
  OBVIOUS
<1>2. FloatBody(d, e) = d \o Zeros(n - k)
  BY <1>1, Zenon DEF FloatBody
<1> QED BY <1>2

(* Each of the four forms says digits and exponent. *)
LEMMA FloatBodySays ==
  ASSUME NEW d, Counts(d), NEW e \in Int
  PROVE  BodySays(FloatBody(d, e), d, e)
<1> DEFINE k == Len(d)
           n == e + 1
<1>1. k \in Nat /\ k >= 1
  BY CountsIs, Zenon
<1>2. n \in Int /\ n = e + 1 /\ n - 1 = e
  OBVIOUS
<1>3. CASE n > 21 \/ n <= -6
  <2>1. FloatBody(d, e) = <<d[1]>> \o (IF Len(d) > 1 THEN <<".">> \o SubSeq(d, 2, Len(d)) ELSE <<>>)
                            \o <<"e">> \o Signed(n - 1)
    <3>1. ~ (n \in -5 .. 0) /\ ~ (n \in k .. 21)
      BY <1>1, <1>2, <1>3
    <3> QED BY <1>3, <3>1, Zenon DEF FloatBody
  <2>2. BodySays(<<d[1]>> \o (IF Len(d) > 1 THEN <<".">> \o SubSeq(d, 2, Len(d)) ELSE <<>>)
                    \o <<"e">> \o Signed(e), d, e)
    BY ShiftedFloatSays, Zenon
  <2> HIDE DEF n
  <2> QED BY <1>2, <2>1, <2>2, Zenon
<1>4. CASE ~ (n > 21 \/ n <= -6) /\ n \in -5 .. 0
  <2>1. FloatBody(d, e) = <<"0", ".">> \o Zeros(-n) \o d
    <3>1. ~ (n \in k .. 21)
      BY <1>1, <1>2, <1>4
    <3> QED BY <1>4, <3>1, Zenon DEF FloatBody
  <2>2. BodySays(<<"0", ".">> \o Zeros(-(e + 1)) \o d, d, e)
    <3>1. e + 1 <= 0
      BY <1>4
    <3> QED BY <3>1, SmallFloat, Zenon
  <2> QED BY <2>1, <2>2, Zenon
<1>5. CASE ~ (n > 21 \/ n <= -6) /\ ~ (n \in -5 .. 0) /\ n \in k .. 21
  <2>1. e + 1 >= Len(d) /\ e + 1 <= 21
    BY <1>1, <1>5
  <2>2. BodySays(d \o Zeros(e + 1 - Len(d)), d, e)
    <3> HIDE DEF n, k
    <3> QED BY <2>1, WholeFloat, SMT
  <2>3. FloatBody(d, e) = d \o Zeros(e + 1 - Len(d))
    <3>1. Len(d) \in Nat /\ Len(d) >= 1
      BY <1>1
    <3> HIDE DEF n, k
    <3> QED BY <2>1, <3>1, WholeArm, SMT
  <2> DEFINE body == d \o Zeros(e + 1 - Len(d))
  <2>4. BodySays(body, d, e) /\ FloatBody(d, e) = body
    BY <2>2, <2>3
  <2> HIDE DEF body
  <2> QED BY <2>4, Zenon
<1>6. CASE ~ (n > 21 \/ n <= -6) /\ ~ (n \in -5 .. 0) /\ ~ (n \in k .. 21)
  <2>1. FloatBody(d, e) = SubSeq(d, 1, n) \o <<".">> \o SubSeq(d, n + 1, Len(d))
    BY <1>6, Zenon DEF FloatBody
  <2>2. n >= 1 /\ n < Len(d)
    BY <1>1, <1>2, <1>6
  <2> HIDE DEF n
  <2> QED BY <1>2, <2>1, <2>2, PointFloat, Zenon
<1> QED BY <1>3, <1>4, <1>5, <1>6, Zenon

LEMMA ZeroBody == BodySays(FloatBody(<<"0">>, 0), <<"0">>, 0)
<1>1. FloatBody(<<"0">>, 0) = <<"0">> \o Zeros(0)
  <2> DEFINE d == <<"0">>
             e == 0
  <2>1. Len(d) = 1
    OBVIOUS
  <2> HIDE DEF d
  <2>2. e \in Int /\ Len(d) \in Nat /\ Len(d) >= 1 /\ e + 1 >= Len(d) /\ e + 1 <= 21 /\ e + 1 - Len(d) = 0
    BY <2>1
  <2> HIDE DEF e
  <2>3. FloatBody(d, e) = d \o Zeros(e + 1 - Len(d))
    BY <2>2, WholeArm, SMT
  <2> QED BY <2>2, <2>3, Zenon DEF d, e
<1> QED BY <1>1, ZeroFloat, Zenon

(* write_f says digits, exponent and sign of every float. *)
LEMMA FloatBack ==
  ASSUME NEW f \in FloatValues
  PROVE  SaysFloat(write_f(f), f)
<1> DEFINE d == f.digits
           e == f.exp
<1>1. /\ f.neg \in BOOLEAN /\ e \in Int /\ d \in NotANumber \cup Seq(Numerals)
      /\ d \notin NotANumber =>
           \/ d = <<"0">> /\ e = 0
           \/ d # <<>> /\ Head(d) # "0" /\ Last(d) # "0"
  BY Zenon DEF FloatValues, Numerals
<1> SUFFICES ASSUME d \notin NotANumber
             PROVE  FloatIn(Unsigned(write_f(f))) = [digits |-> d, exp |-> e] /\ IsNegative(write_f(f)) = f.neg
  BY Zenon DEF SaysFloat
<1>2. write_f(f) = Sign(f.neg) \o FloatBody(d, e)
  <2>1. d # <<"nan">> /\ d # <<"inf">>
    BY Zenon DEF NotANumber
  <2>2. write_f(f) = write_float_ecma(f)
    BY <2>1, Zenon DEF write_f
  <2>3. write_float_ecma(f) = Sign(f.neg) \o FloatBody(d, e)
    BY Zenon DEF write_float_ecma, FloatBody
  <2> QED BY <2>2, <2>3, Zenon
<1>3. BodySays(FloatBody(d, e), d, e)
  <2>1. CASE d = <<"0">> /\ e = 0
    <3> HIDE DEF d, e
    <3> QED BY <2>1, ZeroBody, Zenon
  <2>2. CASE d # <<>> /\ Head(d) # "0" /\ Last(d) # "0"
    <3>1. Counts(d)
      BY <1>1, <2>2, Zenon DEF Counts
    <3> HIDE DEF d, e
    <3> QED BY <1>1, <3>1, FloatBodySays, Zenon
  <2> QED BY <1>1, <2>1, <2>2, Zenon
<1> DEFINE text == write_f(f)
           neg == f.neg
           body == FloatBody(d, e)
<1>4. IsSigned(text, neg, body) /\ BodySays(body, d, e)
  BY <1>1, <1>2, <1>3, Zenon DEF IsSigned
<1> HIDE DEF text, neg, body, d, e
<1>5. FloatIn(Unsigned(text)) = [digits |-> d, exp |-> e] /\ IsNegative(text) = neg
  BY <1>4, BodyBack, Zenon
<1> QED BY <1>5, Zenon DEF text, neg, d, e

LEMMA FloatSays ==
  ASSUME NEW col, NEW v, Holds(col, v), col.data \in Floats
  PROVE  SaysItsValue(col, v)
<1>1. v \in FloatValues
  BY SMT DEF Holds, Floats, Wides, Decimals, Instants
<1>2. NumberText(col, v) = write_f(v)
  BY SMT DEF NumberText, Floats, Decimals
<1>3. SaysItsValue(col, v) = SaysFloat(NumberText(col, v), v)
  BY SMT DEF SaysItsValue, Floats, Decimals
<1> QED BY <1>1, <1>2, <1>3, FloatBack, Zenon

LEMMA DecimalSays ==
  ASSUME NEW col, NEW v, Holds(col, v), col.data \in Decimals
  PROVE  SaysItsValue(col, v)
<1>1. v \in Int /\ col.scale \in Nat
  BY SMT DEF Holds, Floats, Wides, Decimals, Instants
<1>2. NumberText(col, v) = write_decimal(v, col.scale)
  BY SMT DEF NumberText, Floats, Decimals
<1>3. SaysItsValue(col, v) = SaysDecimal(NumberText(col, v), col.scale, v)
  BY SMT DEF SaysItsValue, Floats, Decimals
<1> QED BY <1>1, <1>2, <1>3, SmallDecimal, Zenon

LEMMA WideSays ==
  ASSUME NEW col, NEW v, Holds(col, v), col.data \in Wides
  PROVE  SaysItsValue(col, v)
<1>1. v \in Wide /\ (col.data = "Decimal256" => col.scale \in Nat)
  BY SMT DEF Holds, Floats, Wides, Decimals, Instants, Wide, B, W
<1>2. CASE col.data = "Int256"
  <2>1. NumberText(col, v) = write_i256(v)
    BY <1>2, SMT DEF NumberText, Floats, Decimals
  <2>2. SaysItsValue(col, v) = SaysDecimal(NumberText(col, v), 0, SignedOf(v))
    BY <1>2, SMT DEF SaysItsValue, Floats, Decimals
  <2> QED BY <1>1, <2>1, <2>2, Int256Back, Zenon
<1>3. CASE col.data = "Uint256"
  <2>1. NumberText(col, v) = u256_to_decimal(v)
    BY <1>3, SMT DEF NumberText, Floats, Decimals
  <2>2. SaysItsValue(col, v) = SaysDecimal(NumberText(col, v), 0, UnsignedOf(v))
    BY <1>3, SMT DEF SaysItsValue, Floats, Decimals
  <2> QED BY <1>1, <2>1, <2>2, Uint256Back, Zenon
<1>4. CASE col.data = "Decimal256"
  <2>1. NumberText(col, v) = write_decimal256(v, col.scale)
    BY <1>4, SMT DEF NumberText, Floats, Decimals
  <2>2. SaysItsValue(col, v) = SaysDecimal(NumberText(col, v), col.scale, SignedOf(v))
    BY <1>4, SMT DEF SaysItsValue, Floats, Decimals
  <2> QED BY <1>1, <1>4, <2>1, <2>2, Decimal256Back, Zenon
<1>5. col.data = "Int256" \/ col.data = "Uint256" \/ col.data = "Decimal256"
  BY Zenon DEF Wides
<1> QED BY <1>2, <1>3, <1>4, <1>5, Zenon

LEMMA InstantSays ==
  ASSUME NEW col, NEW v, Holds(col, v), col.data \in Instants
  PROVE  SaysItsValue(col, v)
<1>1. v \in Int /\ (col.data \in {"DateTime64", "Time64"} => col.scale \in Nat)
  BY SMT DEF Holds, Floats, Wides, Decimals, Instants
<1>2. CASE col.data \in {"Date", "Date32"}
  <2>1. NumberText(col, v) = write_date(v)
    BY <1>2, SMT DEF NumberText, Floats, Decimals
  <2>2. SaysItsValue(col, v) = SaysDate(NumberText(col, v), v)
    BY <1>2, SMT DEF SaysItsValue, Floats, Decimals
  <2> QED BY <1>1, <2>1, <2>2, SaysDateBack, Zenon
<1>3. CASE col.data = "DateTime"
  <2>1. NumberText(col, v) = write_datetime(v, 0, 0)
    BY <1>3, SMT DEF NumberText, Floats, Decimals
  <2>2. SaysItsValue(col, v) = SaysInstant(NumberText(col, v), 0, v)
    BY <1>3, SMT DEF SaysItsValue, Floats, Decimals
  <2> QED BY <1>1, <2>1, <2>2, DateTimeBack, Zenon
<1>4. CASE col.data = "DateTime64"
  <2>1. NumberText(col, v) = write_datetime64(v, col.scale)
    BY <1>4, SMT DEF NumberText, Floats, Decimals
  <2>2. SaysItsValue(col, v) = SaysInstant(NumberText(col, v), col.scale, v)
    BY <1>4, SMT DEF SaysItsValue, Floats, Decimals
  <2>3. col.scale \in Nat
    BY <1>1, <1>4
  <2> QED BY <1>1, <2>1, <2>2, <2>3, DateTime64Back, Zenon
<1>5. CASE col.data = "Time"
  <2>1. NumberText(col, v) = write_time64(v, 0)
    BY <1>5, SMT DEF NumberText, Floats, Decimals
  <2>2. SaysItsValue(col, v) = SaysTime(NumberText(col, v), 0, v)
    BY <1>5, SMT DEF SaysItsValue, Floats, Decimals
  <2>3. 0 \in Nat
    OBVIOUS
  <2> QED BY <1>1, <2>1, <2>2, <2>3, TimeBack, Zenon
<1>6. CASE col.data = "Time64"
  <2>1. NumberText(col, v) = write_time64(v, col.scale)
    BY <1>6, SMT DEF NumberText, Floats, Decimals
  <2>2. SaysItsValue(col, v) = SaysTime(NumberText(col, v), col.scale, v)
    BY <1>6, SMT DEF SaysItsValue, Floats, Decimals
  <2>3. col.scale \in Nat
    BY <1>1, <1>6
  <2> QED BY <1>1, <2>1, <2>2, <2>3, TimeBack, Zenon
<1> QED BY <1>2, <1>3, <1>4, <1>5, <1>6 DEF Instants

(* A column of numbers, dates or times: each of its values is printed as it is. *)
LEMMA SaysWhatItHolds ==
  ASSUME NEW col, col.data \in NumberKinds, NEW v, Holds(col, v)
  PROVE  SaysItsValue(col, v)
BY FloatSays, DecimalSays, WideSays, InstantSays, Zenon DEF NumberKinds
=============================================================================
