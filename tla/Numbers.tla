------------------------------- MODULE Numbers -------------------------------
(***************************************************************************)
(* Numbers, dates and times as text (src/tsv.rs), and what such a text     *)
(* says to a reader.  A text is a sequence of characters.                  *)
(***************************************************************************)
EXTENDS Naturals, Integers, Sequences, SequencesExt, FiniteSetsExt

CONSTANTS
  ByteBase,     \* values of a byte: 256 in the code
  WideBytes,    \* bytes of the widest integers: 32 in the code
  TimeCap       \* seconds a clock shows at most: 999:59:59 in the code

(* The highest bit of a byte is half of its values. *)
ASSUME WidthsAssumption ==
  /\ ByteBase \in Nat /\ ByteBase > 0 /\ ByteBase % 2 = 0
  /\ WideBytes \in Nat \ {0} /\ TimeCap \in Nat

-----------------------------------------------------------------------------
(* Digits. *)

Power10[n \in Nat] == IF n = 0 THEN 1 ELSE 10 * Power10[n - 1]

Digit == <<"0", "1", "2", "3", "4", "5", "6", "7", "8", "9">>

Digits(n) ==
  LET text[x \in Nat] == (IF x < 10 THEN <<>> ELSE text[x \div 10]) \o <<Digit[(x % 10) + 1]>>
  IN text[n]

Zeros(n) == [i \in 1 .. (IF n < 0 THEN 0 ELSE n) |-> "0"]

Padded(n, width) == Zeros(width - Len(Digits(n))) \o Digits(n)

Sign(negative) == IF negative THEN <<"-">> ELSE <<>>

Magnitude(n) == IF n < 0 THEN -n ELSE n

Signed(n) == Sign(n < 0) \o Digits(Magnitude(n))

TrimZeros(digits) == SubSeq(digits, 1, Max({i \in DOMAIN digits : digits[i] # "0"} \cup {0}))

-----------------------------------------------------------------------------
(* Floats, decimals and wide integers. *)

(* A float by its shortest digits d.ddd times 10^exp, as {:e} has them.    *)
write_float_ecma(f) ==
  LET k == Len(f.digits)
      n == f.exp + 1
      from(i) == SubSeq(f.digits, i, k)
  IN Sign(f.neg) \o
     CASE n > 21 \/ n <= -6 ->
            <<f.digits[1]>> \o (IF k > 1 THEN <<".">> \o from(2) ELSE <<>>) \o <<"e">> \o Signed(n - 1)
       [] n \in -5 .. 0 -> <<"0", ".">> \o Zeros(-n) \o f.digits
       [] n \in k .. 21 -> f.digits \o Zeros(n - k)
       [] OTHER -> SubSeq(f.digits, 1, n) \o <<".">> \o from(n + 1)

write_f(f) ==
  CASE f.digits = <<"nan">> -> <<"nan">>
    [] f.digits = <<"inf">> -> Sign(f.neg) \o <<"inf">>
    [] OTHER -> write_float_ecma(f)

(* Whole and fraction of a magnitude, without the fraction's last zeros.   *)
write_decimal(value, scale) ==
  LET abs  == Magnitude(value)
      frac == abs % Power10[scale]
  IN Sign(value < 0) \o Digits(abs \div Power10[scale])
     \o IF scale > 0 /\ frac # 0 THEN <<".">> \o TrimZeros(Padded(frac, scale)) ELSE <<>>

(* Long division by ten: what remains behind each of the highest bytes,    *)
(* and the quotient.                                                       *)
Remainders(le) ==
  LET rem[i \in 0 .. WideBytes] ==
        IF i = 0 THEN 0 ELSE (rem[i - 1] * ByteBase + le[WideBytes + 1 - i]) % 10
  IN rem

Tenth(le) == [i \in 1 .. WideBytes |-> (Remainders(le)[WideBytes - i] * ByteBase + le[i]) \div 10]

Nonzero(le) == \E i \in 1 .. WideBytes : le[i] # 0

(* Rounds until nothing is left: each remainder is a digit, the last one's *)
(* the first.  A byte is worth less than ByteBase digits.                  *)
u256_to_decimal(le) ==
  LET left[k \in Nat] == IF k = 0 THEN le ELSE Tenth(left[k - 1])
      rounds == CHOOSE k \in 1 .. ByteBase * WideBytes :
                  ~ Nonzero(left[k]) /\ \A j \in 1 .. k - 1 : Nonzero(left[j])
  IN [i \in 1 .. rounds |-> Digit[Remainders(left[rounds - i])[WideBytes] + 1]]

(* Inverted, plus one, the carry going up. *)
i256_sign_magnitude(le) ==
  LET neg == le[WideBytes] >= ByteBase \div 2
      carry[i \in 0 .. WideBytes] ==
        IF i = 0 THEN 1 ELSE (ByteBase - 1 - le[i] + carry[i - 1]) \div ByteBase
  IN [neg |-> neg,
      mag |-> IF neg THEN [i \in 1 .. WideBytes |-> (ByteBase - 1 - le[i] + carry[i - 1]) % ByteBase]
              ELSE le]

write_i256(le) ==
  LET v == i256_sign_magnitude(le) IN Sign(v.neg) \o u256_to_decimal(v.mag)

write_decimal256(le, scale) ==
  LET v      == i256_sign_magnitude(le)
      digits == u256_to_decimal(v.mag)
      padded == Zeros(scale + 1 - Len(digits)) \o digits
      split  == Len(padded) - scale
      frac   == TrimZeros(SubSeq(padded, split + 1, Len(padded)))
  IN Sign(v.neg) \o SubSeq(padded, 1, split) \o (IF frac = <<>> THEN <<>> ELSE <<".">> \o frac)

-----------------------------------------------------------------------------
(* Dates and times. *)

(* / of i64: toward zero. *)
Quotient(a, b) == IF a < 0 THEN -((-a) \div b) ELSE a \div b

(* Of a year counted from March, with its day doy; mp is its month. *)
DateInYear(year, doy, mp) ==
  LET m == IF mp < 10 THEN mp + 3 ELSE mp - 9
  IN [y |-> year + (IF m <= 2 THEN 1 ELSE 0), m |-> m, d |-> doy - (153 * mp + 2) \div 5 + 1]

DateInEra(era, doe) ==
  LET yoe == (doe - doe \div 1460 + doe \div 36524 - doe \div 146096) \div 365
      date(y, doy) == DateInYear(y + era * 400, doy, (5 * doy + 2) \div 153)
  IN date(yoe, doe - (365 * yoe + yoe \div 4 - yoe \div 100))

(* Bug: eras before the first round toward it. *)
civil_from_days_Bug(days) ==
  LET z   == days + 719468
      era == Quotient(z, 146097)
  IN DateInEra(era, z - era * 146097)

(* Years from March on, in eras of 400 years. *)
civil_from_days(days) ==
  LET z   == days + 719468
      era == Quotient(IF z >= 0 THEN z ELSE z - 146096, 146097)
  IN DateInEra(era, z - era * 146097)

DateText(c) ==
  Sign(c.y < 0) \o Padded(Magnitude(c.y), 4) \o <<"-">> \o Padded(c.m, 2) \o <<"-">> \o Padded(c.d, 2)

write_date(days) == DateText(civil_from_days(days))

Clock(seconds) ==
  Padded(seconds \div 3600, 2) \o <<":">> \o Padded((seconds % 3600) \div 60, 2)
  \o <<":">> \o Padded(seconds % 60, 2)

Fraction(ticks, scale) == IF scale > 0 THEN <<".">> \o Padded(ticks, scale) ELSE <<>>

InstantText(days, seconds, fraction, scale) ==
  write_date(days) \o <<" ">> \o Clock(seconds) \o Fraction(fraction, scale)

SecondsPerDay == 86400

(* \div and % round down, as div_euclid and rem_euclid do. *)
write_datetime(seconds, fraction, scale) ==
  InstantText(seconds \div SecondsPerDay, seconds % SecondsPerDay, fraction, scale)

write_datetime64(ticks, scale) ==
  write_datetime(ticks \div Power10[scale], ticks % Power10[scale], scale)

write_hms(negative, seconds, fraction, scale) ==
  LET capped == seconds > TimeCap
  IN Sign(negative) \o Clock(IF capped THEN TimeCap ELSE seconds)
     \o Fraction(IF capped THEN 0 ELSE fraction, scale)

write_time64(ticks, scale) ==
  write_hms(ticks < 0, Magnitude(ticks) \div Power10[scale], Magnitude(ticks) % Power10[scale], scale)

-----------------------------------------------------------------------------
(* Columns of them. *)

Floats   == {"Float32", "Float64", "BFloat16"}
Decimals == {"Decimal32", "Decimal64", "Decimal128"}
Wides    == {"Int256", "Uint256", "Decimal256"}
Instants == {"Date", "Date32", "DateTime", "DateTime64", "Time", "Time64"}

NumberKinds == Floats \cup Decimals \cup Wides \cup Instants

NumberText(col, v) ==
  CASE col.data \in Floats -> write_f(v)
    [] col.data \in Decimals -> write_decimal(v, col.scale)
    [] col.data = "Int256" -> write_i256(v)
    [] col.data = "Uint256" -> u256_to_decimal(v)
    [] col.data = "Decimal256" -> write_decimal256(v, col.scale)
    [] col.data \in {"Date", "Date32"} -> write_date(v)
    [] col.data = "DateTime" -> write_datetime(v, 0, 0)
    [] col.data = "DateTime64" -> write_datetime64(v, col.scale)
    [] col.data = "Time" -> write_time64(v, 0)
    [] col.data = "Time64" -> write_time64(v, col.scale)

(* What such a column can hold.  A float's digits begin and end with one   *)
(* that counts, but for zero.                                              *)
NotANumber == {<<"nan">>, <<"inf">>}

FloatValues ==
  {f \in [neg : BOOLEAN, digits : NotANumber \cup Seq({Digit[i] : i \in 1 .. 10}), exp : Int] :
     f.digits \notin NotANumber =>
       \/ f.digits = <<"0">> /\ f.exp = 0
       \/ f.digits # <<>> /\ Head(f.digits) # "0" /\ Last(f.digits) # "0"}

Holds(col, v) ==
  /\ v \in CASE col.data \in Floats -> FloatValues
             [] col.data \in Wides -> [1 .. WideBytes -> 0 .. ByteBase - 1]
             [] col.data \in Decimals \cup Instants -> Int
  /\ col.data \in Decimals \cup {"Decimal256", "DateTime64", "Time64"} => col.scale \in Nat

-----------------------------------------------------------------------------
(* Reading a text. *)

(* In front of the first of a mark, and behind it. *)
FirstOf(text, mark)   == Min({i \in DOMAIN text : text[i] = mark} \cup {Len(text) + 1})
BeforeThe(text, mark) == SubSeq(text, 1, FirstOf(text, mark) - 1)
BehindThe(text, mark) == SubSeq(text, FirstOf(text, mark) + 1, Len(text))

IsNegative(text) == Head(text) = "-"
Unsigned(text)   == IF IsNegative(text) THEN Tail(text) ELSE text

NumberIn(digits) ==
  LET upto[i \in 0 .. Len(digits)] ==
        IF i = 0 THEN 0 ELSE upto[i - 1] * 10 + (CHOOSE d \in 0 .. 9 : Digit[d + 1] = digits[i])
  IN upto[Len(digits)]

SignedIn(text) == IF IsNegative(text) THEN -NumberIn(Tail(text)) ELSE NumberIn(text)

(* Ticks of 10^-scale behind a number of something; digits left out are    *)
(* zeros.                                                                  *)
TicksIn(text, scale) ==
  LET frac == BehindThe(text, ".") IN NumberIn(frac \o Zeros(scale - Len(frac)))

DecimalIn(text, scale) == NumberIn(BeforeThe(text, ".")) * Power10[scale] + TicksIn(text, scale)

(* Days since 1970 of a date, and whether there is such a date. *)
Leaps(y) == y \div 4 - y \div 100 + y \div 400
Leap(y)  == Leaps(y) - Leaps(y - 1)

DaysBefore(month, year) ==
  <<0, 31, 59, 90, 120, 151, 181, 212, 243, 273, 304, 334, 365>>[month]
  + (IF month > 2 THEN Leap(year) ELSE 0)

DayNumber(c) ==
  365 * (c.y - 1970) + Leaps(c.y - 1) - Leaps(1969) + DaysBefore(c.m, c.y) + c.d - 1

IsDate(c) == c.m \in 1 .. 12 /\ c.d \in 1 .. DaysBefore(c.m + 1, c.y) - DaysBefore(c.m, c.y)

DateIn(text) ==
  LET date == Unsigned(text)
      rest == BehindThe(date, "-")
      year == NumberIn(BeforeThe(date, "-"))
  IN [y |-> IF IsNegative(text) THEN -year ELSE year,
      m |-> NumberIn(BeforeThe(rest, "-")), d |-> NumberIn(BehindThe(rest, "-"))]

ClockIn(text) ==
  LET rest == BehindThe(text, ":")
  IN [h |-> NumberIn(BeforeThe(text, ":")), m |-> NumberIn(BeforeThe(rest, ":")),
      s |-> NumberIn(BehindThe(rest, ":"))]

SecondsIn(text) ==
  LET clock == ClockIn(text) IN clock.h * 3600 + clock.m * 60 + clock.s

(* Digits and exponent of a float, whichever way it is written. *)
FloatIn(text) ==
  LET man   == BeforeThe(text, "e")
      shift == IF man = text THEN 0 ELSE SignedIn(BehindThe(text, "e"))
      whole == BeforeThe(man, ".")
      all   == whole \o BehindThe(man, ".")
      first == Min({i \in DOMAIN all : all[i] # "0"} \cup {Len(all)})
      kept  == TrimZeros(SubSeq(all, first, Len(all)))
  IN IF kept = <<>> THEN [digits |-> <<"0">>, exp |-> 0]
     ELSE [digits |-> kept, exp |-> Len(whole) - first + shift]

(* The number that bytes are, without a sign and in two's complement. *)
BytePower[n \in Nat] == IF n = 0 THEN 1 ELSE ByteBase * BytePower[n - 1]

UnsignedOf(le) ==
  LET low[i \in 0 .. WideBytes] == IF i = 0 THEN 0 ELSE low[i - 1] + le[i] * BytePower[i - 1]
  IN low[WideBytes]

SignedOf(le) ==
  UnsignedOf(le) - (IF le[WideBytes] >= ByteBase \div 2 THEN BytePower[WideBytes] ELSE 0)

(* The text says the value: every digit of it, and its sign even if the    *)
(* digits are zeros.  A clock shows no more than its cap.                  *)
SaysDecimal(text, scale, v) ==
  DecimalIn(Unsigned(text), scale) = Magnitude(v) /\ IsNegative(text) = (v < 0)

SaysDate(text, days) == IsDate(DateIn(text)) /\ DayNumber(DateIn(text)) = days

SaysInstant(text, scale, v) ==
  LET date  == BeforeThe(text, " ")
      clock == BehindThe(text, " ")
  IN /\ IsDate(DateIn(date)) /\ SecondsIn(BeforeThe(clock, ".")) < SecondsPerDay
     /\ (DayNumber(DateIn(date)) * SecondsPerDay + SecondsIn(BeforeThe(clock, "."))) * Power10[scale]
          + TicksIn(clock, scale) = v

SaysTime(text, scale, v) ==
  LET clock == Unsigned(text)
      all   == SecondsIn(BeforeThe(clock, ".")) * Power10[scale] + TicksIn(clock, scale)
  IN /\ IsNegative(text) = (v < 0)
     /\ all = IF Magnitude(v) >= (TimeCap + 1) * Power10[scale] THEN TimeCap * Power10[scale]
              ELSE Magnitude(v)

SaysFloat(text, f) ==
  f.digits \notin NotANumber =>
    /\ FloatIn(Unsigned(text)) = [digits |-> f.digits, exp |-> f.exp]
    /\ IsNegative(text) = f.neg

SaysItsValue(col, v) ==
  LET text == NumberText(col, v)
  IN CASE col.data \in Floats -> SaysFloat(text, v)
       [] col.data \in Decimals -> SaysDecimal(text, col.scale, v)
       [] col.data = "Int256" -> SaysDecimal(text, 0, SignedOf(v))
       [] col.data = "Uint256" -> SaysDecimal(text, 0, UnsignedOf(v))
       [] col.data = "Decimal256" -> SaysDecimal(text, col.scale, SignedOf(v))
       [] col.data \in {"Date", "Date32"} -> SaysDate(text, v)
       [] col.data = "DateTime" -> SaysInstant(text, 0, v)
       [] col.data = "DateTime64" -> SaysInstant(text, col.scale, v)
       [] col.data = "Time" -> SaysTime(text, 0, v)
       [] col.data = "Time64" -> SaysTime(text, col.scale, v)
=============================================================================
