-------------------------------- MODULE Wire --------------------------------
(***************************************************************************)
(* Reading and writing of values in a stream (src/proto/wire.rs).  A       *)
(* stream is a sequence of units, each as many bytes wide as it was        *)
(* written; the reader says how wide it takes the next one.  A unit that   *)
(* came from elsewhere has whatever width it is read with.                 *)
(***************************************************************************)
EXTENDS Naturals, Integers, Sequences, SequencesExt, FiniteSetsExt

AnyWidth == 99 \* of the width the reader takes
VarUInt == 0   \* where the bytes of it do not matter
Text == 98     \* the bytes of a string

Unit(w, v)    == [w |-> w, v |-> v]
Units(w, vs)  == [i \in DOMAIN vs |-> Unit(w, vs[i])]

-----------------------------------------------------------------------------
(* What reading yields: a value and what is left of the stream, or why     *)
(* there is none.                                                          *)

Nil              == [data |-> "none"]
Ok(value, rest)  == [status |-> "ok", value |-> value, rest |-> rest]
Stop(status)     == [status |-> status, value |-> Nil, rest |-> <<>>]
Error            == Stop("error")

(* ? : go on with a value that is there. *)
Then(result, F(_, _)) ==
  IF result.status = "ok" THEN F(result.value, result.rest) ELSE result

ThenIf(holds, result) == IF holds THEN result ELSE Error

(* ? on a parser's result, a set that is empty if it failed. *)
Parsed(result, F(_)) == IF result = {} THEN Error ELSE F(CHOOSE x \in result : TRUE)

(* A loop of n readings, the i-th by D(i, .). *)
InTurn(n, s, D(_, _)) ==
  FoldLeft(LAMBDA sofar, i :
             Then(sofar, LAMBDA done, at :
               Then(D(i, at), LAMBDA x, rest : Ok(Append(done, x), rest))),
           Ok(<<>>, s), [i \in 1 .. n |-> i])

(* A loop of rounds, each of them a reading, until one says it is over.    *)
(* Every round takes something of the stream.                              *)
Goes(sofar) == [over |-> FALSE, sofar |-> sofar]
Ends(sofar) == [over |-> TRUE, sofar |-> sofar]

Repeat(s, start, Round(_, _)) ==
  LET after[n \in 0 .. Len(s) + 1] ==
        IF n = 0 THEN Ok(Goes(start), s)
        ELSE Then(after[n - 1], LAMBDA x, at : IF x.over THEN Ok(x, at) ELSE Round(x.sofar, at))
  IN Then(after[Len(s) + 1], LAMBDA x, rest : Ok(x.sofar, rest))

(* n reads in a row, each w wide: the values.  "eof" is a reader waiting;  *)
(* a unit written in another width puts everything behind it out of place. *)
Read(n, w, s) ==
  IF Len(s) < n THEN Stop("eof")
  ELSE IF \E i \in 1 .. n : s[i].w \notin {w, AnyWidth} THEN Stop("misaligned")
  ELSE Ok([i \in 1 .. n |-> s[i].v], SubSeq(s, n + 1, Len(s)))

Read1(w, s) == Then(Read(1, w, s), LAMBDA vs, rest : Ok(vs[1], rest))

-----------------------------------------------------------------------------
(* What writing yields: the units written, and whether all there was to.   *)

Written(units) == [whole |-> TRUE, units |-> units]
Refused        == [whole |-> FALSE, units |-> <<>>]

Followed(a, b) ==
  IF a.whole THEN [whole |-> b.whole, units |-> a.units \o b.units] ELSE a

AllWritten(parts) ==
  LET upto[n \in 0 .. Len(parts)] ==
        IF n = 0 THEN Written(<<>>) ELSE Followed(upto[n - 1], parts[n])
  IN upto[Len(parts)]

-----------------------------------------------------------------------------
(* VarUInt by its bytes: g bits in each, from the lowest, and a flag on    *)
(* all but the last.  A word has w bits.                                   *)

(* 2^n *)
Power2[n \in Nat] == IF n = 0 THEN 1 ELSE 2 * Power2[n - 1]

write_varuint(g, w, x) ==
  LET n == Min({k \in 1 .. w : x < Power2[g * k]})
  IN Units(1, [i \in 1 .. n |-> ((x \div Power2[g * (i - 1)]) % Power2[g])
                                + (IF i < n THEN Power2[g] ELSE 0)])

(* The groups of the first n bytes, put together. *)
Assembled(g, s, n) ==
  LET sum[i \in 0 .. n] ==
        IF i = 0 THEN 0 ELSE sum[i - 1] + Power2[g * (i - 1)] * (s[i].v % Power2[g])
  IN sum[n]

(* Bug: no more bytes than a word has whole groups. *)
read_varuint_Bug(g, w, s) ==
  LET last == {i \in DOMAIN s : s[i].w # 1 \/ s[i].v < Power2[g] \/ i = w \div g}
      n == Min(last)
  IN IF last = {} THEN Stop("eof")
     ELSE IF s[n].w # 1 THEN Stop("misaligned")
     ELSE Ok(Assembled(g, s, n), SubSeq(s, n + 1, Len(s)))

(* Bits shifted out of the word are lost; a shift by a whole word or more  *)
(* panics in a debug build and lands anywhere in a release build.          *)
read_varuint(g, w, s) ==
  LET last == {i \in DOMAIN s : s[i].w # 1 \/ s[i].v < Power2[g]}
      n == Min(last)
  IN IF last = {} THEN Stop("eof")
     ELSE IF s[n].w # 1 THEN Stop("misaligned")
     ELSE IF g * (n - 1) >= w THEN Stop("panic")
     ELSE Ok(Assembled(g, s, n) % Power2[w], SubSeq(s, n + 1, Len(s)))
=============================================================================
