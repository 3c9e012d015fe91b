-------------------------------- MODULE Script --------------------------------
(***************************************************************************)
(* How ch-tsv takes a script apart (src/bin/ch-tsv.rs): into statements,   *)
(* with the errors that comments expect of them.  A script is a sequence   *)
(* of characters; the braces of a hint and what is in them are one         *)
(* character, and Hints says which errors it names.                        *)
(***************************************************************************)
EXTENDS Cut

CONSTANT Hints  \* a function from the hints to sequences of errors; <<>> for
                \* braces that are no hint or name no error

Blank == {" ", "nl"}

Trimmed(s) ==
  LET shown == {i \in DOMAIN s : s[i] \notin Blank}
  IN IF shown = {} THEN <<>> ELSE SubSeq(s, Min(shown), Max(shown))

-----------------------------------------------------------------------------
(* Where strings, identifiers and comments that start at i end: the first  *)
(* position behind them.                                                   *)

End(s) == Len(s) + 1

TwoAt(s, i, a, b) == i < Len(s) /\ s[i] = a /\ s[i + 1] = b

Behind(s, i, n) == Min({i + n, End(s)})

RECURSIVE skip_double_quoted(_, _), skip_single_quoted(_, _)
skip_double_quoted(s, i) ==
  LET at == Find(s, i + 1, LAMBDA j : s[j] \in {"\\", "dq"})
  IN IF at <= Len(s) /\ s[at] = "\\" THEN skip_double_quoted(s, Behind(s, at, 2) - 1)
     ELSE Behind(s, at, 1)

skip_single_quoted(s, i) ==
  LET at == Find(s, i + 1, LAMBDA j : s[j] \in {"\\", "'"})
  IN IF at <= Len(s) /\ (s[at] = "\\" \/ TwoAt(s, at, "'", "'"))
     THEN skip_single_quoted(s, Behind(s, at, 2) - 1)
     ELSE Behind(s, at, 1)

skip_backtick(s, i) == Behind(s, Find(s, i + 1, LAMBDA j : s[j] = "tick"), 1)

skip_line_comment(s, i) == Find(s, i + 2, LAMBDA j : s[j] = "nl")

skip_block_comment(s, i) == Behind(s, Find(s, i + 2, LAMBDA j : TwoAt(s, j, "*", "/")), 2)

(* The block comments of the two extractors: one that is not closed ends   *)
(* before the last character.                                              *)
BlockCommentEnd(s, i) ==
  LET close == Find(s, i + 2, LAMBDA j : TwoAt(s, j, "*", "/"))
  IN IF close <= Len(s) THEN close + 2 ELSE Max({i + 2, Len(s)})

SkipQuoted(s, i) ==
  CASE s[i] = "'" -> skip_single_quoted(s, i)
    [] s[i] = "dq" -> skip_double_quoted(s, i)
    [] s[i] = "tick" -> skip_backtick(s, i)
    [] OTHER -> i + 1

(* The semicolons from i on that end a statement. *)
RECURSIVE Semicolons(_, _)
Semicolons(s, i) ==
  IF i > Len(s) THEN {}
  ELSE LET next == CASE TwoAt(s, i, "-", "-") -> skip_line_comment(s, i)
                     [] TwoAt(s, i, "/", "*") -> skip_block_comment(s, i)
                     [] OTHER -> SkipQuoted(s, i)
       IN (IF s[i] = ";" THEN {i} ELSE {}) \cup Semicolons(s, next)

WithoutBlankEnd(pieces) == IF Trimmed(Last(pieces)) = <<>> THEN Front(pieces) ELSE pieces

split_statements(s) == WithoutBlankEnd(Pieces(s, Semicolons(s, 1)))

-----------------------------------------------------------------------------
(* Hints. *)

(* The first braces of a comment count. *)
parse_marker_comment(comment) ==
  LET found == SelectSeq(comment, LAMBDA c : c \in DOMAIN Hints)
  IN IF found = <<>> THEN <<>> ELSE Hints[Head(found)]

(* Behind a comment that starts at i, or i itself. *)
CommentEnd(s, i) ==
  CASE TwoAt(s, i, "-", "-") -> skip_line_comment(s, i)
    [] TwoAt(s, i, "/", "*") -> BlockCommentEnd(s, i)
    [] OTHER -> i

(* Blanks and comments in front: their hints, and the rest. *)
RECURSIVE extract_leading_markers(_)
LeadingFrom(s, from, end) ==
  IF end = from THEN [errors |-> <<>>, rest |-> SubSeq(s, from, Len(s))]
  ELSE [extract_leading_markers(SubSeq(s, end, Len(s)))
          EXCEPT !.errors = parse_marker_comment(SubSeq(s, from, end - 1)) \o @]

extract_leading_markers(s) ==
  LET from == Find(s, 1, LAMBDA i : s[i] \notin Blank)
  IN LeadingFrom(s, from, CommentEnd(s, from))

(* Line comments with a hint, anywhere: the hints, and the text without.   *)
RECURSIVE InlineFrom(_, _)
InlineStep(s, i, next) ==
  LET here  == SubSeq(s, i, next - 1)
      found == IF TwoAt(s, i, "-", "-") THEN parse_marker_comment(here) ELSE <<>>
      more  == InlineFrom(s, next)
  IN [errors |-> found \o more.errors,
      text |-> (IF found = <<>> THEN here ELSE <<>>) \o more.text]

InlineFrom(s, i) ==
  IF i > Len(s) THEN [errors |-> <<>>, text |-> <<>>]
  ELSE InlineStep(s, i, IF CommentEnd(s, i) # i THEN CommentEnd(s, i) ELSE SkipQuoted(s, i))

extract_inline_markers(s) == InlineFrom(s, 1)

Statement(text, errors) == [text |-> text, expected_errors |-> errors]

(* Bug: hints in front of a statement are the statement's own. *)
AddStatement_Bug(done, leading, inline) ==
  IF Trimmed(inline.text) = <<>> /\ inline.errors = <<>> THEN done
  ELSE Append(done, Statement(Trimmed(inline.text), leading \o inline.errors))

(* Hints in front of a statement, or of nothing, are the one before's.     *)
AddStatement(done, leading, inline) ==
  LET owned == IF done = <<>> THEN done
               ELSE [done EXCEPT ![Len(done)].expected_errors = @ \o leading]
  IN IF Trimmed(inline.text) = <<>> /\ inline.errors = <<>> THEN owned
     ELSE Append(owned, Statement(Trimmed(inline.text), inline.errors))

parse_statements_with_markers(sql) ==
  FoldLeft(LAMBDA done, raw :
             LET leading == extract_leading_markers(raw)
             IN AddStatement(done, leading.errors, extract_inline_markers(leading.rest)),
           <<>>, split_statements(sql))

-----------------------------------------------------------------------------
(* The same by what each character is, from left to right: in code, in a   *)
(* string or identifier, or in a comment.                                  *)

Mode(mode, c) ==
  LET code == CASE c = "'" -> "single" [] c = "dq" -> "double" [] c = "tick" -> "tick"
                [] c = "-" -> "dash" [] c = "/" -> "slash" [] OTHER -> "code"
  IN CASE mode = "dash" /\ c = "-" -> "line"
       [] mode = "slash" /\ c = "*" -> "block"
       [] mode = "slash" /\ c = "/" -> "slash"
       [] mode \in {"code", "dash", "slash"} -> code
       [] mode = "single" -> CASE c = "'" -> "code" [] c = "\\" -> "single\\" [] OTHER -> mode
       [] mode = "double" -> CASE c = "dq" -> "code" [] c = "\\" -> "double\\" [] OTHER -> mode
       [] mode = "single\\" -> "single"
       [] mode = "double\\" -> "double"
       [] mode = "tick" -> IF c = "tick" THEN "code" ELSE mode
       [] mode = "line" -> IF c = "nl" THEN "code" ELSE mode
       [] mode = "block" -> IF c = "*" THEN "star" ELSE mode
       [] mode = "star" -> CASE c = "*" -> "star" [] c = "/" -> "code" [] OTHER -> "block"

(* The mode behind each character. *)
Modes(s) ==
  LET m[i \in 0 .. Len(s)] == IF i = 0 THEN "code" ELSE Mode(m[i - 1], s[i])
  IN m

(* Every comment is closed by its line or by itself. *)
Closed(s) == Modes(s)[Len(s)] \notin {"block", "star"}

(* The comments: where they start and end, and in which way. *)
Comments(s) ==
  LET m == Modes(s)
      starts == {i \in 2 .. Len(s) : \/ m[i - 1] = "dash" /\ m[i] = "line"
                                     \/ m[i - 1] = "slash" /\ m[i] = "block"}
      line(i) == m[i] = "line"
      end(i) == IF line(i) THEN Min({j \in i .. Len(s) : s[j] = "nl"} \cup {End(s)}) - 1
                ELSE Min({j \in i .. Len(s) : m[j] = "code"} \cup {Len(s)})
  IN {[from |-> i - 1, to |-> end(i), line |-> line(i)] : i \in starts}

(* A statement is what is between semicolons in code and has more in it    *)
(* than blanks and comments.  A hint in a comment is of the last statement *)
(* that began before it; a block comment's counts only between statements. *)
AsWritten(s) ==
  LET m == Modes(s)
      comments == Comments(s)
      commented == UNION {c.from .. c.to : c \in comments}
      ends == {i \in DOMAIN s : s[i] = ";" /\ m[i] = "code" /\ i \notin commented}
      shown == {i \in DOMAIN s : s[i] \notin Blank /\ i \notin commented \cup ends}
      piece(i) == Cardinality({e \in ends : e < i})
      began == {i \in shown : ~\E j \in shown : j < i /\ piece(j) = piece(i)}
      first == Ascending(began)
      hint(c) == parse_marker_comment(SubSeq(s, c.from, c.to))
      inside(c) == \E b \in began : b < c.from /\ piece(b) = piece(c.from)
      counts(c) == hint(c) # <<>> /\ (c.line \/ ~inside(c))
      owner(c) == Cardinality({b \in began : b < c.from})
      cut == UNION {c.from .. c.to : c \in {d \in comments : hint(d) # <<>> /\ d.line /\ inside(d)}}
      text(k) == LET mine == {i \in first[k] .. Len(s) : piece(i) = piece(first[k]) /\ i \notin cut \cup ends}
                     order == Ascending(mine)
                 IN Trimmed([n \in DOMAIN order |-> s[order[n]]])
      hints(k) == SetToSortSeq({c \in comments : counts(c) /\ owner(c) = k},
                               LAMBDA a, b : a.from < b.from)
  IN [k \in DOMAIN first |->
       Statement(text(k), FlattenSeq([n \in DOMAIN hints(k) |-> hint(hints(k)[n])]))]
=============================================================================
