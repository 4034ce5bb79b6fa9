------------------------------ MODULE EdgeTools ------------------------------
(***************************************************************************)
(* The edge deployment's tools, checked against reference definitions:     *)
(* the arithmetic parser against the grammar written above it, Base64      *)
(* against its inverse, the ISO 8601 date against the calendar, the JSON   *)
(* printer against a reader, and the text operations.                      *)
(*                                                                         *)
(* An input is built one symbol at a time, so every input over an alphabet *)
(* up to its length is met.  A number's value is left as its digits and a  *)
(* result as the tree of the operations performed: which operation applies *)
(* to what is the property, f64 arithmetic is not.                         *)
(***************************************************************************)
EXTENDS Naturals, Integers, Sequences, FiniteSets, SequencesExt

CONSTANTS
  Alphabets,        \* sets of characters expressions are made of
  MaxSymbols,       \* symbols of an expression
  MathDepth,        \* MAX_MATH_RECURSION_DEPTH, 100 in the code
  Bytes, MaxInputBytes,  \* byte values and length of Base64 inputs
  Letters, MaxText, \* characters and length of text_transform inputs
  Anchors, MaxDays, \* dates to start from, and days to walk from each
  Documents         \* JSON values given to json_format

VARIABLES tool, alphabet, input, day, date

toolVars == <<tool, alphabet, input, day, date>>

Error == [op |-> "error"]
Deep == [op |-> "deep"]
IsError(t) == t.op \in {"error", "deep"}

(***************************************************************************)
(* math_eval                                                               *)
(***************************************************************************)
Digits == {"0", "1"}
\* The functions: one argument (abs), at least one (min, max), none (pi, e), a
\* square root, a logarithm.
IdentChars == {"f", "m", "p", "s", "l"}
Blank == " "

\* The end of the longest run from i of characters in S, with at most `dots` dots.
RECURSIVE RunEnd(_, _, _, _)
RunEnd(s, i, S, dots) ==
  IF i > Len(s) THEN i - 1
  ELSE IF s[i] \in S THEN RunEnd(s, i + 1, S, dots)
  ELSE IF s[i] = "." /\ dots > 0 THEN RunEnd(s, i + 1, S, dots - 1)
  ELSE i - 1

\* tokenize_math: [ok, list] where a token is a kind and its text.
RECURSIVE Tokenize(_, _)
Tokenize(s, i) ==
  IF i > Len(s) THEN [ok |-> TRUE, list |-> <<>>]
  ELSE IF s[i] = Blank THEN Tokenize(s, i + 1)
  ELSE LET number == s[i] \in Digits \union {"."}
           ident == s[i] \in IdentChars
           end == IF number THEN RunEnd(s, i + 1, Digits, IF s[i] = "." THEN 0 ELSE 1)
                  ELSE IF ident THEN RunEnd(s, i + 1, Digits \union IdentChars, 0)
                  ELSE i
           text == SubSeq(s, i, end)
           rest == Tokenize(s, end + 1)
       IN  IF number /\ text = <<".">> THEN [ok |-> FALSE, list |-> <<>>]
           ELSE [ok |-> rest.ok,
                 list |-> <<[kind |-> IF number THEN "number" ELSE IF ident THEN "ident"
                                      ELSE s[i], text |-> text]>> \o rest.list]

Num(t) == [op |-> "number", text |-> t]
Apply(op, args) == [op |-> op, args |-> args]

\* The sign of a value, for the trees that fit in MaxSymbols as a divisor or as
\* the argument of a root or logarithm.
RECURSIVE Sign(_)
Sign(t) ==
  CASE t.op = "number" -> IF "1" \in Range(t.text) THEN 1 ELSE 0
    [] t.op = "neg" -> 0 - Sign(t.args[1])
    [] t.op = "f" -> Sign(t.args[1]) * Sign(t.args[1])
    [] t.op = "s" -> Sign(t.args[1])
    [] t.op = "^" -> IF Sign(t.args[1]) = 0 /\ Sign(t.args[2]) > 0 THEN 0 ELSE 1
    [] OTHER -> 1

\* The operations that have a value for these arguments: eval_math_func checks
\* their number, and the domain of roots and logarithms; parse_term the divisor.
Defined(op, args) ==
  CASE op = "f" -> Len(args) = 1
    [] op = "m" -> args # <<>>
    [] op = "p" -> args = <<>>
    [] op = "s" -> Len(args) = 1 /\ Sign(args[1]) >= 0
    [] op = "l" -> Len(args) = 1 /\ Sign(args[1]) > 0
    [] op \in {"/", "%"} -> Sign(args[2]) # 0
    [] OTHER -> op \in {"+", "-", "*", "^", "neg"}

\* eval_math_func; a name of several letters is unknown.
Name(text) == IF Len(text) = 1 THEN text[1] ELSE "unknown"
CallTool(name, args) ==
  IF Defined(Name(name), args) THEN Apply(Name(name), args) ELSE Error

\* Combining two results; the first error stops the parser.
Combine(op, l, r) ==
  IF Defined(op, <<l, r>>) THEN Apply(op, <<l, r>>) ELSE Error

Kind(toks, i) == IF i <= Len(toks) THEN toks[i].kind ELSE "end"
At(t, i) == [tree |-> t, pos |-> i]

Ops(level) == IF level = "expr" THEN {"+", "-"} ELSE {"*", "/", "%"}

\* parse_expr and parse_term are the same loop over two levels of operators.
RECURSIVE Binary(_, _, _, _), More(_, _, _, _, _), Power(_, _, _), Unary(_, _, _),
          Primary(_, _, _), Arguments(_, _, _, _)
Operand(level, toks, i, d) ==
  IF level = "expr" THEN Binary("term", toks, i, d) ELSE Power(toks, i, d)

Binary(level, toks, i, d) ==
  IF d > MathDepth THEN At(Deep, i)
  ELSE LET first == Operand(level, toks, i, d + 1)
       IN  IF IsError(first.tree) THEN first ELSE More(level, toks, first.tree, first.pos, d)

More(level, toks, acc, i, d) ==
  IF Kind(toks, i) \notin Ops(level) THEN At(acc, i)
  ELSE LET next == Operand(level, toks, i + 1, d + 1)
           t == Combine(Kind(toks, i), acc, next.tree)
       IN  IF IsError(next.tree) THEN next
           ELSE IF IsError(t) THEN At(t, next.pos)
           ELSE More(level, toks, t, next.pos, d)

Power(toks, i, d) ==
  IF d > MathDepth THEN At(Deep, i)
  ELSE LET base == Unary(toks, i, d + 1)
           exp == Power(toks, base.pos + 1, d + 1)
       IN  IF IsError(base.tree) \/ Kind(toks, base.pos) # "^" THEN base
           ELSE IF IsError(exp.tree) THEN exp
           ELSE At(Apply("^", <<base.tree, exp.tree>>), exp.pos)

Unary(toks, i, d) ==
  IF d > MathDepth THEN At(Deep, i)
  ELSE LET rest == Unary(toks, i + 1, d + 1)
       IN  IF Kind(toks, i) = "+" THEN rest
           ELSE IF Kind(toks, i) = "-"
           THEN IF IsError(rest.tree) THEN rest ELSE At(Apply("neg", <<rest.tree>>), rest.pos)
           ELSE Primary(toks, i, d + 1)

Primary(toks, i, d) ==
  IF d > MathDepth THEN At(Deep, i)
  ELSE LET inner == Binary("expr", toks, i + 1, d + 1)
           args == IF Kind(toks, i + 2) \in {")", "end"} THEN [ok |-> TRUE, list |-> <<>>, pos |-> i + 2, err |-> Error]
                   ELSE Arguments(toks, i + 2, <<>>, d + 1)
       IN  CASE Kind(toks, i) = "number" -> At(Num(toks[i].text), i + 1)
             [] Kind(toks, i) = "(" ->
                  IF IsError(inner.tree) THEN inner
                  ELSE IF Kind(toks, inner.pos) # ")" THEN At(Error, inner.pos)
                  ELSE At(inner.tree, inner.pos + 1)
             [] Kind(toks, i) = "ident" /\ Kind(toks, i + 1) = "(" ->
                  IF ~ args.ok THEN At(args.err, args.pos)
                  ELSE IF Kind(toks, args.pos) # ")" THEN At(Error, args.pos)
                  ELSE At(CallTool(toks[i].text, args.list), args.pos + 1)
             [] OTHER -> At(Error, i)

Arguments(toks, i, done, d) ==
  LET next == Binary("expr", toks, i, d)
  IN  IF IsError(next.tree) THEN [ok |-> FALSE, list |-> done, pos |-> next.pos, err |-> next.tree]
      ELSE IF Kind(toks, next.pos) = "," THEN Arguments(toks, next.pos + 1, Append(done, next.tree), d)
      ELSE [ok |-> TRUE, list |-> Append(done, next.tree), pos |-> next.pos, err |-> Error]

\* A mutant of EvalMath: what follows the expression is ignored.
EvalMathPrefix(s) ==
  LET toks == Tokenize(s, 1)
  IN  IF ~ toks.ok THEN Error ELSE Binary("expr", toks.list, 1, 0).tree

EvalMath(s) ==
  LET toks == Tokenize(s, 1)
      result == Binary("expr", toks.list, 1, 0)
  IN  IF ~ toks.ok THEN Error
      ELSE IF ~ IsError(result.tree) /\ result.pos <= Len(toks.list) THEN Error
      ELSE result.tree

-----------------------------------------------------------------------------
(***************************************************************************)
(* The grammar of the comment above parse_expr, read as sets of trees: a   *)
(* nonterminal over the tokens i..j derives a tree by splitting the span   *)
(* at an operator.  + - * / % take their left operand from their own       *)
(* level, ^ takes its right one.                                           *)
(***************************************************************************)
RECURSIVE Expr(_, _, _), Term(_, _, _), Pow(_, _, _), Una(_, _, _), Prim(_, _, _), ArgLists(_, _, _)
Joined(L, op, R) == {Apply(op, <<l, r>>) : l \in L, r \in R}

Expr(t, i, j) ==
  Term(t, i, j) \union
  UNION {Joined(Expr(t, i, k - 1), t[k].kind, Term(t, k + 1, j)) :
           k \in {k \in i + 1 .. j - 1 : t[k].kind \in {"+", "-"}}}

Term(t, i, j) ==
  Pow(t, i, j) \union
  UNION {Joined(Term(t, i, k - 1), t[k].kind, Pow(t, k + 1, j)) :
           k \in {k \in i + 1 .. j - 1 : t[k].kind \in {"*", "/", "%"}}}

Pow(t, i, j) ==
  Una(t, i, j) \union
  UNION {Joined(Una(t, i, k - 1), "^", Pow(t, k + 1, j)) :
           k \in {k \in i + 1 .. j - 1 : t[k].kind = "^"}}

Una(t, i, j) ==
  IF i > j THEN {}
  ELSE IF t[i].kind = "+" THEN Una(t, i + 1, j)
  ELSE IF t[i].kind = "-" THEN {Apply("neg", <<u>>) : u \in Una(t, i + 1, j)}
  ELSE Prim(t, i, j)

ArgLists(t, i, j) ==
  {<<e>> : e \in Expr(t, i, j)} \union
  UNION {{<<e>> \o rest : e \in Expr(t, i, k - 1), rest \in ArgLists(t, k + 1, j)} :
           k \in {k \in i + 1 .. j - 1 : t[k].kind = ","}}

Prim(t, i, j) ==
  CASE i = j /\ t[i].kind = "number" -> {Num(t[i].text)}
    [] i < j /\ t[i].kind = "(" /\ t[j].kind = ")" -> Expr(t, i + 1, j - 1)
    [] i + 1 < j /\ t[i].kind = "ident" /\ t[i + 1].kind = "(" /\ t[j].kind = ")" ->
         {Apply(Name(t[i].text), a) : a \in IF i + 2 = j THEN {<<>>} ELSE ArgLists(t, i + 2, j - 1)}
    [] OTHER -> {}

\* A tree all of whose operations have a value.
RECURSIVE Sound(_)
Sound(t) ==
  t.op = "number" \/ (Defined(t.op, t.args) /\ \A i \in DOMAIN t.args : Sound(t.args[i]))

Derived(s) ==
  LET toks == Tokenize(s, 1)
  IN  IF toks.ok THEN {t \in Expr(toks.list, 1, Len(toks.list)) : Sound(t)} ELSE {}

(***************************************************************************)
(* Base64                                                                  *)
(***************************************************************************)
Pad == 64      \* the character '='
Space == 65    \* white space

\* The four characters of a chunk of one to three bytes.
EncodeChunk(c) ==
  LET at(i) == IF i <= Len(c) THEN c[i] ELSE 0
      triple == at(1) * 65536 + at(2) * 256 + at(3)
  IN  <<triple \div 262144, (triple \div 4096) % 64,
        IF Len(c) > 1 THEN (triple \div 64) % 64 ELSE Pad,
        IF Len(c) > 2 THEN triple % 64 ELSE Pad>>

RECURSIVE Base64Encode(_)
Base64Encode(data) ==
  IF data = <<>> THEN <<>>
  ELSE EncodeChunk(SubSeq(data, 1, IF Len(data) < 3 THEN Len(data) ELSE 3)) \o Base64Encode(SubSeq(data, 4, Len(data)))

RECURSIVE TrimPad(_)
TrimPad(s) == IF s # <<>> /\ Last(s) = Pad THEN TrimPad(Front(s)) ELSE s

\* The loop of base64_decode; the bits above the 24th of buf are never read.
RECURSIVE DecodeText(_, _, _, _)
DecodeText(s, buf, bits, out) ==
  IF s = <<>> THEN out
  ELSE IF Head(s) = Space THEN DecodeText(Tail(s), buf, bits, out)
  ELSE IF Head(s) = Pad THEN <<-1>>
  ELSE LET b == (buf * 64 + Head(s)) % 16777216
       IN  IF bits + 6 >= 8
           THEN DecodeText(Tail(s), b, bits - 2, Append(out, (b \div 2 ^ (bits - 2)) % 256))
           ELSE DecodeText(Tail(s), b, bits + 6, out)

\* A mutant of Base64Decode: a byte is taken only with bits to spare.
RECURSIVE DecodeLate(_, _, _, _)
DecodeLate(s, buf, bits, out) ==
  IF s = <<>> THEN out
  ELSE LET b == (buf * 64 + Head(s)) % 16777216
       IN  IF bits + 6 > 8
           THEN DecodeLate(Tail(s), b, bits - 2, Append(out, (b \div 2 ^ (bits - 2)) % 256))
           ELSE DecodeLate(Tail(s), b, bits + 6, out)
Base64DecodeLate(s) == DecodeLate(TrimPad(s), 0, 0, <<>>)

Base64Decode(s) == DecodeText(TrimPad(s), 0, 0, <<>>)

(***************************************************************************)
(* timestamp                                                               *)
(***************************************************************************)
\* A mutant of Civil: the last day of the era is not corrected.
CivilEra(days) ==
  LET z == days + 719468
      era == z \div 146097
      doe == z - era * 146097
      yoe == (doe - doe \div 1460 + doe \div 36524) \div 365
      doy == doe - (365 * yoe + yoe \div 4 - yoe \div 100)
      mp == (5 * doy + 2) \div 153
      m == IF mp < 10 THEN mp + 3 ELSE mp - 9
  IN  <<yoe + era * 400 + (IF m <= 2 THEN 1 ELSE 0), m, doy - (153 * mp + 2) \div 5 + 1>>

\* format_epoch_to_iso8601: the date of a day since 1970-01-01.
Civil(days) ==
  LET z == days + 719468
      era == z \div 146097
      doe == z - era * 146097
      yoe == (doe - doe \div 1460 + doe \div 36524 - doe \div 146096) \div 365
      doy == doe - (365 * yoe + yoe \div 4 - yoe \div 100)
      mp == (5 * doy + 2) \div 153
      m == IF mp < 10 THEN mp + 3 ELSE mp - 9
  IN  <<yoe + era * 400 + (IF m <= 2 THEN 1 ELSE 0), m, doy - (153 * mp + 2) \div 5 + 1>>

\* The calendar, as the reference.
Leap(y) == y % 4 = 0 /\ (y % 100 # 0 \/ y % 400 = 0)
MonthDays(y, m) == IF m = 2 THEN IF Leap(y) THEN 29 ELSE 28
                   ELSE IF m \in {4, 6, 9, 11} THEN 30 ELSE 31
Tomorrow(d) ==
  IF d[3] < MonthDays(d[1], d[2]) THEN <<d[1], d[2], d[3] + 1>>
  ELSE IF d[2] < 12 THEN <<d[1], d[2] + 1, 1>> ELSE <<d[1] + 1, 1, 1>>

(***************************************************************************)
(* text_transform                                                          *)
(***************************************************************************)
\* A letter is "a", an upper-case one "A", "w" a two-byte letter, "-" and " ".
ByteLen(s) == FoldSeq(LAMBDA c, n : n + (IF c = "w" THEN 2 ELSE 1), 0, s)

Lower(s) == [i \in DOMAIN s |-> IF s[i] = "A" THEN "a" ELSE s[i]]
Dashed(s) == [i \in DOMAIN s |-> IF s[i] = "a" THEN "a" ELSE "-"]

\* split('-'), drop the empty parts and join them with one dash.
RECURSIVE JoinParts(_, _)
JoinParts(s, out) ==
  IF s = <<>> THEN out
  ELSE IF Head(s) = "-" THEN JoinParts(Tail(s), out)
  ELSE LET end == RunEnd(s, 1, {"a"}, 0)
           part == SubSeq(s, 1, end)
       IN  JoinParts(SubSeq(s, end + 1, Len(s)),
                     IF out = <<>> THEN part ELSE out \o <<"-">> \o part)

\* A mutant of Slug: the empty parts are kept.
SlugKeepsEmpty(s) == Dashed(Lower(s))
Slug(s) == JoinParts(Dashed(Lower(s)), <<>>)

Ellipsis == <<".", ".", ".">>
\* A mutant of Truncate: one byte over the limit passes.
TruncateLate(s, max) ==
  IF ByteLen(s) <= max + 1 THEN s
  ELSE SubSeq(s, 1, IF max < Len(s) THEN max ELSE Len(s)) \o Ellipsis
Truncate(s, max) ==
  IF ByteLen(s) <= max THEN s
  ELSE SubSeq(s, 1, IF max < Len(s) THEN max ELSE Len(s)) \o Ellipsis

(***************************************************************************)
(* json_format                                                             *)
(***************************************************************************)
\* A value is a string <<"s", characters>>, an array <<"a", values>> or an
\* object <<"o", pairs of key characters and a value>>; Q is the quote.
Q == "Q"
Escaped(s) == FlattenSeq([i \in DOMAIN s |-> IF s[i] = Q THEN <<"\\", Q>> ELSE <<s[i]>>])

RECURSIVE Separated(_)
Separated(parts) ==
  IF Len(parts) <= 1 THEN FlattenSeq(parts)
  ELSE Head(parts) \o <<",">> \o Separated(Tail(parts))

\* pretty_print_inner without its line breaks and indentation.
RECURSIVE Pretty(_)
Pretty(v) ==
  CASE v[1] = "s" -> <<Q>> \o Escaped(v[2]) \o <<Q>>
    [] v[1] = "a" -> <<"[">> \o Separated([i \in DOMAIN v[2] |-> Pretty(v[2][i])]) \o <<"]">>
    [] OTHER -> <<"{">> \o Separated([i \in DOMAIN v[2] |->
                   <<Q>> \o v[2][i][1] \o <<Q, ":">> \o Pretty(v[2][i][2])]) \o <<"}">>

\* A mutant of Pretty: strings are copied as they are.
RECURSIVE PrettyRaw(_)
PrettyRaw(v) ==
  CASE v[1] = "s" -> <<Q>> \o v[2] \o <<Q>>
    [] v[1] = "a" -> <<"[">> \o Separated([i \in DOMAIN v[2] |-> PrettyRaw(v[2][i])]) \o <<"]">>
    [] OTHER -> <<"{">> \o Separated([i \in DOMAIN v[2] |->
                   <<Q>> \o v[2][i][1] \o <<Q, ":">> \o PrettyRaw(v[2][i][2])]) \o <<"}">>
Formatted(v) == Pretty(v)

\* The reader of the reference: [ok, val, pos].
Fail == [ok |-> FALSE, val |-> <<>>, pos |-> 0]
RECURSIVE ReadChars(_, _, _), ReadValue(_, _), ReadItems(_, _, _), ReadPairs(_, _, _)
ReadChars(s, i, out) ==
  CASE i > Len(s) -> Fail
    [] i <= Len(s) /\ s[i] = Q -> [ok |-> TRUE, val |-> out, pos |-> i + 1]
    [] i < Len(s) /\ s[i] = "\\" -> ReadChars(s, i + 2, Append(out, s[i + 1]))
    [] OTHER -> ReadChars(s, i + 1, Append(out, s[i]))

ReadValue(s, i) ==
  LET chars == ReadChars(s, i + 1, <<>>)
  IN  CASE i > Len(s) -> Fail
        [] i <= Len(s) /\ s[i] = Q -> [chars EXCEPT !.val = <<"s", @>>]
        [] i < Len(s) /\ s[i] = "[" ->
             IF s[i + 1] = "]" THEN [ok |-> TRUE, val |-> <<"a", <<>>>>, pos |-> i + 2]
             ELSE ReadItems(s, i + 1, <<>>)
        [] i < Len(s) /\ s[i] = "{" ->
             IF s[i + 1] = "}" THEN [ok |-> TRUE, val |-> <<"o", <<>>>>, pos |-> i + 2]
             ELSE ReadPairs(s, i + 1, <<>>)
        [] OTHER -> Fail

ReadItems(s, i, out) ==
  LET item == ReadValue(s, i)
  IN  IF ~ item.ok \/ item.pos > Len(s) THEN Fail
      ELSE IF s[item.pos] = "," THEN ReadItems(s, item.pos + 1, Append(out, item.val))
      ELSE IF s[item.pos] = "]" THEN [ok |-> TRUE, val |-> <<"a", Append(out, item.val)>>, pos |-> item.pos + 1]
      ELSE Fail

ReadPairs(s, i, out) ==
  LET key == IF i <= Len(s) /\ s[i] = Q THEN ReadChars(s, i + 1, <<>>) ELSE Fail
      val == IF key.ok /\ key.pos <= Len(s) /\ s[key.pos] = ":" THEN ReadValue(s, key.pos + 1) ELSE Fail
      more == Append(out, <<key.val, val.val>>)
  IN  IF ~ val.ok \/ val.pos > Len(s) THEN Fail
      ELSE IF s[val.pos] = "," THEN ReadPairs(s, val.pos + 1, more)
      ELSE IF s[val.pos] = "}" THEN [ok |-> TRUE, val |-> <<"o", more>>, pos |-> val.pos + 1]
      ELSE Fail

-----------------------------------------------------------------------------
NoResult == <<>>

EdgeToolsInit ==
  \/ /\ tool = "math_eval" /\ alphabet \in Alphabets
     /\ input = NoResult /\ day = 0 /\ date = NoResult
  \/ /\ tool = "base64" /\ alphabet = Bytes
     /\ input = NoResult /\ day = 0 /\ date = NoResult
  \/ /\ tool = "text" /\ alphabet = Letters
     /\ input = NoResult /\ day = 0 /\ date = NoResult
  \/ /\ tool = "json" /\ alphabet = {}
     /\ input = <<"a", <<>>>> /\ day = 0 /\ date = NoResult
  \/ /\ tool = "timestamp" /\ alphabet = {}
     /\ input = NoResult
     /\ \E a \in Anchors : day = a[1] /\ date = <<a[2], a[3], a[4]>>

Longest == CASE tool = "math_eval" -> MaxSymbols [] tool = "base64" -> MaxInputBytes [] OTHER -> MaxText

\* One more symbol of the argument.
Extend ==
  /\ tool \in {"math_eval", "base64", "text"} /\ Len(input) < Longest
  /\ \E c \in alphabet : input' = Append(input, c)
  /\ UNCHANGED <<tool, alphabet, day, date>>

Document ==
  /\ tool = "json"
  /\ input' \in Documents
  /\ UNCHANGED <<tool, alphabet, day, date>>

NextDay ==
  /\ tool = "timestamp"
  /\ \E a \in Anchors : day \in a[1] .. a[1] + MaxDays - 1
  /\ day' = day + 1 /\ date' = Tomorrow(date)
  /\ UNCHANGED <<tool, alphabet, input>>

EdgeToolsNext == Extend \/ Document \/ NextDay
EdgeToolsSpec == EdgeToolsInit /\ [][EdgeToolsNext]_toolVars

-----------------------------------------------------------------------------
\* The evaluator performs exactly the operations of the one tree the grammar
\* derives, and fails where the grammar derives none or an operation of it has
\* no value: a divisor is zero, a root's argument negative, a logarithm's not
\* positive, or a function is unknown or has the wrong number of arguments.
\* Only the recursion limit refuses more (eval_math_expr, parse_expr ..
\* parse_primary, eval_math_func).
MathAsGrammar ==
  tool = "math_eval" =>
    LET t == EvalMath(input) IN
    IF t = Deep THEN TRUE
    ELSE Derived(input) = IF IsError(t) THEN {} ELSE {t}

\* What base64_encode writes, base64_decode reads back, at every length of the
\* last chunk, with white space put in anywhere before the padding.
Base64Returns ==
  tool = "base64" =>
    LET e == Base64Encode(input) IN
    /\ Base64Decode(e) = input
    /\ \A i \in 0 .. Len(TrimPad(e)) : Base64Decode(InsertAt(e, i + 1, Space)) = input

\* The date written is the calendar's, over leap days, centuries and the end of
\* the 400-year era (format_epoch_to_iso8601).
DateIsCalendar == tool = "timestamp" => Civil(day) = date

\* A slug is its own slug, and has no dash at its ends or next to another
\* (to_slug).
SlugStable ==
  tool = "text" =>
    LET s == Slug(input) IN
    /\ Slug(s) = s
    /\ \A i \in DOMAIN s : s[i] = "-" => i > 1 /\ i < Len(s) /\ s[i - 1] # "-"

\* A text within the limit is returned as it is, of a longer one a prefix of at
\* most that many characters, and behind it the mark, which the limit does not
\* count (tool_text_transform).
TruncateKeepsPrefix ==
  tool = "text" => \A max \in 0 .. MaxText :
    LET t == Truncate(input, max) IN
    IF ByteLen(input) <= max THEN t = input
    ELSE \E n \in 0 .. Len(input) : n <= max /\ t = SubSeq(input, 1, n) \o Ellipsis

\* No key of the value needs an escape.
RECURSIVE PlainKeys(_)
PlainKeys(v) ==
  CASE v[1] = "s" -> TRUE
    [] v[1] = "a" -> \A i \in DOMAIN v[2] : PlainKeys(v[2][i])
    [] OTHER -> \A i \in DOMAIN v[2] : Q \notin Range(v[2][i][1]) /\ PlainKeys(v[2][i][2])

\* What json_format prints reads back as the same value, if no key needs an
\* escape (pretty_print_inner).
FormattedReads ==
  tool = "json" /\ PlainKeys(input) =>
    LET r == ReadValue(Formatted(input), 1) IN r.ok /\ r.val = input

\* The edge tools agree with their references, on every input within the bounds.
ToolsExact ==
    /\ MathAsGrammar /\ Base64Returns /\ DateIsCalendar
    /\ SlugStable /\ TruncateKeepsPrefix /\ FormattedReads

-----------------------------------------------------------------------------
(* Claims that do not hold; the README's table says why. *)

\* Every value reads back: keys are printed without escapes.
FormattedReadsAlways ==
  tool = "json" => LET r == ReadValue(Formatted(input), 1) IN r.ok /\ r.val = input

\* "For truncate: maximum output length.": the mark comes on top of it.
TruncateWithinLimit ==
  tool = "text" => \A max \in 0 .. MaxText : ByteLen(Truncate(input, max)) <= max

\* An ellipsis means that something was cut.
EllipsisMeansCut ==
  tool = "text" => \A max \in 0 .. MaxText :
    Truncate(input, max) # input \o Ellipsis

\* Only the bytes of an encoding decode: every accepted text is one.
OnlyEncodingsDecode ==
  tool = "base64" /\ Range(input) \subseteq 0 .. 63 =>
    Base64Encode(Base64Decode(input)) = input
=============================================================================
