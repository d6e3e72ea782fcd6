------------------------------ MODULE ToonText ------------------------------
(***************************************************************************)
(* The lexical half of the TOON codec (toon.rs): how a key, a string or a  *)
(* number is written in a line, and how the line is taken apart again.     *)
(*                                                                         *)
(* A text is a sequence of characters, a character a string of length one. *)
(* The characters that some rule names are in Mark or Digit, every other   *)
(* one stands for a letter.  A number is the decimal text that f64's       *)
(* Display gives it, which is exact for the short decimals used here.      *)
(***************************************************************************)
EXTENDS Integers, SequencesExt

\* Named, because the provers cannot take these two literals.
Quote     == "\""
Backslash == "\\"

Digit == {"0", "1", "2", "3", "4", "5", "6", "7", "8", "9"}
Blank == {" ", "\t", "\n", "\r"}
Mark  == Blank \cup
         {",", "|", ":", Quote, Backslash, "[", "]", "{", "}", "-", "+", ".", "~"}

Letter(c) == c \notin Digit \cup Mark

Reserved == {<<"t", "r", "u", "e">>, <<"f", "a", "l", "s", "e">>, <<"n", "u", "l", "l">>}

\* What a parser returns instead of a result.
Fail == [error |-> TRUE]
Failed(r) == "error" \in DOMAIN r

\* What comes after x when it is no error: the ? of the code.
IfRead(x, Rest(_)) == IF Failed(x) THEN Fail ELSE Rest(x)
AllRead(xs, Rest(_)) == IF \E i \in DOMAIN xs : Failed(xs[i]) THEN Fail ELSE Rest(xs)

\* The first position of s, from i on, that passes the test; past the end
\* when there is none.
FirstAt(s, i, Test(_)) == Min({n \in i .. Len(s) : Test(s[n])} \cup {Len(s) + 1})

From(s, i)   == SubSeq(s, i, Len(s))
Before(s, i) == SubSeq(s, 1, i - 1)
IsBlank(c)   == c \in Blank
TrimStart(s) == From(s, FirstAt(s, 1, LAMBDA c : c \notin Blank))
TrimSpaces(s) == From(s, FirstAt(s, 1, LAMBDA c : c # " "))
TrimEnd(s)   == Reverse(TrimStart(Reverse(s)))
Trim(s)      == TrimEnd(TrimStart(s))

-----------------------------------------------------------------------------
(* Quotes. *)

\* Where a quote-aware pass is after a character.
Turn(mode, c) ==
  CASE mode = "escape"                   -> "quoted"
    [] mode = "quoted" /\ c = Backslash -> "escape"
    [] mode = "quoted" /\ c = Quote     -> "bare"
    [] mode = "bare" /\ c = Quote       -> "quoted"
    [] OTHER                            -> mode

\* Where it is after each number of characters of s.
Scan(s) ==
  LET mode[i \in 0 .. Len(s)] == IF i = 0 THEN "bare" ELSE Turn(mode[i - 1], s[i])
  IN mode

\* Where c stands in s outside quotes, c not being a quote, and where quoted
\* parts end.
Bare(s, c) ==
  LET mode == Scan(s)
  IN {i \in DOMAIN s : s[i] = c /\ mode[i - 1] = "bare"}
Closing(s) ==
  LET mode == Scan(s)
  IN {i \in DOMAIN s : mode[i - 1] = "quoted" /\ mode[i] = "bare"}

\* Seeded fault: a backslash is written as it is.
escape_quote_only(c) ==
  CASE c = Quote -> <<Backslash, c>>
    [] c = "\n"  -> <<Backslash, "n">>
    [] c = "\r"  -> <<Backslash, "r">>
    [] c = "\t"  -> <<Backslash, "t">>
    [] OTHER     -> <<c>>

Escape(c) ==
  CASE c \in {Backslash, Quote} -> <<Backslash, c>>
    [] c = "\n"                  -> <<Backslash, "n">>
    [] c = "\r"                  -> <<Backslash, "r">>
    [] c = "\t"                  -> <<Backslash, "t">>
    [] OTHER                     -> <<c>>

quote_string(s) == <<Quote>> \o FlattenSeq([i \in 1 .. Len(s) |-> Escape(s[i])]) \o <<Quote>>

\* The characters an escape stands for; none when it is not one.
EscapeMeans(c) ==
  CASE c \in {Backslash, Quote} -> <<c>>
    [] c = "n" -> <<"\n">> [] c = "r" -> <<"\r">> [] c = "t" -> <<"\t">>
    [] OTHER -> <<>>

\* What the character of s at i, in a quoted part, adds to its text.
Meaning(s, i) ==
  IF Scan(s)[i - 1] = "escape" THEN EscapeMeans(s[i])
  ELSE IF s[i] = Backslash THEN <<>> ELSE <<s[i]>>

\* The quoted string s begins with, and the position of its closing quote.
parse_quoted(s) ==
  LET UpTo(end) ==
        IF \E i \in 2 .. end - 1 : Scan(s)[i - 1] = "escape" /\ EscapeMeans(s[i]) = <<>> THEN Fail
        ELSE [text |-> FlattenSeq([i \in 1 .. end - 2 |-> Meaning(s, i + 1)]), end |-> end]
  IN IF Closing(s) = {} THEN Fail ELSE UpTo(Min(Closing(s)))

\* s cut at the positions of a set: a character makes the last part longer.
Longer(parts, c) == [parts EXCEPT ![Len(parts)] = Append(@, c)]

CutAt(s, cuts) ==
  LET parts[i \in 0 .. Len(s)] ==
        IF i = 0 THEN << <<>> >>
        ELSE IF i \in cuts THEN Append(parts[i - 1], <<>>)
        ELSE Longer(parts[i - 1], s[i])
  IN parts[Len(s)]

split_delimited(s, delim) == CutAt(s, Bare(s, delim))

\* The cells of a row, or the keys of a path.
Joined(texts, delim) ==
  FlattenSeq([i \in 1 .. Len(texts) |-> (IF i = 1 THEN <<>> ELSE <<delim>>) \o texts[i]])

\* A line among the rows of a table that is a key-value line.
is_row_terminator(s, delim) ==
  LET colons == Bare(s, ":")
      delims == Bare(s, delim)
  IN colons # {} /\ (delims = {} \/ Min(colons) < Min(delims))

-----------------------------------------------------------------------------
(* Numbers. *)

IsDigits(s)  == s # <<>> /\ ToSet(s) \subseteq Digit
IsDecimal(s) == \/ IsDigits(s)
                \/ \E i \in DOMAIN s :
                     s[i] = "." /\ IsDigits(Before(s, i)) /\ IsDigits(From(s, i + 1))
IsExponent(s) == IsDigits(s) \/ (s # <<>> /\ s[1] \in {"+", "-"} /\ IsDigits(Tail(s)))

Unsigned(s) == IF s # <<>> /\ s[1] = "-" THEN Tail(s) ELSE s

\* The texts is_leading_zero_decimal adds in needs_quoting are among these.
looks_numeric(s) ==
  LET u == Unsigned(s)
  IN \/ IsDecimal(u)
     \/ \E i \in DOMAIN u :
          u[i] \in {"e", "E"} /\ IsDecimal(Before(u, i)) /\ IsExponent(From(u, i + 1))

is_decodable_number(s) ==
  LET u == Unsigned(s)
  IN looks_numeric(s) /\ ~(Len(u) > 1 /\ u[1] = "0" /\ u[2] \in Digit)

Cipher  == [n \in 0 .. 9 |-> <<"0", "1", "2", "3", "4", "5", "6", "7", "8", "9">>[n + 1]]
DigitOf == [c \in Digit |-> CHOOSE n \in 0 .. 9 : Cipher[n] = c]

\* The number that digits stand for, and the digits of a number.
Numeral(s) ==
  LET value[i \in 0 .. Len(s)] == IF i = 0 THEN 0 ELSE 10 * value[i - 1] + DigitOf[s[i]]
  IN value[Len(s)]
Decimal(n) ==
  LET rest[i \in 0 .. n + 1] == IF i = 0 THEN n ELSE rest[i - 1] \div 10
      size == Min({i \in 1 .. n + 1 : rest[i] = 0})
  IN [i \in 1 .. size |-> Cipher[rest[size - i] % 10]]
Zeros(n) == [i \in 1 .. n |-> "0"]

\* s without the characters c it ends with.
TrimLast(s, c) ==
  Before(s, Max({i \in DOMAIN s : s[i] # c} \cup {0}) + 1)

\* Seeded fault: whole numbers lose their zeros as well.
strip_all_zeros(s) == TrimLast(TrimLast(s, "0"), ".")

strip_trailing_zeros(s) ==
  IF "." \notin ToSet(s) THEN s ELSE TrimLast(TrimLast(s, "0"), ".")

\* A mantissa with its point moved by an exponent, without leading zeros.
expand_exponent(mant, exp) ==
  LET Placed(digs, point) ==
        LET all   == Zeros(1 - point) \o digs \o Zeros(point - Len(digs))
            size  == IF point > 0 THEN point ELSE 1 \* digits before the point
            first == FirstAt(all, 1, LAMBDA c : c # "0")
            whole == SubSeq(all, Min({first, size}), size)
        IN IF size = Len(all) THEN whole ELSE whole \o <<".">> \o From(all, size + 1)
      Dotted(dot) == Placed(Before(mant, dot) \o From(mant, dot + 1), dot - 1 + exp)
  IN Dotted(FirstAt(mant, 1, LAMBDA c : c = "."))

\* The plain decimal form of a number: no exponent, no needless zeros.  The
\* code starts from the double it has made of the token, this from the token, in
\* exact decimals: they are the same where a double gives back the digits it was
\* read from.  What the code writes for a double that is not finite is left
\* out: 1e400 is read as a number and written as null.
canonical_number(s) ==
  LET Power(power) ==
        CASE power = <<>>                   -> 0
          [] power # <<>> /\ power[1] = "-" -> -Numeral(Tail(power))
          [] power # <<>> /\ power[1] = "+" -> Numeral(Tail(power))
          [] OTHER                          -> Numeral(power)
      Sign == IF s[1] = "-" THEN <<"-">> ELSE <<>>
      Form(u, e) ==
        IF ToSet(Before(u, e)) \subseteq {"0", "."} THEN <<"0">>
        ELSE Sign \o strip_trailing_zeros(expand_exponent(Before(u, e), Power(From(u, e + 1))))
  IN Form(Unsigned(s), FirstAt(Unsigned(s), 1, LAMBDA c : c \in {"e", "E"}))

-----------------------------------------------------------------------------
(* Values without structure. *)

Str(s) == [kind |-> "string", text |-> s]
Num(s) == [kind |-> "number", text |-> s]
Lit(s) == [kind |-> "literal", text |-> s] \* null, true and false

is_primitive(v) == v.kind \in {"string", "number", "literal"}

\* Seeded fault: a string that reads like a number is not quoted.
needs_quoting_no_numbers(s, delim) ==
  \/ s = <<>> \/ IsBlank(s[1]) \/ IsBlank(Last(s))
  \/ s \in Reserved
  \/ \E i \in DOMAIN s : s[i] \in {":", Quote, Backslash, "[", "]", "{", "}", "\n", "\r", "\t", delim}
  \/ s[1] = "-"

needs_quoting(s, delim) ==
  \/ s = <<>> \/ IsBlank(s[1]) \/ IsBlank(Last(s))
  \/ s \in Reserved \/ looks_numeric(s)
  \/ \E i \in DOMAIN s : s[i] \in {":", Quote, Backslash, "[", "]", "{", "}", "\n", "\r", "\t", delim}
  \/ s[1] = "-"

encode_primitive(v, delim) ==
  IF v.kind = "string" /\ needs_quoting(v.text, delim) THEN quote_string(v.text) ELSE v.text

\* A text that is one quoted string.
WholeQuoted(s) ==
  IfRead(parse_quoted(s), LAMBDA q : IF q.end # Len(s) THEN Fail ELSE Str(q.text))

\* Seeded fault: the literals are read as strings.
parse_without_literals(token) ==
  LET Token(t) ==
        CASE t = <<>>                 -> Str(<<>>)
          [] t # <<>> /\ t[1] = Quote -> WholeQuoted(t)
          [] is_decodable_number(t)   -> Num(canonical_number(t))
          [] OTHER                    -> Str(t)
  IN Token(Trim(token))

parse_primitive_token(token) ==
  LET Token(t) ==
        CASE t = <<>>                 -> Str(<<>>)
          [] t # <<>> /\ t[1] = Quote -> WholeQuoted(t)
          [] t \in Reserved           -> Lit(t)
          [] is_decodable_number(t)   -> Num(canonical_number(t))
          [] OTHER                    -> Str(t)
  IN Token(Trim(token))

-----------------------------------------------------------------------------
(* Keys and array headers. *)

is_identifier_segment(s) ==
  s # <<>> /\ Letter(s[1]) /\ \A i \in DOMAIN s : Letter(s[i]) \/ s[i] \in Digit

is_unquoted_key(s) ==
  s # <<>> /\ Letter(s[1]) /\ \A i \in DOMAIN s : Letter(s[i]) \/ s[i] \in Digit \cup {"."}

encode_key(s) == IF is_unquoted_key(s) THEN s ELSE quote_string(s)

\* A key, its quotedness and what follows the colon.
parse_key(s) ==
  LET UpTo(colon) ==
        IF colon > Len(s) THEN Fail
        ELSE [key |-> TrimEnd(Before(s, colon)), quoted |-> FALSE, rest |-> From(s, colon + 1)]
  IN IF s[1] # Quote THEN UpTo(FirstAt(s, 1, LAMBDA c : c = ":"))
     ELSE IfRead(parse_quoted(s),
       LAMBDA q : IF q.end = Len(s) \/ s[q.end + 1] # ":" THEN Fail
                  ELSE [key |-> q.text, quoted |-> TRUE, rest |-> From(s, q.end + 2)])

is_key_value_line(s) ==
  LET q == parse_quoted(s)
  IN s # <<>> /\ IF s[1] = Quote THEN ~Failed(q) /\ q.end < Len(s) /\ s[q.end + 1] = ":"
                 ELSE Contains(s, ":")

\* The key before a bracket, and the place of the bracket.
parse_optional_key_prefix(s) ==
  LET q       == parse_quoted(s)
      bracket == FirstAt(s, 1, LAMBDA c : c = "[")
      none    == [keyed |-> FALSE, quoted |-> FALSE, key |-> <<>>, at |-> 1]
  IN IF s = <<>> THEN none
     ELSE IF s[1] = Quote
       THEN IF Failed(q) THEN Fail
            ELSE [keyed |-> TRUE, quoted |-> TRUE, key |-> q.text, at |-> q.end + 1]
     ELSE IF bracket > Len(s) \/ ~is_unquoted_key(Before(s, bracket)) THEN none
     ELSE [keyed |-> TRUE, quoted |-> FALSE, key |-> Before(s, bracket), at |-> bracket]

\* key[N<delim?>]{fields}?:
write_header(key, n, delim, fields, tabular) ==
  LET names == Joined([i \in 1 .. Len(fields) |-> encode_key(fields[i])], delim)
  IN key \o <<"[">> \o Decimal(n) \o (IF delim = "," THEN <<>> ELSE <<delim>>) \o <<"]">>
     \o (IF tabular THEN <<"{">> \o names \o <<"}">> ELSE <<>>)
     \o <<":">>

parse_field_names(s, delim) ==
  LET Name(p) == IF p # <<>> /\ p[1] = Quote THEN WholeQuoted(p) ELSE Str(p)
      Names(parts) == AllRead([i \in DOMAIN parts |-> Name(Trim(parts[i]))],
                              LAMBDA read : [names |-> [i \in DOMAIN read |-> read[i].text]])
  IN Names(split_delimited(s, delim))

NotHeader == [header |-> FALSE]

\* The length of an array and its delimiter, out of what is in the brackets.
Bracketed(inner) ==
  IF inner # <<>> /\ Last(inner) \in {"\t", "|"}
    THEN [length |-> Front(inner), delim |-> Last(inner)]
    ELSE [length |-> inner, delim |-> ","]

\* The columns in braces that s may begin with, and what follows them.
ParseColumns(s, delim) ==
  LET UpTo(ends) ==
        IF ends = {} THEN NotHeader
        ELSE IfRead(parse_field_names(SubSeq(s, 2, Min(ends)), delim),
                    LAMBDA f : [tabular |-> TRUE, fields |-> f.names,
                                rest |-> TrimSpaces(From(s, Min(ends) + 2))])
  IN IF s = <<>> \/ s[1] # "{" THEN [tabular |-> FALSE, fields |-> <<>>, rest |-> s]
     ELSE UpTo(Bare(Tail(s), "}"))

\* What follows the key k of a header: brackets from k.at to close.
HeaderFrom(s, k, close, b) ==
  IF close > Len(s) \/ s[k.at] # "[" \/ ~IsDigits(b.length) THEN NotHeader
  ELSE IfRead(ParseColumns(TrimSpaces(From(s, close + 1)), b.delim),
    LAMBDA c :
      IF c = NotHeader THEN c
      ELSE IF c.rest = <<>> \/ c.rest[1] # ":" THEN NotHeader
      ELSE [header |-> TRUE, keyed |-> k.keyed, quoted |-> k.quoted, key |-> k.key,
            n |-> Numeral(b.length), delim |-> b.delim, tabular |-> c.tabular,
            fields |-> c.fields, inline |-> TrimStart(Tail(c.rest))])

parse_array_header(s) ==
  LET Closed(k, close) == HeaderFrom(s, k, close, Bracketed(SubSeq(s, k.at + 1, close - 1)))
  IN IfRead(parse_optional_key_prefix(s),
            LAMBDA k : Closed(k, FirstAt(s, k.at + 1, LAMBDA c : c = "]")))
=============================================================================
