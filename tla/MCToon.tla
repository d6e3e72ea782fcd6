------------------------------- MODULE MCToon -------------------------------
(***************************************************************************)
(* The inputs of the codec.                                                *)
(*   Texts:     every text of at most two characters of Sign, every text   *)
(*              of three that may be a number, the reserved words, in each *)
(*              place a string or a key may have, under each delimiter.    *)
(*   Shapes:    every value of two levels over one primitive and the keys  *)
(*              a, b and a.b, with at most two members, and these again    *)
(*              inside arrays and objects; written plain and folded.       *)
(*   Documents: every document of at most three lines out of LineTexts,    *)
(*              which no encoder need have written.                        *)
(***************************************************************************)
EXTENDS Toon

Sign == {"x", "0", "1", "-", ".", " ", "\t", "\n", ",", "|", ":", "\"", "\\", "[", "]", "{", "}"}
OfNumber == {"0", "1", "-", ".", "e"}
Delimited == BoundedSeq({"x", ",", "|", "\t", ":", "\""}, 2)

Texts == BoundedSeq(Sign, 2) \cup [1 .. 3 -> OfNumber] \cup Reserved
         \cup {<<"1", "e", "+", "1">>, <<"1", "e", "-", "1">>, <<"-", "0", ".", "1">>, <<"x", ".", "x">>, <<"x", ":", " ", "x">>}

one == Num(<<"1">>)
a   == <<"a">>
b   == <<"b">>
ab  == <<"a", ".", "b">>
Obj1(k, v) == Object(<<Field(k, v)>>)
Obj2(k, v, l, w) == Object(<<Field(k, v), Field(l, w)>>)

\* s as a value and as a key.
Places(s) ==
  (IF s \in Reserved THEN {Lit(s), Array(<<Lit(s)>>)} ELSE {})
  \cup {Str(s), Obj1(a, Str(s)), Array(<<Str(s)>>), Array(<<one, Str(s)>>),
   Array(<<Obj1(a, Str(s))>>), Array(<<Obj2(a, one, b, Str(s))>>),
   Array(<<one, Obj2(a, Str(s), b, one)>>), Array(<<Str(s), Object(<<>>)>>),
   Obj1(s, one), Obj1(s, Obj1(a, one)), Obj1(s, Array(<<one>>)),
   Array(<<Obj2(a, one, s, one)>>), Array(<<one, Obj1(s, one)>>)}

Enc(delim, fold, depth) == [delimiter |-> delim, key_folding |-> fold, flatten_depth |-> depth]
Dec(strict, expand) == [strict |-> strict, expand_paths |-> expand]

Written(vs, encs, decs) ==
  {[value |-> v, enc |-> e, dec |-> d] : v \in vs, e \in encs, d \in decs}

PlacesOf(texts) == UNION {Places(s) : s \in texts}

\* Values with at most two members out of V.
Over(V) ==
  {Array(s) : s \in BoundedSeq(V, 2)}
  \cup {Object(<<>>)} \cup {Obj1(k, v) : k \in {a, b, ab}, v \in V}
  \cup {Obj2(k[1], v, k[2], w) : k \in {<<a, b>>, <<a, ab>>, <<ab, a>>}, v \in V, w \in V}

Inside(v) ==
  {v, Array(<<v>>), Array(<<one, v>>), Array(<<v, Array(<<>>)>>), Obj1(a, v), Obj2(b, one, a, v),
   Obj2(a, v, b, one), Array(<<one, Obj2(b, one, a, v)>>), Array(<<Obj2(a, v, b, one)>>)}

Shapes ==
  LET small == {one, Array(<<>>), Array(<<one>>), Object(<<>>), Obj1(a, one), Obj1(b, one),
                Obj2(a, one, b, one)}
  IN UNION {Inside(v) : v \in Over(small)} \cup {Array([i \in 1 .. n |-> one]) : n \in {9, 10, 11, 100}}

Plain  == Enc(",", FALSE, Unlimited)
Folded == Enc(",", TRUE, Unlimited)

AllHeld ==
  Written(PlacesOf(Texts), {Plain}, {Dec(TRUE, FALSE)})
  \cup Written(PlacesOf(Delimited), {Enc("\t", FALSE, Unlimited), Enc("|", FALSE, Unlimited)},
               {Dec(TRUE, FALSE)})
  \cup Written(Shapes, {Plain}, {Dec(TRUE, FALSE)})
  \cup Written(Shapes, {Folded}, {Dec(TRUE, TRUE), Dec(TRUE, FALSE)})

FewHeld == Written(Shapes, {Plain}, {Dec(TRUE, FALSE)})

\* The characters of a string.
Chars(str) == [i \in 1 .. Len(str) |-> SubSeq(str, i, i)]

LineTexts ==
  {Chars("a: 1"), Chars("b:"), Chars("- a: x"), Chars("- b:"), Chars("a[1]{a,b}:"), Chars("1,x"),
   Chars("- a[2]: 1.0,x"), Chars("b[1]:"), Chars("[1]:")}

Blanks == {Line(0, <<>>)}
LinesAt(depths) == {Line(d, t) : d \in depths, t \in LineTexts}

Documents ==
  LET later == Blanks \cup LinesAt(0 .. 2)
  IN {<<l>> : l \in Blanks \cup LinesAt({0})}
     \cup {<<l, m>> : l \in LinesAt({0}), m \in later}
     \cup {<<l, m, n>> : l \in LinesAt({0}), m \in later, n \in later}

\* The numbers of at most four characters whose exponent has one digit.
Numbers ==
  {s \in BoundedSeq(OfNumber, 4) :
     /\ is_decodable_number(s)
     /\ \A i \in DOMAIN s : s[i] = "e" => Len(s) - i = 1 \/ s[i + 1] = "-"}

Read(docs, decs) == {[lines |-> l, enc |-> Plain, dec |-> d] : l \in docs, d \in decs}

AllGiven ==
  Read(Documents, {Dec(TRUE, FALSE), Dec(FALSE, FALSE)})
  \cup Read({<<Line(0, s)>> : s \in Numbers}, {Dec(TRUE, FALSE)})
=============================================================================
