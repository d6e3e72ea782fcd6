--------------------------- MODULE ToonText_proofs --------------------------
(***************************************************************************)
(* Proofs about ToonText, for texts of any length: what is written for a   *)
(* value without structure, a key, a row of cells, a field or an array's   *)
(* header is read back as it was, these lines are told apart, and a number *)
(* keeps its value when it is given another form.  Of the code, what is    *)
(* said of a number holds when a double gives back its digits: one of up   *)
(* to 15 that count, in a double's range.                                  *)
(***************************************************************************)
EXTENDS ToonText, SequenceTheorems, WellFoundedInduction, TLAPS

\* A character here is any string; Mark and Digit name those that matter.
\* (The ones listed are strings too, but no backend can tell of a literal.)
Character == STRING \cup Digit \cup Mark \cup {"a", "e", "f", "l", "n", "r", "s", "t", "u"}
Text  == Seq(Character)
Mode  == {"bare", "quoted", "escape"}
Delim == {",", "\t", "|"}

\* A text's size, its characters and the modes of a pass over it.
Size(s)      == Len(s)
Char(s, i)   == s[i]
ModeAt(s, i) == Scan(s)[i]

\* What is a character.
LEMMA Named ==
  /\ Digit \subseteq Character /\ Mark \subseteq Character
  /\ {Quote, Backslash, "\n", "\r", "\t", " ", ":", ",", "|", "[", "]", "{", "}", "-", "."} \subseteq Mark
  /\ {"a", "e", "f", "l", "n", "r", "s", "t", "u"} \subseteq Character
  BY DEF Character, Mark, Blank

-----------------------------------------------------------------------------
(* Recursion and induction over the naturals, with sets for predicates. *)

\* Every set of naturals that is not empty has a least element.
LEMMA Least ==
  ASSUME NEW T \in SUBSET Nat, T # {}
  PROVE  \E m \in T : \A n \in T : m <= n
<1> DEFINE R == OpToRel(<, Nat)
<1>1. IsWellFoundedOn(R, Nat)  BY NatLessThanWellFounded
<1>2. \A m, n \in Nat : n < m => <<n, m>> \in R  BY DEF OpToRel
<1> HIDE DEF R
<1>3. PICK m \in T : \A n \in T : ~ (<<n, m>> \in R)  BY <1>1, WFMin
<1>4. \A n \in T : ~(n < m)  BY <1>2, <1>3
<1> QED  BY <1>4

\* A set that holds 0 and, with each number, the next holds them all.
LEMMA Induct ==
  ASSUME NEW T \in SUBSET Nat, 0 \in T, \A n \in T : n + 1 \in T
  PROVE  T = Nat
<1>1. SUFFICES ASSUME Nat \ T # {} PROVE FALSE  OBVIOUS
<1>2. PICK m \in Nat \ T : \A n \in Nat \ T : m <= n  BY <1>1, Least
<1>3. m - 1 \in T  BY <1>2
<1> QED  BY <1>2, <1>3

\* f begins with a and goes on by step up to n.
Steps(f, n, X, a, step) ==
  /\ f \in [0 .. n -> X]
  /\ f[0] = a /\ \A i \in 1 .. n : f[i] = step[i][f[i - 1]]

\* There is such a function.
LEMMA Recursion ==
  ASSUME NEW n \in Nat, NEW X, NEW a \in X, NEW step \in [1 .. n -> [X -> X]]
  PROVE  \E f : Steps(f, n, X, a, step)
<1> DEFINE T == {m \in Nat : m <= n => \E f : Steps(f, m, X, a, step)}
<1>1. 0 \in T
  <2> DEFINE f == [i \in 0 .. 0 |-> a]
  <2>1. Steps(f, 0, X, a, step)  BY DEF Steps
  <2> QED  BY <2>1
<1>2. ASSUME NEW m \in T PROVE m + 1 \in T
  <2>1. SUFFICES ASSUME m + 1 <= n PROVE \E f : Steps(f, m + 1, X, a, step)
    BY DEF T
  <2>2. PICK f : Steps(f, m, X, a, step)  BY <2>1
  <2> DEFINE g == [i \in 0 .. m + 1 |-> IF i = m + 1 THEN step[m + 1][f[m]] ELSE f[i]]
  <2>3. g \in [0 .. m + 1 -> X]  BY <2>1, <2>2 DEF Steps
  <2>4. \A i \in 1 .. m + 1 : g[i] = step[i][g[i - 1]]
    <3> TAKE i \in 1 .. m + 1
    <3>1. g[i - 1] = f[i - 1]  OBVIOUS
    <3>2. CASE i = m + 1  BY <3>1, <3>2
    <3>3. CASE i \in 1 .. m  BY <2>2, <3>1, <3>3 DEF Steps
    <3> QED  BY <3>2, <3>3
  <2>5. g[0] = a  BY <2>2 DEF Steps
  <2>6. Steps(g, m + 1, X, a, step)
    <3> HIDE DEF g
    <3> QED  BY <2>3, <2>4, <2>5 DEF Steps
  <2> HIDE DEF g
  <2> QED  BY <2>6
<1> HIDE DEF T
<1>3. n \in T  BY <1>1, <1>2, Induct DEF T
<1> QED  BY <1>3 DEF T

\* A place that f passes lies between two of its neighbours.
LEMMA Between ==
  ASSUME NEW n \in Nat, NEW f \in [0 .. n -> Nat], NEW p \in Nat, f[0] < p, p <= f[n]
  PROVE  \E k \in 0 .. n, m \in 1 .. n : m = k + 1 /\ f[k] < p /\ p <= f[m]
<1> DEFINE T == {k \in Nat : k <= n /\ p <= f[k]}
<1>1. n \in T  OBVIOUS
<1> HIDE DEF T
<1>2. PICK m \in T : \A k \in T : m <= k  BY <1>1, Least DEF T
<1>3. m \in Nat /\ m <= n /\ p <= f[m]  BY <1>2 DEF T
<1>4. m # 0  BY <1>3
<1>5. PICK k \in 0 .. n : m = k + 1 /\ m \in 1 .. n  BY <1>3, <1>4
<1>6. ~(k \in T)  BY <1>2, <1>3, <1>5
<1>7. f[k] < p  BY <1>5, <1>6 DEF T
<1> QED  BY <1>3, <1>5, <1>7

-----------------------------------------------------------------------------
(* What Scan computes. *)

\* A pass begins bare and turns with each character.
LEMMA ScanFacts ==
  ASSUME NEW s \in Text
  PROVE  /\ Scan(s) \in [0 .. Len(s) -> Mode] /\ Scan(s)[0] = "bare"
         /\ \A i \in 1 .. Len(s) : Scan(s)[i] = Turn(Scan(s)[i - 1], s[i])
<1> DEFINE Is(m) == m = [i \in 0 .. Len(s) |-> IF i = 0 THEN "bare" ELSE Turn(m[i - 1], s[i])]
           step == [i \in 1 .. Len(s) |-> [c \in Mode |-> Turn(c, s[i])]]
<1>1. Len(s) \in Nat  BY DEF Text
<1>2. step \in [1 .. Len(s) -> [Mode -> Mode]]  BY DEF Turn, Mode
<1>3. PICK f : Steps(f, Len(s), Mode, "bare", step)
  <2>1. "bare" \in Mode  BY DEF Mode
  <2> HIDE DEF step
  <2> QED  BY <1>1, <1>2, <2>1, Recursion
<1>4. ASSUME NEW i \in 1 .. Len(s) PROVE f[i] = Turn(f[i - 1], s[i])
  <2>1. i - 1 \in 0 .. Len(s) /\ f[i - 1] \in Mode  BY <1>1, <1>3 DEF Steps
  <2>2. \A c \in Mode : step[i][c] = Turn(c, s[i])  OBVIOUS
  <2> QED  BY <1>3, <2>1, <2>2 DEF Steps
<1>5. Is(f)
  <2>1. \A i \in 0 .. Len(s) : f[i] = IF i = 0 THEN "bare" ELSE Turn(f[i - 1], s[i])
    BY <1>1, <1>3, <1>4 DEF Steps
  <2>2. f = [i \in 0 .. Len(s) |-> f[i]]  BY <1>3 DEF Steps
  <2> QED  BY <2>1, <2>2
<1>6. Scan(s) = CHOOSE m : Is(m)  BY DEF Scan
<1> DEFINE m == Scan(s)
<1>7. Is(m)
  <2> HIDE DEF Is
  <2> QED  BY <1>5, <1>6
<1> HIDE DEF m
<1>8. m[0] = "bare" /\ \A i \in 1 .. Len(s) : m[i] = Turn(m[i - 1], s[i])
  BY <1>1, <1>7
<1>9. m \in [0 .. Len(s) -> Mode]
  <2> DEFINE T == {i \in Nat : i <= Len(s) => m[i] \in Mode}
  <2>1. 0 \in T  BY <1>8 DEF Mode
  <2>2. ASSUME NEW i \in T PROVE i + 1 \in T
    <3>1. SUFFICES ASSUME i + 1 <= Len(s) PROVE m[i + 1] \in Mode  OBVIOUS
    <3>2. m[i] \in Mode /\ m[i + 1] = Turn(m[i], s[i + 1])  BY <1>1, <1>8, <3>1
    <3> QED  BY <3>2 DEF Turn, Mode
  <2> HIDE DEF T
  <2>3. T = Nat  BY <2>1, <2>2, Induct DEF T
  <2>4. \A i \in 0 .. Len(s) : m[i] \in Mode  BY <2>3 DEF T
  <2> QED  BY <1>7, <2>4
<1> QED  BY <1>8, <1>9 DEF m

\* The same, said of Size, Char and ModeAt.
LEMMA ModeFacts ==
  ASSUME NEW s \in Text
  PROVE  /\ ModeAt(s, 0) = "bare" /\ \A i \in 0 .. Size(s) : ModeAt(s, i) \in Mode
         /\ \A k \in 0 .. Size(s), i \in 1 .. Size(s) :
              i = k + 1 => ModeAt(s, i) = Turn(ModeAt(s, k), Char(s, i))
<1>1. ASSUME NEW k \in 0 .. Len(s), NEW i \in 1 .. Len(s), i = k + 1
      PROVE  Scan(s)[i] = Turn(Scan(s)[k], s[i])
  <2>1. k = i - 1  BY <1>1
  <2> QED  BY <2>1, ScanFacts
<1> QED  BY <1>1, ScanFacts DEF ModeAt, Size, Char

-----------------------------------------------------------------------------
(* Texts put together. *)

\* A text has a size.
LEMMA SizeType ==
  ASSUME NEW s \in Text
  PROVE  Size(s) \in Nat
  BY DEF Text, Size

\* Of two texts put together.
LEMMA Concat ==
  ASSUME NEW s \in Text, NEW t \in Text
  PROVE  /\ s \o t \in Text /\ Size(s \o t) = Size(s) + Size(t)
         /\ Size(s) \in Nat /\ Size(t) \in Nat
         /\ \A i \in 1 .. Size(s) : Char(s \o t, i) = Char(s, i)
         /\ \A i \in 1 .. Size(t) : Char(s \o t, Size(s) + i) = Char(t, i)
  BY ConcatProperties DEF Text, Size, Char

\* Texts that agree in every character are the same.
LEMMA SameText ==
  ASSUME NEW s \in Text, NEW t \in Text, Size(s) = Size(t),
         \A i \in 1 .. Size(s) : Char(s, i) = Char(t, i)
  PROVE  s = t
  BY DEF Text, Size, Char

\* f is what has been put together after each of the texts.
Glued(f, seqs) ==
  /\ f \in [0 .. Len(seqs) -> Text]
  /\ f[0] = <<>>
  /\ \A k \in 0 .. Len(seqs), n \in 1 .. Len(seqs) : n = k + 1 => f[n] = f[k] \o seqs[n]

\* FlattenSeq puts its texts together one after the other.
LEMMA FlattenIsGlued ==
  ASSUME NEW seqs \in Seq(Text)
  PROVE  \E f : Glued(f, seqs) /\ FlattenSeq(seqs) = f[Len(seqs)]
<1> DEFINE n == Len(seqs)
           Is(m) == m = [i \in 1 .. n |-> IF i = 1 THEN seqs[i] ELSE m[i - 1] \o seqs[i]]
           step == [i \in 1 .. n |-> [t \in Text |-> t \o seqs[i]]]
<1>1. n \in Nat /\ \A i \in 1 .. n : seqs[i] \in Text  OBVIOUS
<1>2. step \in [1 .. n -> [Text -> Text]]  BY <1>1, Concat
<1>3. PICK f : Steps(f, n, Text, <<>>, step)
  <2>1. <<>> \in Text  BY DEF Text
  <2> HIDE DEF step, n
  <2> QED  BY <1>1, <1>2, <2>1, Recursion
<1>4. ASSUME NEW k \in 0 .. n, NEW i \in 1 .. n, i = k + 1
      PROVE  f[k] \in Text /\ f[i] = f[k] \o seqs[i]
  <2>1. k = i - 1 /\ f[k] \in Text  BY <1>1, <1>3, <1>4 DEF Steps
  <2>2. \A t \in Text : step[i][t] = t \o seqs[i]  OBVIOUS
  <2> QED  BY <1>3, <2>1, <2>2 DEF Steps
<1>5. Glued(f, seqs)  BY <1>3, <1>4 DEF Steps, Glued
<1> HIDE DEF step
<1>6. CASE n = 0
  <2>1. seqs = <<>>  BY <1>6
  <2> QED  BY <1>3, <1>5, <1>6, <2>1 DEF FlattenSeq, Steps
<1>7. CASE n # 0
  <2> DEFINE m == CHOOSE m : Is(m)
  <2>0. 0 \in 0 .. n /\ 1 \in 1 .. n /\ 1 = 0 + 1 /\ f[0] = <<>>
    BY <1>1, <1>3, <1>7 DEF Steps
  <2>1. f[1] = seqs[1]
    <3>1. f[1] = f[0] \o seqs[1]  BY <1>4, <2>0
    <3>2. seqs[1] \in Text  BY <1>1, <2>0
    <3>3. \A t \in Text : <<>> \o t = t  BY DEF Text
    <3> QED  BY <2>0, <3>1, <3>2, <3>3
  <2>2. \E g : Is(g)
    <3> DEFINE g == [i \in 1 .. n |-> f[i]]
    <3>1. ASSUME NEW i \in 1 .. n
          PROVE  f[i] = IF i = 1 THEN seqs[i] ELSE g[i - 1] \o seqs[i]
      <4>1. CASE i = 1  BY <2>1, <4>1
      <4>2. CASE i # 1
        <5>1. PICK k \in 0 .. n : k = i - 1 /\ k \in 1 .. n  BY <1>1, <4>2
        <5>2. g[k] = f[k]  BY <5>1
        <5>3. i = k + 1  BY <1>1, <5>1
        <5>4. f[i] = f[k] \o seqs[i]  BY <1>4, <5>3, Zenon
        <5> QED  BY <4>2, <5>1, <5>2, <5>4
      <4> QED  BY <4>1, <4>2
    <3>2. Is(g)
      <4> DEFINE h(i) == IF i = 1 THEN seqs[i] ELSE g[i - 1] \o seqs[i]
      <4>1. \A i \in 1 .. n : f[i] = h(i)  BY <3>1
      <4> HIDE DEF h
      <4>2. g = [i \in 1 .. n |-> h(i)]  BY <4>1
      <4> QED  BY <4>2 DEF h
    <3> QED  BY <3>2
  <2>3. Is(m)
    <3> HIDE DEF Is
    <3> QED  BY <2>2
  <2>4. FlattenSeq(seqs) = m[n]  BY <1>7 DEF FlattenSeq
  <2> HIDE DEF m
  <2>5. ASSUME NEW k \in 1 .. n, NEW i \in 1 .. n, i = k + 1
        PROVE  m[i] = m[k] \o seqs[i]
    <3>1. i # 1 /\ k = i - 1  BY <1>1, <2>5
    <3>2. m[i] = IF i = 1 THEN seqs[i] ELSE m[i - 1] \o seqs[i]  BY <2>3
    <3> QED  BY <3>1, <3>2
  <2>6. m[1] = seqs[1]  BY <2>0, <2>3
  <2> DEFINE T == {k \in Nat : \A i \in 1 .. n : i = k + 1 => m[i] = f[i]}
  <2>7. 0 \in T  BY <2>1, <2>6
  <2>8. ASSUME NEW k \in T PROVE k + 1 \in T
    <3>1. SUFFICES ASSUME NEW i \in 1 .. n, i = (k + 1) + 1 PROVE m[i] = f[i]  OBVIOUS
    <3>2. PICK j \in 1 .. n : j \in 0 .. n /\ j = k + 1 /\ i = j + 1  BY <1>1, <3>1
    <3>3. m[j] = f[j]  BY <3>2
    <3>4. f[i] = f[j] \o seqs[i]  BY <1>4, <3>2, Zenon
    <3>5. m[i] = m[j] \o seqs[i]  BY <2>5, <3>2, Zenon
    <3> QED  BY <3>3, <3>4, <3>5, Zenon
  <2> HIDE DEF T
  <2>9. T = Nat  BY <2>7, <2>8, Induct DEF T
  <2>10. m[n] = f[n]
    <3>1. n - 1 \in T /\ n \in 1 .. n /\ n = (n - 1) + 1  BY <1>1, <1>7, <2>9
    <3> QED  BY <3>1 DEF T
  <2> QED  BY <1>5, <2>4, <2>10
<1> QED  BY <1>6, <1>7

\* Each text follows what was put together before it.
LEMMA GluedStep ==
  ASSUME NEW seqs \in Seq(Text), NEW f, Glued(f, seqs),
         NEW k \in 0 .. Len(seqs), NEW n \in 1 .. Len(seqs), n = k + 1
  PROVE  /\ Size(f[k]) \in Nat /\ Size(seqs[n]) \in Nat
         /\ Size(f[n]) = Size(f[k]) + Size(seqs[n])
         /\ \A i \in 1 .. Size(f[k]) : Char(f[n], i) = Char(f[k], i)
         /\ \A i \in 1 .. Size(seqs[n]) : Char(f[n], Size(f[k]) + i) = Char(seqs[n], i)
<1> DEFINE a == f[k]
           b == seqs[n]
           c == f[n]
<1>1. a \in Text /\ b \in Text /\ c = a \o b
  <2>1. f[k] \in Text  BY DEF Glued
  <2>2. seqs[n] \in Text  OBVIOUS
  <2>3. f[n] = f[k] \o seqs[n]  BY Zenon DEF Glued
  <2> QED  BY <2>1, <2>2, <2>3, Zenon
<1> HIDE DEF a, b, c
<1>2. /\ Size(a) \in Nat /\ Size(b) \in Nat /\ Size(c) = Size(a) + Size(b)
      /\ \A i \in 1 .. Size(a) : Char(c, i) = Char(a, i)
      /\ \A i \in 1 .. Size(b) : Char(c, Size(a) + i) = Char(b, i)
  BY <1>1, Concat
<1> QED  BY <1>2 DEF a, b, c

\* What is put together stays the beginning of the whole.
LEMMA GluedPrefix ==
  ASSUME NEW seqs \in Seq(Text), NEW f, Glued(f, seqs), NEW k \in 0 .. Len(seqs)
  PROVE  /\ Size(f[k]) \in Nat /\ Size(f[k]) <= Size(f[Len(seqs)])
         /\ \A i \in 1 .. Size(f[k]) : Char(f[Len(seqs)], i) = Char(f[k], i)
<1> DEFINE Begins(m) == /\ Size(f[m]) \in Nat /\ Size(f[k]) <= Size(f[m])
                        /\ \A i \in 1 .. Size(f[k]) : Char(f[m], i) = Char(f[k], i)
           T == {d \in Nat : k + d <= Len(seqs) => Begins(k + d)}
           all == Len(seqs)
<1>1. all \in Nat /\ k \in Nat /\ k <= all  OBVIOUS
<1>2. Size(f[k]) \in Nat
  <2>1. f[k] \in Text  BY DEF Glued
  <2> QED  BY <2>1 DEF Size, Text
<1>3. 0 \in T  BY <1>2
<1>4. ASSUME NEW d \in T PROVE d + 1 \in T
  <2>1. SUFFICES ASSUME k + (d + 1) <= all PROVE Begins(k + (d + 1))
    BY DEF T
  <2>2. PICK m \in 0 .. all : m = k + d  BY <1>1, <2>1
  <2>3. PICK n \in 1 .. all : n = m + 1 /\ n = k + (d + 1)  BY <1>1, <2>1, <2>2
  <2>4. Begins(m)  BY <1>1, <2>1, <2>2
  <2>5. /\ Size(seqs[n]) \in Nat /\ Size(f[n]) = Size(f[m]) + Size(seqs[n])
        /\ \A i \in 1 .. Size(f[m]) : Char(f[n], i) = Char(f[m], i)
    BY <2>3, GluedStep
  <2>6. Begins(n)  BY <1>2, <2>4, <2>5
  <2> HIDE DEF Begins
  <2> QED  BY <2>3, <2>6
<1> HIDE DEF Begins, T
<1>5. T = Nat  BY <1>3, <1>4, Induct DEF T
<1>6. all - k \in Nat /\ k + (all - k) = all  BY <1>1
<1>7. Begins(all)
  <2>1. all - k \in T  BY <1>5, <1>6
  <2>2. k + (all - k) <= all => Begins(k + (all - k))  BY <2>1 DEF T
  <2> HIDE DEF all
  <2> QED  BY <1>1, <1>6, <2>2
<1> QED  BY <1>2, <1>7 DEF Begins

\* In w text n stands after place at[n - 1] and up to place at[n].
Pieces(w, at, seqs) ==
  /\ w \in Text /\ at \in [0 .. Len(seqs) -> Nat] /\ at[0] = 0 /\ at[Len(seqs)] = Size(w)
  /\ \A k \in 0 .. Len(seqs), n \in 1 .. Len(seqs) : n = k + 1 =>
       /\ Size(seqs[n]) \in Nat /\ at[n] = at[k] + Size(seqs[n]) /\ at[n] <= Size(w)
       /\ \A i \in 1 .. Size(seqs[n]) : Char(w, at[k] + i) = Char(seqs[n], i)

\* Each of the texts stands in what they are put together to.
LEMMA FlattenPieces ==
  ASSUME NEW seqs \in Seq(Text)
  PROVE  \E at : Pieces(FlattenSeq(seqs), at, seqs)
<1>1. PICK f : Glued(f, seqs) /\ FlattenSeq(seqs) = f[Len(seqs)]  BY FlattenIsGlued
<1> DEFINE w  == FlattenSeq(seqs)
           at == [k \in 0 .. Len(seqs) |-> Size(f[k])]
           all == Len(seqs)
<1>2. all \in Nat /\ all \in 0 .. all /\ 0 \in 0 .. all  OBVIOUS
<1>3. w \in Text /\ Size(w) = Size(f[all]) /\ w = f[all]
  BY <1>1, <1>2 DEF Glued
<1>4. Size(f[0]) = 0  BY <1>1 DEF Glued, Size
<1> HIDE DEF w, all
<1>5. at \in [0 .. all -> Nat] /\ \A k \in 0 .. all : at[k] = Size(f[k])
  BY <1>1, GluedPrefix DEF all
<1> HIDE DEF at
<1>6. ASSUME NEW k \in 0 .. all, NEW n \in 1 .. all, n = k + 1
      PROVE  /\ Size(seqs[n]) \in Nat /\ at[n] = at[k] + Size(seqs[n]) /\ at[n] <= Size(w)
             /\ \A i \in 1 .. Size(seqs[n]) : Char(w, at[k] + i) = Char(seqs[n], i)
  <2>1. n \in 0 .. all  BY <1>2, <1>6
  <2>2. /\ Size(f[k]) \in Nat /\ Size(seqs[n]) \in Nat
        /\ Size(f[n]) = Size(f[k]) + Size(seqs[n])
        /\ \A i \in 1 .. Size(seqs[n]) : Char(f[n], Size(f[k]) + i) = Char(seqs[n], i)
    BY <1>1, <1>6, GluedStep DEF all
  <2>3. /\ Size(f[n]) <= Size(f[all])
        /\ \A i \in 1 .. Size(f[n]) : Char(f[all], i) = Char(f[n], i)
    BY <1>1, <2>1, GluedPrefix DEF all
  <2>4. ASSUME NEW i \in 1 .. Size(seqs[n]) PROVE Char(w, at[k] + i) = Char(seqs[n], i)
    <3>1. Size(f[k]) + i \in 1 .. Size(f[n])  BY <2>2
    <3>2. Char(f[all], Size(f[k]) + i) = Char(seqs[n], i)  BY <2>2, <2>3, <3>1
    <3> QED  BY <1>3, <1>5, <3>2
  <2> QED  BY <1>3, <1>5, <2>1, <2>2, <2>3, <2>4
<1>7. at[0] = 0 /\ at[all] = Size(w)  BY <1>2, <1>3, <1>4, <1>5
<1> USE DEF all
<1>8. Pieces(w, at, seqs)  BY <1>3, <1>5, <1>6, <1>7 DEF Pieces
<1> QED  BY <1>8 DEF w

-----------------------------------------------------------------------------
(* Quoted strings. *)

\* The quote and the backslash differ from what the rules name.
LEMMA QuoteFacts ==
  /\ Quote # Backslash /\ Quote # "n" /\ Quote # "r" /\ Quote # "t"
  /\ Quote # "\n" /\ Quote # "\r" /\ Quote # "\t" /\ Quote # " " /\ Quote # ":"
  /\ Quote # "," /\ Quote # "|"
  /\ Backslash # "n" /\ Backslash # "r" /\ Backslash # "t"
  /\ Backslash # "\n" /\ Backslash # "\r" /\ Backslash # "\t"
  BY Zenon DEF Quote, Backslash

\* Texts of one and of two characters.
LEMMA One ==
  ASSUME NEW c \in Character
  PROVE  <<c>> \in Text /\ Size(<<c>>) = 1 /\ Char(<<c>>, 1) = c
  BY DEF Text, Size, Char

LEMMA Two ==
  ASSUME NEW c \in Character, NEW d \in Character
  PROVE  /\ <<c, d>> \in Text /\ Size(<<c, d>>) = 2
         /\ Char(<<c, d>>, 1) = c /\ Char(<<c, d>>, 2) = d
  BY DEF Text, Size, Char

\* A character is written as it is, or as a backslash and one that means it.
LEMMA EscapeFacts ==
  ASSUME NEW c \in Character
  PROVE  /\ Escape(c) \in Text
         /\ \/ Size(Escape(c)) = 1 /\ Char(Escape(c), 1) = c /\ c # Backslash /\ c # Quote
            \/ /\ Size(Escape(c)) = 2 /\ Char(Escape(c), 1) = Backslash
               /\ EscapeMeans(Char(Escape(c), 2)) = <<c>>
<1>1. ASSUME NEW d \in Character, Escape(c) = <<Backslash, d>>, EscapeMeans(d) = <<c>>
      PROVE  /\ Escape(c) \in Text /\ Size(Escape(c)) = 2 /\ Char(Escape(c), 1) = Backslash
             /\ EscapeMeans(Char(Escape(c), 2)) = <<c>>
  <2>1. Backslash \in Character  BY Named
  <2>2. /\ <<Backslash, d>> \in Text /\ Size(<<Backslash, d>>) = 2
        /\ Char(<<Backslash, d>>, 1) = Backslash /\ Char(<<Backslash, d>>, 2) = d
    BY <2>1, Two
  <2> QED  BY <1>1, <2>2, Zenon
<1>2. CASE c \in {Backslash, Quote}
  <2>1. Escape(c) = <<Backslash, c>> /\ EscapeMeans(c) = <<c>>
    BY <1>2, QuoteFacts DEF Escape, EscapeMeans
  <2> QED  BY <1>1, <2>1
<1>3. CASE c = "\n"
  <2>1. "n" \in Character  BY Named
  <2>2. Escape(c) = <<Backslash, "n">>  BY <1>3, QuoteFacts DEF Escape
  <2>3. EscapeMeans("n") = <<c>>  BY <1>3, QuoteFacts DEF EscapeMeans
  <2> QED  BY <1>1, <2>1, <2>2, <2>3
<1>4. CASE c = "\r"
  <2>1. "r" \in Character  BY Named
  <2>2. Escape(c) = <<Backslash, "r">>  BY <1>4, QuoteFacts DEF Escape
  <2>3. EscapeMeans("r") = <<c>>  BY <1>4, QuoteFacts DEF EscapeMeans
  <2> QED  BY <1>1, <2>1, <2>2, <2>3
<1>5. CASE c = "\t"
  <2>1. "t" \in Character  BY Named
  <2>2. Escape(c) = <<Backslash, "t">>  BY <1>5, QuoteFacts DEF Escape
  <2>3. EscapeMeans("t") = <<c>>  BY <1>5, QuoteFacts DEF EscapeMeans
  <2> QED  BY <1>1, <2>1, <2>2, <2>3
<1>6. CASE c \notin {Backslash, Quote, "\n", "\r", "\t"}
  <2>1. Escape(c) = <<c>>  BY <1>6 DEF Escape
  <2> QED  BY <1>6, <2>1, One
<1> QED  BY <1>2, <1>3, <1>4, <1>5, <1>6

\* From place a to place b of w stands what is written for c.
Spelt(w, a, b, c) ==
  \/ b = a + 1 /\ Char(w, b) = c /\ c # Backslash /\ c # Quote
  \/ b = a + 2 /\ Char(w, a + 1) = Backslash /\ EscapeMeans(Char(w, b)) = <<c>>

\* w begins with s in quotes, its character n ending at place at[n].
Quoted(w, s, at) ==
  /\ w \in Text /\ s \in Text /\ at \in [0 .. Size(s) -> Nat]
  /\ Char(w, 1) = Quote /\ at[0] = 1
  /\ at[Size(s)] + 1 <= Size(w) /\ Char(w, at[Size(s)] + 1) = Quote
  /\ \A k \in 0 .. Size(s), n \in 1 .. Size(s) :
       n = k + 1 => at[n] <= at[Size(s)] /\ Spelt(w, at[k], at[n], Char(s, n))

\* What quote_string writes, whatever is put after it.
LEMMA QuotedText ==
  ASSUME NEW s \in Text, NEW r \in Text
  PROVE  /\ quote_string(s) \in Text
         /\ \E at : /\ Quoted(quote_string(s) \o r, s, at)
                    /\ Size(quote_string(s)) = at[Size(s)] + 1
<1> DEFINE spell == [i \in 1 .. Len(s) |-> Escape(s[i])]
           body  == FlattenSeq(spell)
           mark  == <<Quote>>
           open  == mark \o body
           q     == open \o mark
           w     == q \o r
           N     == Size(s)
           B     == Size(body)
<1>1. N \in Nat /\ \A i \in 1 .. N : Char(s, i) \in Character  BY DEF Text, Size, Char
<1>2. spell \in Seq(Text) /\ Len(spell) = N /\ \A i \in 1 .. N : spell[i] = Escape(Char(s, i))
  <2>1. \A i \in 1 .. Len(s) : Escape(s[i]) \in Text  BY <1>1, EscapeFacts DEF Size, Char, N
  <2> QED  BY <1>1, <2>1 DEF Size, Char
<1> HIDE DEF spell
<1>3. PICK fr : Pieces(body, fr, spell)  BY <1>2, FlattenPieces
<1> HIDE DEF N, body
<1>4. body \in Text /\ B \in Nat /\ fr \in [0 .. N -> Nat] /\ fr[0] = 0 /\ fr[N] = B
  BY <1>2, <1>3, SizeType DEF Pieces
<1>5. mark \in Text /\ Size(mark) = 1 /\ Char(mark, 1) = Quote  BY One, Named
<1> HIDE DEF mark, B
<1>6. /\ open \in Text /\ Size(open) = 1 + B /\ Char(open, 1) = Quote
      /\ \A i \in 1 .. B : Char(open, 1 + i) = Char(body, i)
  <2>1. /\ open \in Text /\ Size(open) = Size(mark) + B
        /\ \A i \in 1 .. Size(mark) : Char(open, i) = Char(mark, i)
        /\ \A i \in 1 .. B : Char(open, Size(mark) + i) = Char(body, i)
    BY <1>4, <1>5, Concat DEF B
  <2> HIDE DEF open
  <2> QED  BY <1>5, <2>1
<1> HIDE DEF open
<1>7. /\ q \in Text /\ Size(q) = B + 2 /\ Char(q, 1) = Quote /\ Char(q, B + 2) = Quote
      /\ \A i \in 1 .. B : Char(q, 1 + i) = Char(body, i)
  <2>1. /\ q \in Text /\ Size(q) = Size(open) + Size(mark)
        /\ \A i \in 1 .. Size(open) : Char(q, i) = Char(open, i)
        /\ \A i \in 1 .. Size(mark) : Char(q, Size(open) + i) = Char(mark, i)
    BY <1>5, <1>6, Concat
  <2> HIDE DEF q
  <2>3. /\ Size(q) = B + 2 /\ \A i \in 1 .. B + 1 : Char(q, i) = Char(open, i)
        /\ Char(q, B + 2) = Quote
    BY <1>4, <1>5, <1>6, <2>1
  <2>2. 1 \in 1 .. B + 1 /\ \A i \in 1 .. B : 1 + i \in 1 .. B + 1  BY <1>4
  <2> QED  BY <1>6, <2>1, <2>2, <2>3
<1> HIDE DEF q
<1>8. /\ w \in Text /\ Size(w) >= B + 2 /\ Char(w, 1) = Quote /\ Char(w, B + 2) = Quote
      /\ \A i \in 1 .. B : Char(w, 1 + i) = Char(body, i)
  <2>1. /\ w \in Text /\ Size(w) = Size(q) + Size(r) /\ Size(r) \in Nat
        /\ \A i \in 1 .. Size(q) : Char(w, i) = Char(q, i)
    BY <1>7, Concat
  <2> HIDE DEF w
  <2>2. 1 \in 1 .. Size(q) /\ B + 2 \in 1 .. Size(q) /\ \A i \in 1 .. B : 1 + i \in 1 .. Size(q)
    BY <1>4, <1>7
  <2> QED  BY <1>4, <1>7, <2>1, <2>2
<1> HIDE DEF w
<1> DEFINE at == [k \in 0 .. N |-> fr[k] + 1]
<1>9. at \in [0 .. N -> Nat] /\ \A k \in 0 .. N : at[k] = fr[k] + 1  BY <1>4
<1>10. at[0] = 1 /\ at[N] = B + 1  BY <1>1, <1>4
<1> HIDE DEF at
<1>11. ASSUME NEW k \in 0 .. N, NEW n \in 1 .. N, n = k + 1
       PROVE  at[n] <= at[N] /\ Spelt(w, at[k], at[n], Char(s, n))
  <2>1. /\ Size(spell[n]) \in Nat /\ fr[n] = fr[k] + Size(spell[n]) /\ fr[n] <= B
        /\ \A i \in 1 .. Size(spell[n]) : Char(body, fr[k] + i) = Char(spell[n], i)
    BY <1>2, <1>3, <1>11 DEF Pieces, B
  <2>2. n \in 0 .. N /\ at[n] = fr[n] + 1 /\ at[k] = fr[k] + 1 /\ fr[k] \in Nat /\ fr[n] \in Nat
    BY <1>1, <1>4, <1>9, <1>11
  <2>3. at[n] <= at[N]  BY <1>4, <1>10, <2>1, <2>2
  <2>4. Char(s, n) \in Character /\ spell[n] = Escape(Char(s, n))  BY <1>1, <1>2
  <2> DEFINE e == spell[n]
             c == Char(s, n)
  <2>5. \/ Size(e) = 1 /\ Char(e, 1) = c /\ c # Backslash /\ c # Quote
        \/ Size(e) = 2 /\ Char(e, 1) = Backslash /\ EscapeMeans(Char(e, 2)) = <<c>>
    BY <2>4, EscapeFacts
  <2>6. /\ fr[n] = fr[k] + Size(e)
        /\ \A i \in 1 .. Size(e) : Char(w, at[k] + i) = Char(e, i)
    <3>1. ASSUME NEW i \in 1 .. Size(e) PROVE Char(w, at[k] + i) = Char(e, i)
      <4> DEFINE a == fr[k]
                 z == Size(e)
      <4>0. a \in Nat /\ z \in Nat /\ a + z <= B /\ at[k] = a + 1 /\ i \in 1 .. z
        BY <2>1, <2>2
      <4> HIDE DEF a, z
      <4>1. a + i \in 1 .. B /\ at[k] + i = 1 + (a + i)  BY <1>4, <4>0
      <4> USE DEF a
      <4> QED  BY <1>8, <2>1, <4>1
    <3> QED  BY <2>1, <3>1
  <2> HIDE DEF e, c
  <2>7. CASE Size(e) = 1 /\ Char(e, 1) = c /\ c # Backslash /\ c # Quote
    <3>1. at[n] = at[k] + 1 /\ Char(w, at[k] + 1) = c  BY <2>2, <2>6, <2>7
    <3> QED  BY <2>3, <2>7, <3>1 DEF Spelt, c
  <2>8. CASE Size(e) = 2 /\ Char(e, 1) = Backslash /\ EscapeMeans(Char(e, 2)) = <<c>>
    <3>1. at[n] = at[k] + 2 /\ Char(w, at[k] + 1) = Backslash /\ Char(w, at[k] + 2) = Char(e, 2)
      BY <2>2, <2>6, <2>8
    <3> QED  BY <2>3, <2>8, <3>1 DEF Spelt, c
  <2> QED  BY <2>5, <2>7, <2>8
<1>12. q = quote_string(s)  BY DEF q, open, mark, body, spell, quote_string
<1>13. Quoted(w, s, at) /\ Size(q) = at[N] + 1
  <2>1. Size(q) = at[N] + 1  BY <1>4, <1>7, <1>10
  <2>2. at[N] + 1 <= Size(w) /\ Char(w, at[N] + 1) = Quote  BY <1>4, <1>8, <1>10
  <2> QED  BY <1>8, <1>9, <1>10, <1>11, <2>1, <2>2 DEF Quoted, N
<1> QED  BY <1>7, <1>12, <1>13 DEF w, N

\* How a pass turns.
LEMMA TurnFacts ==
  /\ Turn("bare", Quote) = "quoted" /\ \A c : c # Quote => Turn("bare", c) = "bare"
  /\ Turn("quoted", Quote) = "bare" /\ Turn("quoted", Backslash) = "escape"
  /\ \A c : c # Quote /\ c # Backslash => Turn("quoted", c) = "quoted"
  /\ \A c : Turn("escape", c) = "quoted"
  BY QuoteFacts DEF Turn

\* In quotes, after every character of s.
LEMMA QuotedModes ==
  ASSUME NEW w, NEW s, NEW at, Quoted(w, s, at)
  PROVE  /\ Size(w) \in Nat /\ Size(s) \in Nat /\ at[Size(s)] \in Nat
         /\ \A k \in 0 .. Size(s) : /\ at[k] \in Nat /\ 1 <= at[k] /\ at[k] <= at[Size(s)]
                                    /\ ModeAt(w, at[k]) = "quoted"
<1> DEFINE N == Size(s)
           T == {k \in Nat : k <= N => 1 <= at[k] /\ ModeAt(w, at[k]) = "quoted"}
<1>1. /\ N \in Nat /\ Size(w) \in Nat /\ \A k \in 0 .. N : at[k] \in Nat
      /\ at[N] + 1 <= Size(w) /\ at[0] = 1
      /\ \A k \in 0 .. N, n \in 1 .. N :
           n = k + 1 => at[n] <= at[N] /\ Spelt(w, at[k], at[n], Char(s, n))
  BY SizeType DEF Quoted
<1>2. w \in Text /\ Char(w, 1) = Quote  BY DEF Quoted
<1> HIDE DEF N
<1>3. 0 \in T
  <2>1. 0 \in 0 .. Size(w) /\ 1 \in 1 .. Size(w) /\ 1 = 0 + 1  BY <1>1
  <2>2. ModeAt(w, 1) = Turn(ModeAt(w, 0), Char(w, 1)) /\ ModeAt(w, 0) = "bare"
    BY <1>2, <2>1, ModeFacts
  <2>3. ModeAt(w, 1) = "quoted"  BY <1>2, <2>2, TurnFacts
  <2> QED  BY <1>1, <2>3
<1>4. ASSUME NEW k \in T PROVE k + 1 \in T
  <2>1. SUFFICES ASSUME NEW n \in 1 .. N, n = k + 1
        PROVE  1 <= at[n] /\ ModeAt(w, at[n]) = "quoted"
    BY <1>1
  <2>2. k \in 0 .. N /\ n \in 0 .. N  BY <1>1, <2>1
  <2> DEFINE a == at[k]
             b == at[n]
             c == Char(s, n)
  <2>3. /\ a \in Nat /\ b \in Nat /\ b + 1 <= Size(w) /\ 1 <= a /\ ModeAt(w, a) = "quoted"
        /\ Spelt(w, a, b, c)
    BY <1>1, <2>1, <2>2
  <2> SUFFICES 1 <= b /\ ModeAt(w, b) = "quoted"  OBVIOUS
  <2> HIDE DEF a, b, c
  <2>4. CASE b = a + 1 /\ Char(w, b) = c /\ c # Backslash /\ c # Quote
    <3>1. a \in 0 .. Size(w) /\ b \in 1 .. Size(w)  BY <1>1, <2>3, <2>4
    <3>2. ModeAt(w, b) = Turn(ModeAt(w, a), Char(w, b))  BY <1>2, <2>4, <3>1, ModeFacts
    <3> QED  BY <2>3, <2>4, <3>2, TurnFacts
  <2>5. CASE b = a + 2 /\ Char(w, a + 1) = Backslash /\ EscapeMeans(Char(w, b)) = <<c>>
    <3>1. PICK d \in 1 .. Size(w) : d = a + 1 /\ b = d + 1 /\ d \in 0 .. Size(w)
          /\ a \in 0 .. Size(w) /\ b \in 1 .. Size(w)
      BY <1>1, <2>3, <2>5
    <3>2. ModeAt(w, d) = Turn(ModeAt(w, a), Char(w, d))  BY <1>2, <3>1, ModeFacts
    <3>3. ModeAt(w, d) = "escape"  BY <2>3, <2>5, <3>1, <3>2, TurnFacts
    <3>4. ModeAt(w, b) = Turn(ModeAt(w, d), Char(w, b))  BY <1>2, <3>1, ModeFacts
    <3> QED  BY <2>3, <2>5, <3>3, <3>4, TurnFacts
  <2> QED  BY <2>3, <2>4, <2>5 DEF Spelt
<1> HIDE DEF T
<1>5. T = Nat  BY <1>3, <1>4, Induct DEF T
<1>6. \A k \in 0 .. N : 1 <= at[k] /\ ModeAt(w, at[k]) = "quoted"  BY <1>1, <1>5 DEF T
<1>7. ASSUME NEW n \in 0 .. N PROVE at[n] <= at[N]
  <2>1. CASE n = 0
    <3>1. 1 <= at[N]  BY <1>1, <1>6
    <3> QED  BY <1>1, <2>1, <3>1
  <2>2. CASE n # 0
    <3>1. PICK k \in 0 .. N : n = k + 1 /\ n \in 1 .. N  BY <1>1, <2>2
    <3> QED  BY <1>1, <3>1
  <2> QED  BY <2>1, <2>2
<1> QED  BY <1>1, <1>6, <1>7 DEF N

\* What a place p of the quoted part means, q being the one before it.
Inside(w, s, at, q, p) ==
  \E k \in 0 .. Size(s), n \in 1 .. Size(s) :
    /\ n = k + 1
    /\ \/ /\ q = at[k] /\ p = at[n] /\ at[n] = at[k] + 1
          /\ ModeAt(w, q) = "quoted" /\ ModeAt(w, p) = "quoted"
          /\ Char(w, p) = Char(s, n) /\ Char(w, p) # Backslash
       \/ /\ q = at[k] /\ p = at[k] + 1 /\ at[n] = at[k] + 2
          /\ ModeAt(w, q) = "quoted" /\ ModeAt(w, p) = "escape" /\ Char(w, p) = Backslash
       \/ /\ q = at[k] + 1 /\ p = at[n] /\ at[n] = at[k] + 2
          /\ ModeAt(w, q) = "escape" /\ ModeAt(w, p) = "quoted"
          /\ EscapeMeans(Char(w, p)) = <<Char(s, n)>>

\* Every place between the quotes is part of what is written for some
\* character, and a pass over it is never bare there.
LEMMA QuotedInside ==
  ASSUME NEW w, NEW s, NEW at, Quoted(w, s, at), NEW q \in Nat, NEW p \in Nat,
         p = q + 1, 1 <= q, p <= at[Size(s)]
  PROVE  Inside(w, s, at, q, p)
<1> DEFINE N == Size(s)
<1>1. /\ N \in Nat /\ at \in [0 .. N -> Nat] /\ at[0] < p /\ p <= at[N] /\ w \in Text
      /\ at[N] + 1 <= Size(w) /\ Size(w) \in Nat
  BY SizeType DEF Quoted
<1> HIDE DEF N
<1>2. PICK k \in 0 .. N, n \in 1 .. N : n = k + 1 /\ at[k] < p /\ p <= at[n]  BY <1>1, Between
<1> DEFINE a == at[k]
           b == at[n]
           c == Char(s, n)
<1>3. n \in 0 .. N  BY <1>1
<1>4. /\ a \in Nat /\ b \in Nat /\ b <= at[N] /\ ModeAt(w, a) = "quoted" /\ ModeAt(w, b) = "quoted"
      /\ at[N] \in Nat
  BY <1>2, <1>3, QuotedModes DEF N
<1>5. Spelt(w, a, b, c)  BY <1>2 DEF Quoted, N
<1>7. ASSUME \/ /\ q = a /\ p = b /\ b = a + 1
                /\ ModeAt(w, q) = "quoted" /\ ModeAt(w, p) = "quoted"
                /\ Char(w, p) = c /\ Char(w, p) # Backslash
             \/ /\ q = a /\ p = a + 1 /\ b = a + 2
                /\ ModeAt(w, q) = "quoted" /\ ModeAt(w, p) = "escape" /\ Char(w, p) = Backslash
             \/ /\ q = a + 1 /\ p = b /\ b = a + 2
                /\ ModeAt(w, q) = "escape" /\ ModeAt(w, p) = "quoted"
                /\ EscapeMeans(Char(w, p)) = <<c>>
      PROVE  Inside(w, s, at, q, p)
  BY <1>2, <1>7, Zenon DEF Inside, N
<1>8. a < p /\ p <= b  BY <1>2
<1> HIDE DEF a, b, c
<1>9. CASE b = a + 1 /\ Char(w, b) = c /\ c # Backslash /\ c # Quote
  <2>1. q = a /\ p = b  BY <1>4, <1>8, <1>9
  <2> QED  BY <1>4, <1>7, <1>9, <2>1
<1>10. CASE b = a + 2 /\ Char(w, a + 1) = Backslash /\ EscapeMeans(Char(w, b)) = <<c>>
  <2>1. PICK d \in 1 .. Size(w) : d = a + 1 /\ b = d + 1 /\ a \in 0 .. Size(w)
    BY <1>1, <1>4, <1>10
  <2>2. ModeAt(w, d) = Turn(ModeAt(w, a), Char(w, d))  BY <1>1, <2>1, ModeFacts
  <2>3. ModeAt(w, d) = "escape" /\ Char(w, d) = Backslash  BY <1>4, <1>10, <2>1, <2>2, TurnFacts
  <2>4. CASE p = d
    <3>1. q = a  BY <1>4, <2>1, <2>4
    <3> QED  BY <1>4, <1>7, <1>10, <2>1, <2>3, <2>4, <3>1
  <2>5. CASE p = b
    <3>1. q = d  BY <1>4, <2>1, <2>5
    <3> QED  BY <1>4, <1>7, <1>10, <2>1, <2>3, <2>5, <3>1
  <2>6. p = d \/ p = b  BY <1>4, <1>8, <2>1
  <2> QED  BY <2>4, <2>5, <2>6
<1> QED  BY <1>5, <1>9, <1>10 DEF Spelt

\* The first k characters of s.
Prefix(s, k) == [i \in 1 .. k |-> s[i]]

\* The first characters of a text, one more at a time.
LEMMA PrefixFacts ==
  ASSUME NEW s \in Text
  PROVE  /\ Prefix(s, 0) = <<>> /\ Prefix(s, Size(s)) = s
         /\ \A k \in 0 .. Size(s), n \in 1 .. Size(s) :
              n = k + 1 => /\ Prefix(s, k) \in Text /\ Char(s, n) \in Character
                           /\ Prefix(s, k) \o <<Char(s, n)>> = Prefix(s, n)
<1>1. Prefix(s, 0) = <<>>  BY DEF Prefix
<1>2. Prefix(s, Size(s)) = s  BY DEF Prefix, Size, Text
<1>3. ASSUME NEW k \in 0 .. Size(s), NEW n \in 1 .. Size(s), n = k + 1
      PROVE  /\ Prefix(s, k) \in Text /\ Char(s, n) \in Character
             /\ Prefix(s, k) \o <<Char(s, n)>> = Prefix(s, n)
  <2>1. Size(s) \in Nat /\ k \in Nat  BY SizeType
  <2>2. \A i \in 1 .. n : Char(s, i) \in Character  BY <1>3, <2>1 DEF Text, Size, Char
  <2>3. ASSUME NEW m \in 0 .. n
        PROVE  /\ Prefix(s, m) \in Text /\ Size(Prefix(s, m)) = m
               /\ \A i \in 1 .. m : Char(Prefix(s, m), i) = Char(s, i)
    <3>1. m \in Nat /\ \A i \in 1 .. m : s[i] \in Character  BY <1>3, <2>1, <2>2 DEF Char
    <3> QED  BY <3>1 DEF Prefix, Text, Size, Char
  <2> DEFINE a == Prefix(s, k)
             b == <<Char(s, n)>>
             c == Prefix(s, n)
  <2>4. /\ a \in Text /\ Size(a) = k /\ \A i \in 1 .. k : Char(a, i) = Char(s, i)
        /\ c \in Text /\ Size(c) = n /\ \A i \in 1 .. n : Char(c, i) = Char(s, i)
    BY <1>3, <2>1, <2>3
  <2>9. Char(s, n) \in Character  BY <1>3, <2>1, <2>2
  <2>5. b \in Text /\ Size(b) = 1 /\ Char(b, 1) = Char(s, n)
    BY <2>9, One
  <2> HIDE DEF a, b, c
  <2> DEFINE d == a \o b
  <2>6. /\ d \in Text /\ Size(d) = n /\ \A i \in 1 .. k : Char(d, i) = Char(a, i)
        /\ \A i \in 1 .. 1 : Char(d, k + i) = Char(b, i)
    <3>1. /\ d \in Text /\ Size(d) = Size(a) + Size(b)
          /\ \A i \in 1 .. Size(a) : Char(d, i) = Char(a, i)
          /\ \A i \in 1 .. Size(b) : Char(d, Size(a) + i) = Char(b, i)
      BY <2>4, <2>5, Concat
    <3> HIDE DEF d
    <3> QED  BY <1>3, <2>4, <2>5, <3>1
  <2> HIDE DEF d
  <2>7. ASSUME NEW i \in 1 .. n PROVE Char(d, i) = Char(c, i)
    <3>1. CASE i \in 1 .. k  BY <2>4, <2>6, <3>1
    <3>2. CASE i = k + 1  BY <1>3, <2>4, <2>5, <2>6, <3>2
    <3> QED  BY <1>3, <2>1, <3>1, <3>2
  <2>8. d = c  BY <2>4, <2>6, <2>7, SameText
  <2> QED  BY <2>4, <2>8, <2>9 DEF a, b, c, d
<1> QED  BY <1>1, <1>2, <1>3

\* What a place of the quoted part adds to the text.
LEMMA MeaningFacts ==
  ASSUME NEW w \in Text, NEW q \in Nat, NEW p \in 1 .. Size(w), p = q + 1
  PROVE  /\ Meaning(w, p) \in Text
         /\ ModeAt(w, q) = "escape" => Meaning(w, p) = EscapeMeans(Char(w, p))
         /\ ModeAt(w, q) # "escape" /\ Char(w, p) = Backslash => Meaning(w, p) = <<>>
         /\ ModeAt(w, q) # "escape" /\ Char(w, p) # Backslash => Meaning(w, p) = <<Char(w, p)>>
<1> DEFINE c == Char(w, p)
<1>1. p - 1 = q /\ c \in Character  BY DEF Size, Char, Text
<1>2. Meaning(w, p) = IF ModeAt(w, q) = "escape" THEN EscapeMeans(c)
                      ELSE IF c = Backslash THEN <<>> ELSE <<c>>
  BY <1>1 DEF Meaning, ModeAt, Char
<1> HIDE DEF c
<1>3. EscapeMeans(c) \in Text
  <2>1. <<>> \in Text  BY DEF Text
  <2>2. <<c>> \in Text  BY <1>1, One
  <2>3. <<"\n">> \in Text /\ <<"\r">> \in Text /\ <<"\t">> \in Text  BY One, Named
  <2> QED  BY <2>1, <2>2, <2>3 DEF EscapeMeans
<1>4. <<c>> \in Text /\ <<>> \in Text  BY <1>1, One DEF Text
<1>5. /\ ModeAt(w, q) = "escape" => Meaning(w, p) = EscapeMeans(c)
      /\ ModeAt(w, q) # "escape" /\ c = Backslash => Meaning(w, p) = <<>>
      /\ ModeAt(w, q) # "escape" /\ c # Backslash => Meaning(w, p) = <<c>>
  BY <1>2
<1>6. Meaning(w, p) \in Text  BY <1>3, <1>4, <1>5
<1> QED  BY <1>5, <1>6 DEF c

\* What a quoted part means up to the end of character n of s.
LEMMA QuotedMeans ==
  ASSUME NEW w, NEW s, NEW at, Quoted(w, s, at), NEW L \in Nat, L + 1 = at[Size(s)]
  PROVE  FlattenSeq([i \in 1 .. L |-> Meaning(w, i + 1)]) = s
<1> DEFINE M == [i \in 1 .. L |-> Meaning(w, i + 1)]
           N == Size(s)
<1>1. /\ w \in Text /\ s \in Text /\ N \in Nat /\ Size(w) \in Nat /\ at[N] + 1 <= Size(w)
      /\ at[0] = 1 /\ at \in [0 .. N -> Nat]
  BY SizeType DEF Quoted
<1>2. ASSUME NEW q \in 1 .. L
      PROVE  /\ M[q] \in Text
             /\ \E p \in Nat : /\ p = q + 1 /\ p \in 1 .. Size(w) /\ M[q] = Meaning(w, p)
                              /\ Inside(w, s, at, q, p)
  <2>1. PICK p \in Nat : p = q + 1 /\ p \in 1 .. Size(w) /\ p <= at[N] /\ 1 <= q /\ q \in Nat
    BY <1>1
  <2>2. M[q] = Meaning(w, p)  BY <2>1
  <2>3. M[q] \in Text  BY <1>1, <2>1, <2>2, MeaningFacts
  <2>4. Inside(w, s, at, q, p)  BY <2>1, QuotedInside
  <2> QED  BY <2>1, <2>2, <2>3, <2>4
<1>3. M \in Seq(Text) /\ Len(M) = L  BY <1>2
<1> HIDE DEF M, N
<1>4. PICK f : Glued(f, M) /\ FlattenSeq(M) = f[L]  BY <1>3, FlattenIsGlued
<1>5. /\ f[0] = <<>> /\ \A k \in 0 .. L : f[k] \in Text
      /\ \A k \in 0 .. L, n \in 1 .. L : n = k + 1 => f[n] = f[k] \o M[n]
  BY <1>3, <1>4 DEF Glued
<1> DEFINE T == {k \in Nat : k <= N => \A d \in 0 .. L : d + 1 = at[k] => f[d] = Prefix(s, k)}
<1>6. 0 \in T
  <2>1. \A d \in 0 .. L : d + 1 = at[0] => d = 0  BY <1>1
  <2>2. f[0] = Prefix(s, 0)  BY <1>1, <1>5, PrefixFacts
  <2> QED  BY <2>1, <2>2
<1>7. ASSUME NEW k \in T PROVE k + 1 \in T
  <2>1. SUFFICES ASSUME NEW n \in 1 .. N, n = k + 1, NEW e \in 0 .. L, e + 1 = at[n]
        PROVE  f[e] = Prefix(s, n)
    BY <1>1
  <2>2. k \in 0 .. N /\ n \in 0 .. N  BY <1>1, <2>1
  <2>3. Prefix(s, n) = Prefix(s, k) \o <<Char(s, n)>>  BY <1>1, <2>1, <2>2, PrefixFacts DEF N
  <2>4. Spelt(w, at[k], at[n], Char(s, n)) /\ at[k] \in Nat /\ 1 <= at[k] /\ at[n] \in Nat
    BY <2>1, <2>2, QuotedModes DEF Quoted, N
  <2>5. PICK d \in 0 .. L : d + 1 = at[k] /\ (e = d + 1 \/ e = d + 2)
    <3>1. at[n] = at[k] + 1 \/ at[n] = at[k] + 2  BY <2>4 DEF Spelt
    <3>2. at[k] - 1 \in 0 .. L /\ (at[k] - 1) + 1 = at[k]  BY <2>1, <2>4, <3>1
    <3> QED  BY <2>1, <2>4, <3>1, <3>2
  <2>6. f[d] = Prefix(s, k)  BY <2>2, <2>5
  <2> DEFINE c == Char(s, n)
  <2>7. CASE e = d + 1
    <3>1. e \in 1 .. L  BY <2>5, <2>7
    <3>3. f[e] = f[d] \o M[e]  BY <1>5, <2>5, <2>7, <3>1, Zenon
    <3>2. M[e] = <<c>>
      <4>1. PICK p \in Nat : p = e + 1 /\ p \in 1 .. Size(w) /\ M[e] = Meaning(w, p)
        BY <1>2, <3>1
      <4>2. p = at[n] /\ at[n] = at[k] + 1 /\ e = at[k]  BY <2>1, <2>4, <2>5, <2>7, <4>1
      <4>3. Char(w, p) = c /\ Char(w, p) # Backslash  BY <2>4, <4>2 DEF Spelt
      <4>4. ModeAt(w, e) = "quoted"  BY <2>2, <4>2, QuotedModes DEF N
      <4> QED  BY <1>1, <4>1, <4>3, <4>4, MeaningFacts
    <3> QED  BY <2>3, <2>6, <3>2, <3>3
  <2>8. CASE e = d + 2
    <3>1. PICK m \in 1 .. L : m = d + 1 /\ e = m + 1 /\ e \in 1 .. L /\ m \in 0 .. L
      BY <2>5, <2>8
    <3>2. f[m] = f[d] \o M[m] /\ f[e] = f[m] \o M[e]  BY <1>5, <2>5, <3>1
    <3>3. at[n] = at[k] + 2 /\ m = at[k] /\ e = at[k] + 1  BY <2>1, <2>4, <2>5, <3>1
    <3>4. Char(w, at[k] + 1) = Backslash /\ EscapeMeans(Char(w, at[n])) = <<c>>
      BY <2>4, <3>3 DEF Spelt
    <3>5. ModeAt(w, m) = "quoted"  BY <2>2, <3>3, QuotedModes DEF N
    <3>6. M[m] = <<>>
      <4>1. PICK p \in Nat : p = m + 1 /\ p \in 1 .. Size(w) /\ M[m] = Meaning(w, p)
        BY <1>2, <3>1
      <4>2. Char(w, p) = Backslash  BY <3>3, <3>4, <4>1
      <4> QED  BY <1>1, <3>5, <4>1, <4>2, MeaningFacts
    <3>7. M[e] = <<c>>
      <4>1. PICK p \in Nat : p = e + 1 /\ p \in 1 .. Size(w) /\ M[e] = Meaning(w, p)
        BY <1>2, <3>1
      <4>2. p = at[n] /\ e \in 1 .. Size(w) /\ m \in 0 .. Size(w) /\ e \in Nat
        BY <1>1, <2>1, <3>1, <4>1
      <4>3. ModeAt(w, e) = Turn(ModeAt(w, m), Char(w, e))  BY <1>1, <3>1, <4>2, ModeFacts
      <4>4. Char(w, e) = Backslash  BY <3>3, <3>4
      <4>5. ModeAt(w, e) = "escape"  BY <3>5, <4>3, <4>4, TurnFacts
      <4>6. EscapeMeans(Char(w, p)) = <<c>>  BY <3>4, <4>2
      <4> QED  BY <1>1, <4>1, <4>2, <4>5, <4>6, MeaningFacts
    <3>8. f[m] = f[d]
      <4>1. \A t \in Text : t \o <<>> = t  BY DEF Text
      <4> QED  BY <1>5, <3>2, <3>6, <4>1
    <3> QED  BY <2>3, <2>6, <3>2, <3>7, <3>8
  <2> QED  BY <2>5, <2>7, <2>8
<1> HIDE DEF T
<1>8. T = Nat  BY <1>6, <1>7, Induct DEF T
<1>9. f[L] = Prefix(s, N)  BY <1>1, <1>8 DEF T, N
<1>10. FlattenSeq(M) = s  BY <1>1, <1>4, <1>9, PrefixFacts DEF N
<1> QED  BY <1>10 DEF M

\* How to tell a least element.
LEMMA LeastIs ==
  ASSUME NEW S \in SUBSET Nat, NEW e \in S, \A i \in S : e <= i
  PROVE  Min(S) = e
<1> DEFINE Is(x) == x \in S /\ \A y \in S : x <= y
<1>1. \A x : Is(x) => x = e
  <2>1. SUFFICES ASSUME NEW x, Is(x) PROVE x = e  OBVIOUS
  <2>2. x \in Nat /\ e \in Nat /\ x <= e /\ e <= x  BY <2>1
  <2> QED  BY <2>2
<1>2. Is(e)  OBVIOUS
<1>3. Min(S) = CHOOSE x : Is(x)  BY DEF Min
<1> HIDE DEF Is
<1> QED  BY <1>1, <1>2, <1>3

\* The first quoted part of w closes after the last character of s.
LEMMA QuotedCloses ==
  ASSUME NEW w, NEW s, NEW at, Quoted(w, s, at), NEW e \in Nat, e = at[Size(s)] + 1
  PROVE  /\ e \in 1 .. Size(w) /\ Closing(w) # {} /\ Min(Closing(w)) = e
         /\ ModeAt(w, e) = "bare"
<1>1. /\ w \in Text /\ Size(w) \in Nat /\ at[Size(s)] \in Nat /\ 1 <= at[Size(s)]
      /\ e \in 1 .. Size(w) /\ Char(w, e) = Quote
  <2>1. Size(s) \in 0 .. Size(s)  BY QuotedModes
  <2> QED  BY <2>1, QuotedModes DEF Quoted
<1>2. Closing(w) = {i \in 1 .. Size(w) : ModeAt(w, i - 1) = "quoted" /\ ModeAt(w, i) = "bare"}
  BY <1>1 DEF Closing, Size, ModeAt, Text
<1>3. PICK l \in 0 .. Size(w) : l = at[Size(s)] /\ e = l + 1 /\ l = e - 1  BY <1>1
<1>4. ModeAt(w, l) = "quoted"
  <2>1. Size(s) \in 0 .. Size(s)  BY QuotedModes
  <2> QED  BY <1>3, <2>1, QuotedModes
<1>5. ModeAt(w, e) = "bare"
  <2>1. ModeAt(w, e) = Turn(ModeAt(w, l), Char(w, e))  BY <1>1, <1>3, ModeFacts
  <2> QED  BY <1>1, <1>4, <2>1, TurnFacts
<1>6. e \in Closing(w)  BY <1>1, <1>2, <1>3, <1>4, <1>5
<1>7. ASSUME NEW i \in Closing(w) PROVE e <= i
  <2>1. SUFFICES ASSUME i < e PROVE FALSE  BY <1>1, <1>2
  <2>2. PICK q \in Nat : /\ i = q + 1 /\ q = i - 1 /\ i \in Nat /\ i <= l
                         /\ ModeAt(w, q) = "quoted" /\ ModeAt(w, i) = "bare"
    BY <1>1, <1>2, <1>3, <2>1
  <2>3. q # 0
    <3>1. ModeAt(w, 0) = "bare"  BY <1>1, ModeFacts
    <3> QED  BY <2>2, <3>1
  <2>4. Inside(w, s, at, q, i)
    <3>1. 1 <= q /\ i <= at[Size(s)]  BY <1>3, <2>2, <2>3
    <3> QED  BY <2>2, <3>1, QuotedInside
  <2> QED  BY <2>2, <2>4 DEF Inside
<1>8. Min(Closing(w)) = e
  <2>1. Closing(w) \in SUBSET Nat  BY <1>1, <1>2
  <2> QED  BY <1>6, <1>7, <2>1, LeastIs
<1> QED  BY <1>1, <1>5, <1>6, <1>8

\* So parse_quoted ends there, with s.
LEMMA ParseQuoted ==
  ASSUME NEW w, NEW s, NEW at, Quoted(w, s, at), NEW e \in Nat, e = at[Size(s)] + 1
  PROVE  parse_quoted(w) = [text |-> s, end |-> e]
<1>1. PICK l \in Nat : l = at[Size(s)] /\ e = l + 1 /\ 1 <= l
  <2>1. Size(s) \in 0 .. Size(s)  BY QuotedModes
  <2> QED  BY <2>1, QuotedModes
<1>2. w \in Text /\ e \in 1 .. Size(w) /\ Size(w) \in Nat  BY QuotedCloses, QuotedModes DEF Quoted
<1>3. ~ \E i \in 2 .. e - 1 : Scan(w)[i - 1] = "escape" /\ EscapeMeans(w[i]) = <<>>
  <2>1. SUFFICES ASSUME NEW i \in 2 .. e - 1, Scan(w)[i - 1] = "escape", EscapeMeans(w[i]) = <<>>
                 PROVE  FALSE
    OBVIOUS
  <2>2. PICK q \in Nat : i = q + 1 /\ q = i - 1 /\ i \in Nat /\ i <= l /\ 1 <= q
    BY <1>1
  <2>3. ModeAt(w, q) = "escape" /\ EscapeMeans(Char(w, i)) = <<>>  BY <2>1, <2>2 DEF ModeAt, Char
  <2>4. Inside(w, s, at, q, i)  BY <1>1, <2>2, QuotedInside
  <2>5. PICK c : EscapeMeans(Char(w, i)) = <<c>>  BY <2>3, <2>4 DEF Inside
  <2> QED  BY <2>3, <2>5
<1>4. FlattenSeq([i \in 1 .. e - 2 |-> Meaning(w, i + 1)]) = s
  <2>1. PICK L \in Nat : L + 1 = l /\ L = e - 2  BY <1>1
  <2> QED  BY <1>1, <2>1, QuotedMeans
<1>5. Closing(w) # {} /\ Min(Closing(w)) = e  BY QuotedCloses
<1> QED  BY <1>3, <1>4, <1>5 DEF parse_quoted

\* A text in quotes is read back: parse_quoted makes of what quote_string
\* wrote the text it was written for, ends at its last quote, and is not led
\* astray by the quotes and backslashes in the text or by what follows it.
THEOREM QuotedIsRead ==
  ASSUME NEW s \in Text, NEW r \in Text
  PROVE  parse_quoted(quote_string(s) \o r) = [text |-> s, end |-> Len(quote_string(s))]
<1>1. PICK at : /\ Quoted(quote_string(s) \o r, s, at)
                /\ Size(quote_string(s)) = at[Size(s)] + 1
  BY QuotedText
<1>2. Size(quote_string(s)) \in Nat  BY QuotedText, SizeType
<1>3. parse_quoted(quote_string(s) \o r) = [text |-> s, end |-> Size(quote_string(s))]
  BY <1>1, <1>2, ParseQuoted
<1> QED  BY <1>3 DEF Size

-----------------------------------------------------------------------------
(* Trimming, and what a number begins with. *)

\* Nothing is trimmed before a character that is no blank.
LEMMA FirstIsFirst ==
  ASSUME NEW s \in Text, s # <<>>, s[1] \notin Blank
  PROVE  TrimStart(s) = s
<1> DEFINE S == {n \in 1 .. Len(s) : s[n] \notin Blank} \cup {Len(s) + 1}
<1>1. Len(s) \in Nat /\ 1 \in 1 .. Len(s)  BY DEF Text
<1>2. Min(S) = 1
  <2>1. S \in SUBSET Nat /\ 1 \in S /\ \A i \in S : 1 <= i  BY <1>1
  <2> HIDE DEF S
  <2> QED  BY <2>1, LeastIs
<1>3. SubSeq(s, 1, Len(s)) = s  BY DEF Text
<1> QED  BY <1>2, <1>3 DEF TrimStart, From, FirstAt

\* A text reversed.
LEMMA ReverseFacts ==
  ASSUME NEW s \in Text
  PROVE  /\ Reverse(s) \in Text /\ Reverse(Reverse(s)) = s
         /\ s # <<>> => Reverse(s) # <<>> /\ Reverse(s)[1] = s[Len(s)]
<1> DEFINE r == Reverse(s)
<1>1. Len(s) \in Nat /\ \A i \in 1 .. Len(s) : s[i] \in Character  BY DEF Text
<1>2. r \in Text /\ Len(r) = Len(s) /\ \A i \in 1 .. Len(s) : r[i] = s[Len(s) - i + 1]
  BY <1>1 DEF Reverse, Text
<1>3. s # <<>> => Reverse(s) # <<>> /\ Reverse(s)[1] = s[Len(s)]
  <2>1. SUFFICES ASSUME s # <<>> PROVE r # <<>> /\ r[1] = s[Len(s)]  OBVIOUS
  <2>2. Len(s) # 0 /\ Len(s) - 1 + 1 = Len(s)  BY <1>1, <2>1 DEF Text
  <2> HIDE DEF r
  <2> QED  BY <1>1, <1>2, <2>2
<1>4. Reverse(r) = s
  <2> HIDE DEF r
  <2>1. Len(Reverse(r)) = Len(s) /\ \A i \in 1 .. Len(s) : Reverse(r)[i] = r[Len(s) - i + 1]
    BY <1>1, <1>2 DEF Reverse
  <2>2. Reverse(r) \in Text  BY <1>1, <1>2 DEF Reverse, Text
  <2>3. ASSUME NEW i \in 1 .. Len(s) PROVE Reverse(r)[i] = s[i]
    <3> DEFINE n == Len(s)
    <3>1. n \in Nat /\ i \in 1 .. n  BY <1>1
    <3> HIDE DEF n
    <3>2. n - i + 1 \in 1 .. n /\ n - (n - i + 1) + 1 = i  BY <3>1
    <3>3. PICK j \in 1 .. n : j = n - i + 1 /\ n - j + 1 = i  BY <3>2
    <3> QED  BY <1>2, <2>1, <3>3 DEF n
  <2>4. Size(Reverse(r)) = Size(s) /\ \A i \in 1 .. Size(s) : Char(Reverse(r), i) = Char(s, i)
    BY <2>1, <2>3 DEF Size, Char
  <2> QED  BY <2>2, <2>4, SameText
<1> QED  BY <1>2, <1>3, <1>4

\* A text with no blank at its ends stays as it is.
LEMMA TrimEndKeeps ==
  ASSUME NEW s \in Text, s # <<>>, s[Len(s)] \notin Blank
  PROVE  TrimEnd(s) = s
<1>1. TrimStart(Reverse(s)) = Reverse(s)  BY ReverseFacts, FirstIsFirst
<1> QED  BY <1>1, ReverseFacts DEF TrimEnd

LEMMA TrimKeeps ==
  ASSUME NEW s \in Text, s # <<>>, s[1] \notin Blank, s[Len(s)] \notin Blank
  PROVE  Trim(s) = s
  BY FirstIsFirst, TrimEndKeeps DEF Trim

\* Digits begin with a digit, and so does a decimal number.
LEMMA DigitsStart ==
  ASSUME NEW s \in Text, IsDigits(s)
  PROVE  s # <<>> /\ s[1] \in Digit
<1>1. s # <<>> /\ \A i \in 1 .. Len(s) : s[i] \in Digit  BY DEF IsDigits, ToSet, Text
<1>2. 1 \in 1 .. Len(s)  BY <1>1 DEF Text
<1> QED  BY <1>1, <1>2

\* The part of a text before a place in it.
LEMMA BeforeFacts ==
  ASSUME NEW s \in Text, NEW i \in 1 .. Len(s)
  PROVE  /\ Before(s, i) \in Text
         /\ i = 1 => Before(s, i) = <<>>
         /\ i # 1 => Before(s, i) # <<>> /\ Before(s, i)[1] = s[1]
  BY DEF Before, Text

LEMMA DecimalStarts ==
  ASSUME NEW s \in Text, IsDecimal(s)
  PROVE  s # <<>> /\ s[1] \in Digit
<1>1. CASE IsDigits(s)  BY <1>1, DigitsStart
<1>2. CASE \E i \in DOMAIN s : s[i] = "." /\ IsDigits(Before(s, i)) /\ IsDigits(From(s, i + 1))
  <2>1. PICK i \in 1 .. Len(s) : IsDigits(Before(s, i))  BY <1>2 DEF Text
  <2>2. Before(s, i) # <<>> /\ Before(s, i)[1] \in Digit  BY <2>1, BeforeFacts, DigitsStart
  <2>3. i # 1  BY <2>2, BeforeFacts
  <2>4. s[1] \in Digit  BY <2>2, <2>3, BeforeFacts
  <2> QED  BY <2>1, <2>4 DEF Text
<1> QED  BY <1>1, <1>2 DEF IsDecimal

\* A number begins with a digit or a minus sign.
LEMMA NumberStarts ==
  ASSUME NEW s \in Text, looks_numeric(s)
  PROVE  s # <<>> /\ s[1] \in Digit \cup {"-"}
<1>1. CASE s # <<>> /\ s[1] = "-"  BY <1>1
<1>2. CASE ~(s # <<>> /\ s[1] = "-")
  <2>1. \/ IsDecimal(s)
        \/ \E i \in DOMAIN s :
             s[i] \in {"e", "E"} /\ IsDecimal(Before(s, i)) /\ IsExponent(From(s, i + 1))
    BY <1>2 DEF looks_numeric, Unsigned
  <2>2. CASE IsDecimal(s)  BY <2>2, DecimalStarts
  <2>3. CASE \E i \in DOMAIN s : IsDecimal(Before(s, i))
    <3>1. PICK i \in 1 .. Len(s) : IsDecimal(Before(s, i))  BY <2>3 DEF Text
    <3>2. Before(s, i) # <<>> /\ Before(s, i)[1] \in Digit  BY <3>1, BeforeFacts, DecimalStarts
    <3>3. i # 1  BY <3>2, BeforeFacts
    <3>4. s[1] \in Digit  BY <3>2, <3>3, BeforeFacts
    <3> QED  BY <3>1, <3>4 DEF Text
  <2> QED  BY <2>1, <2>2, <2>3
<1> QED  BY <1>1, <1>2

-----------------------------------------------------------------------------
(* Strings among the values without structure. *)

\* The quote is neither a blank nor the beginning of a number.
LEMMA QuoteIsNoStart ==
  Quote \notin Blank /\ Quote \notin Digit \cup {"-"}
  BY Zenon DEF Quote, Blank, Digit

\* A text in quotes begins and ends with one.
LEMMA QuotedEnds ==
  ASSUME NEW s \in Text
  PROVE  LET q == quote_string(s)
         IN q \in Text /\ q # <<>> /\ q[1] = Quote /\ q[Len(q)] = Quote
<1> DEFINE q == quote_string(s)
<1>1. <<>> \in Text /\ \A t \in Text : t \o <<>> = t  BY DEF Text
<1>2. PICK at : Quoted(q \o <<>>, s, at) /\ Size(q) = at[Size(s)] + 1  BY <1>1, QuotedText
<1>3. q \in Text  BY QuotedText
<1> HIDE DEF q
<1>4. q \o <<>> = q  BY <1>1, <1>3
<1>5. Quoted(q, s, at)  BY <1>2, <1>4
<1>6. Char(q, 1) = Quote /\ Char(q, Size(q)) = Quote /\ Size(q) \in Nat /\ Size(q) # 0
  <2>1. at[Size(s)] \in Nat  BY <1>5, QuotedModes
  <2> QED  BY <1>2, <1>5, <2>1 DEF Quoted
<1>7. q # <<>> /\ q[1] = Quote /\ q[Len(q)] = Quote  BY <1>3, <1>6 DEF Size, Char
<1> QED  BY <1>3, <1>7 DEF q

\* The reserved words begin with letters.
LEMMA ReservedStarts ==
  ASSUME NEW t \in Reserved
  PROVE  t # <<>> /\ t[1] \in {"t", "f", "n"}
  BY DEF Reserved

\* A text in quotes is not taken for anything else.
LEMMA QuotedToken ==
  ASSUME NEW s \in Text
  PROVE  parse_primitive_token(quote_string(s)) = Str(s)
<1> DEFINE q == quote_string(s)
<1>1. q \in Text /\ q # <<>> /\ q[1] = Quote /\ q[Len(q)] = Quote  BY QuotedEnds
<1>2. Trim(q) = q  BY <1>1, TrimKeeps, QuoteIsNoStart
<1>3. q \notin Reserved
  <2>1. Quote \notin {"t", "f", "n"}  BY Zenon DEF Quote
  <2> QED  BY <1>1, <2>1, ReservedStarts
<1>4. ~is_decodable_number(q)
  <2>1. ~looks_numeric(q)  BY <1>1, NumberStarts, QuoteIsNoStart
  <2> QED  BY <2>1 DEF is_decodable_number
<1>5. parse_quoted(q) = [text |-> s, end |-> Len(q)]
  <2>1. <<>> \in Text /\ \A t \in Text : t \o <<>> = t  BY DEF Text
  <2> QED  BY <1>1, <2>1, QuotedIsRead
<1> HIDE DEF q
<1>6. WholeQuoted(q) = Str(s)
  <2>1. ~Failed([text |-> s, end |-> Len(q)])  BY DEF Failed
  <2> QED  BY <1>5, <2>1 DEF WholeQuoted, IfRead
<1>7. parse_primitive_token(q) = WholeQuoted(q)
  BY <1>1, <1>2, <1>3, <1>4 DEF parse_primitive_token
<1> QED  BY <1>6, <1>7 DEF q

\* Neither is a text that is written without.
LEMMA BareToken ==
  ASSUME NEW s \in Text, NEW d, ~needs_quoting(s, d)
  PROVE  parse_primitive_token(s) = Str(s)
<1>1. /\ s # <<>> /\ s[1] \notin Blank /\ s[Len(s)] \notin Blank /\ s \notin Reserved
      /\ ~looks_numeric(s) /\ \A i \in DOMAIN s : s[i] # Quote
  BY DEF needs_quoting, IsBlank, Last
<1>2. s[1] # Quote
  <2>1. 1 \in DOMAIN s  BY <1>1 DEF Text
  <2> QED  BY <1>1, <2>1
<1>3. Trim(s) = s  BY <1>1, TrimKeeps
<1>4. ~is_decodable_number(s)  BY <1>1 DEF is_decodable_number
<1> QED  BY <1>1, <1>2, <1>3, <1>4 DEF parse_primitive_token

\* A string is read back: parse_primitive_token makes of what
\* encode_primitive wrote for a string that string again, whatever it holds
\* (blanks at its ends, digits, a reserved word, quotes) and whatever the
\* delimiter: needs_quoting puts in quotes all that would be read otherwise.
THEOREM StringIsRead ==
  ASSUME NEW s \in Text, NEW delim
  PROVE  parse_primitive_token(encode_primitive(Str(s), delim)) = Str(s)
<1>1. Str(s).kind = "string" /\ Str(s).text = s  BY DEF Str
<1>2. CASE needs_quoting(s, delim)
  <2>1. encode_primitive(Str(s), delim) = quote_string(s)  BY <1>1, <1>2 DEF encode_primitive
  <2> QED  BY <2>1, QuotedToken
<1>3. CASE ~needs_quoting(s, delim)
  <2>1. encode_primitive(Str(s), delim) = s  BY <1>1, <1>3 DEF encode_primitive
  <2> QED  BY <1>3, <2>1, BareToken
<1> QED  BY <1>2, <1>3

-----------------------------------------------------------------------------
(* Rows. *)

\* t stands in w after place a.
Stands(t, w, a) ==
  a + Size(t) <= Size(w) /\ \A i \in 1 .. Size(t) : Char(w, a + i) = Char(t, i)

\* A pass that comes bare to where t stands in w goes through it like a pass
\* over t.
LEMMA ScanInside ==
  ASSUME NEW w \in Text, NEW t \in Text, NEW a \in Nat, Stands(t, w, a), ModeAt(w, a) = "bare"
  PROVE  \A i \in 0 .. Size(t) : ModeAt(w, a + i) = ModeAt(t, i)
<1> DEFINE T == {i \in Nat : i <= Size(t) => ModeAt(w, a + i) = ModeAt(t, i)}
<1>1. /\ Size(w) \in Nat /\ Size(t) \in Nat /\ a + Size(t) <= Size(w)
      /\ \A i \in 1 .. Size(t) : Char(w, a + i) = Char(t, i)
  BY SizeType DEF Stands
<1>2. 0 \in T
  <2>1. ModeAt(t, 0) = "bare"  BY ModeFacts
  <2> QED  BY <2>1
<1>3. ASSUME NEW k \in T PROVE k + 1 \in T
  <2>1. SUFFICES ASSUME k + 1 <= Size(t) PROVE ModeAt(w, a + (k + 1)) = ModeAt(t, k + 1)
    OBVIOUS
  <2>2. PICK n \in 1 .. Size(t) : n = k + 1 /\ k \in 0 .. Size(t)  BY <1>1, <2>1
  <2>3. PICK p \in 0 .. Size(w), q \in 1 .. Size(w) : p = a + k /\ q = a + n /\ q = p + 1
    BY <1>1, <2>1, <2>2
  <2>4. ModeAt(w, q) = Turn(ModeAt(w, p), Char(w, q))  BY <2>3, ModeFacts
  <2>5. ModeAt(t, n) = Turn(ModeAt(t, k), Char(t, n))  BY <2>2, ModeFacts
  <2>6. ModeAt(w, p) = ModeAt(t, k)  BY <2>1, <2>2, <2>3
  <2>7. Char(w, q) = Char(t, n)  BY <1>1, <2>2, <2>3
  <2>8. ModeAt(w, q) = ModeAt(t, n)  BY <2>4, <2>5, <2>6, <2>7
  <2> QED  BY <2>2, <2>3, <2>8
<1> HIDE DEF T
<1>4. T = Nat  BY <1>2, <1>3, Induct DEF T
<1> QED  BY <1>4 DEF T

\* t leaves a pass bare, and has d only inside quotes.
Closed(t, d) ==
  /\ t \in Text /\ ModeAt(t, Size(t)) = "bare"
  /\ \A k \in 0 .. Size(t), i \in 1 .. Size(t) :
       i = k + 1 => ~(Char(t, i) = d /\ ModeAt(t, k) = "bare")

\* A text without quotes is bare throughout.
LEMMA PlainIsClosed ==
  ASSUME NEW t \in Text, NEW d, \A i \in 1 .. Size(t) : Char(t, i) # Quote /\ Char(t, i) # d
  PROVE  Closed(t, d)
<1> DEFINE T == {k \in Nat : k <= Size(t) => ModeAt(t, k) = "bare"}
<1>1. Size(t) \in Nat  BY SizeType
<1>2. 0 \in T  BY ModeFacts
<1>3. ASSUME NEW k \in T PROVE k + 1 \in T
  <2>1. SUFFICES ASSUME NEW n \in 1 .. Size(t), n = k + 1 PROVE ModeAt(t, n) = "bare"
    BY <1>1
  <2>2. k \in 0 .. Size(t) /\ ModeAt(t, k) = "bare"  BY <1>1, <2>1
  <2>3. ModeAt(t, n) = Turn(ModeAt(t, k), Char(t, n))  BY <2>1, <2>2, ModeFacts
  <2> QED  BY <2>2, <2>3, TurnFacts
<1> HIDE DEF T
<1>4. T = Nat  BY <1>2, <1>3, Induct DEF T
<1>5. ModeAt(t, Size(t)) = "bare"  BY <1>1, <1>4 DEF T
<1> QED  BY <1>5 DEF Closed

\* Neither does a text in quotes have d bare.
LEMMA QuotedIsClosed ==
  ASSUME NEW s \in Text, NEW d, d # Quote
  PROVE  Closed(quote_string(s), d)
<1> DEFINE w == quote_string(s)
<1>1. <<>> \in Text /\ \A t \in Text : t \o <<>> = t  BY DEF Text
<1>2. PICK at : Quoted(w \o <<>>, s, at) /\ Size(w) = at[Size(s)] + 1  BY <1>1, QuotedText
<1>3. w \in Text  BY QuotedText
<1> HIDE DEF w
<1>4. w \o <<>> = w  BY <1>1, <1>3
<1>5. Quoted(w, s, at)  BY <1>2, <1>4
<1>6. Size(w) \in Nat  BY <1>3, SizeType
<1>7. ModeAt(w, Size(w)) = "bare"  BY <1>2, <1>5, <1>6, QuotedCloses
<1>8. ASSUME NEW q \in 0 .. Size(w), NEW p \in 1 .. Size(w), p = q + 1
      PROVE  ~(Char(w, p) = d /\ ModeAt(w, q) = "bare")
  <2>1. CASE p = 1  BY <1>5, <2>1 DEF Quoted
  <2>2. CASE p = Size(w)  BY <1>2, <1>5, <2>2 DEF Quoted
  <2>3. CASE p # 1 /\ p # Size(w)
    <3>1. at[Size(s)] \in Nat  BY <1>5, QuotedModes
    <3>2. q \in Nat /\ p \in Nat /\ 1 <= q /\ p <= at[Size(s)]  BY <1>2, <1>6, <1>8, <2>3, <3>1
    <3>3. Inside(w, s, at, q, p)  BY <1>5, <1>8, <3>2, QuotedInside
    <3> QED  BY <3>3 DEF Inside
  <2> QED  BY <2>1, <2>2, <2>3
<1> QED  BY <1>3, <1>7, <1>8 DEF w, Closed

\* What Bare finds.
LEMMA BareFacts ==
  ASSUME NEW w \in Text, NEW d, NEW k \in 0 .. Size(w), NEW i \in 1 .. Size(w), i = k + 1
  PROVE  i \in Bare(w, d) <=> Char(w, i) = d /\ ModeAt(w, k) = "bare"
<1>1. k = i - 1 /\ DOMAIN w = 1 .. Size(w)  BY SizeType DEF Text, Size
<1> QED  BY <1>1 DEF Bare, Char, ModeAt

Parts == Seq(Text) \ {<<>>}

\* Longer changes the last part only.
LEMMA LongerIs ==
  ASSUME NEW p \in Seq(Text), NEW c
  PROVE  Longer(p, c) = [i \in 1 .. Len(p) |-> IF i = Len(p) THEN Append(p[Len(p)], c) ELSE p[i]]
<1> DEFINE n == Len(p)
           v == Append(p[n], c)
<1>1. p = [i \in 1 .. n |-> p[i]]  OBVIOUS
<1>2. Longer(p, c) = [p EXCEPT ![n] = v]  BY DEF Longer
<1> HIDE DEF n, v
<1>3. [p EXCEPT ![n] = v] = [i \in 1 .. n |-> IF i = n THEN v ELSE p[i]]  BY <1>1
<1> QED  BY <1>2, <1>3 DEF n, v

\* Characters appended to the last part make it what they spell.
LEMMA LongerFacts ==
  ASSUME NEW x \in Seq(Text), NEW t \in Text, NEW c \in Character
  PROVE  /\ Append(x, t) \in Parts
         /\ Longer(Append(x, t), c) = Append(x, t \o <<c>>)
<1> DEFINE p == Append(x, t)
           u == t \o <<c>>
           v == Append(x, u)
           z == Longer(p, c)
<1>1. u \in Text /\ Append(t, c) = u  BY DEF Text
<1> HIDE DEF u
<1>2. /\ Len(x) \in Nat /\ p \in Seq(Text) /\ Len(p) = Len(x) + 1 /\ p[Len(x) + 1] = t
      /\ \A i \in 1 .. Len(x) : p[i] = x[i]
  OBVIOUS
<1>3. /\ v \in Seq(Text) /\ Len(v) = Len(x) + 1 /\ v[Len(x) + 1] = u
      /\ \A i \in 1 .. Len(x) : v[i] = x[i]
  BY <1>1
<1> HIDE DEF p, v
<1>4. z = [i \in 1 .. Len(x) + 1 |-> IF i = Len(x) + 1 THEN u ELSE p[i]]
  <2>1. z = [i \in 1 .. Len(p) |-> IF i = Len(p) THEN Append(p[Len(p)], c) ELSE p[i]]
    BY <1>2, LongerIs
  <2> QED  BY <1>1, <1>2, <2>1
<1>5. z \in Seq(Text) /\ Len(z) = Len(x) + 1 /\ \A i \in 1 .. Len(x) + 1 : z[i] = v[i]
  <2>1. \A i \in 1 .. Len(x) + 1 : (IF i = Len(x) + 1 THEN u ELSE p[i]) \in Text
    BY <1>1, <1>2
  <2>2. \A i \in 1 .. Len(x) + 1 : (IF i = Len(x) + 1 THEN u ELSE p[i]) = v[i]
    BY <1>2, <1>3
  <2> QED  BY <1>2, <1>4, <2>1, <2>2
<1> HIDE DEF z
<1>6. z = v  BY <1>2, <1>3, <1>5
<1>7. p \in Parts  BY <1>2 DEF Parts
<1> QED  BY <1>6, <1>7 DEF p, u, v, z

\* f is what has been cut off s after each of its characters.
Cutting(f, s, cuts) ==
  /\ f \in [0 .. Size(s) -> Parts] /\ f[0] = << <<>> >>
  /\ \A k \in 0 .. Size(s), i \in 1 .. Size(s) : i = k + 1 =>
       f[i] = IF i \in cuts THEN Append(f[k], <<>>) ELSE Longer(f[k], Char(s, i))

\* Parts stay a list of texts that is not empty.
LEMMA PartsGrow ==
  ASSUME NEW p \in Parts, NEW c \in Character
  PROVE  Append(p, <<>>) \in Parts /\ Longer(p, c) \in Parts
<1>1. p \in Seq(Text) /\ Len(p) \in Nat /\ Len(p) # 0  BY DEF Parts
<1>2. <<>> \in Text  BY DEF Text
<1>3. Append(p, <<>>) \in Parts  BY <1>1, <1>2, LongerFacts
<1> DEFINE n == Len(p)
           z == Longer(p, c)
<1>4. Append(p[n], c) \in Text
  <2>1. p[n] \in Text  BY <1>1
  <2> QED  BY <2>1 DEF Text
<1>5. z = [i \in 1 .. n |-> IF i = n THEN Append(p[n], c) ELSE p[i]]  BY <1>1, LongerIs
<1>6. \A i \in 1 .. n : p[i] \in Text  BY <1>1
<1>7. z \in Seq(Text) /\ Len(z) = n
  <2> HIDE DEF z
  <2>1. \A i \in 1 .. n : (IF i = n THEN Append(p[n], c) ELSE p[i]) \in Text  BY <1>4, <1>6
  <2> QED  BY <1>1, <1>5, <2>1
<1> HIDE DEF z
<1>8. z \in Parts  BY <1>1, <1>7 DEF Parts
<1> QED  BY <1>3, <1>8 DEF z

\* CutAt goes through a text one character at a time.
LEMMA CutIsCutting ==
  ASSUME NEW s \in Text, NEW cuts
  PROVE  \E f : Cutting(f, s, cuts) /\ CutAt(s, cuts) = f[Size(s)]
<1> DEFINE n == Len(s)
           Is(m) == m = [i \in 0 .. n |-> IF i = 0 THEN << <<>> >>
                                          ELSE IF i \in cuts THEN Append(m[i - 1], <<>>)
                                          ELSE Longer(m[i - 1], s[i])]
           step == [i \in 1 .. n |-> [p \in Parts |->
                      IF i \in cuts THEN Append(p, <<>>) ELSE Longer(p, s[i])]]
           one == << <<>> >>
<1>1. n \in Nat /\ \A i \in 1 .. n : s[i] \in Character  BY DEF Text
<1>2. step \in [1 .. n -> [Parts -> Parts]]  BY <1>1, PartsGrow
<1>3. one \in Parts
  <2>1. <<>> \in Text  BY DEF Text
  <2> QED  BY <2>1 DEF Parts
<1>4. PICK f : Steps(f, n, Parts, one, step)
  <2> HIDE DEF step, n, one
  <2> QED  BY <1>1, <1>2, <1>3, Recursion
<1>5. ASSUME NEW k \in 0 .. n, NEW i \in 1 .. n, i = k + 1
      PROVE  f[i] = IF i \in cuts THEN Append(f[k], <<>>) ELSE Longer(f[k], s[i])
  <2>1. k = i - 1 /\ f[k] \in Parts  BY <1>1, <1>4, <1>5 DEF Steps
  <2>2. \A p \in Parts : step[i][p] = IF i \in cuts THEN Append(p, <<>>) ELSE Longer(p, s[i])
    OBVIOUS
  <2>3. f[i] = step[i][f[k]]  BY <1>4, <2>1 DEF Steps
  <2> HIDE DEF step
  <2> QED  BY <2>1, <2>2, <2>3
<1>6. f \in [0 .. n -> Parts] /\ f[0] = one  BY <1>4 DEF Steps
<1> HIDE DEF step
<1>7. Cutting(f, s, cuts)  BY <1>5, <1>6 DEF Cutting, Size, Char
<1> DEFINE m == CHOOSE m : Is(m)
<1>8. Is(f)
  <2> DEFINE h(i) == IF i = 0 THEN << <<>> >>
                     ELSE IF i \in cuts THEN Append(f[i - 1], <<>>) ELSE Longer(f[i - 1], s[i])
  <2>1. ASSUME NEW i \in 0 .. n PROVE f[i] = h(i)
    <3>1. CASE i = 0  BY <1>6, <3>1
    <3>2. CASE i # 0
      <4>1. PICK k \in 0 .. n : k = i - 1 /\ i = k + 1 /\ i \in 1 .. n  BY <1>1, <3>2
      <4> QED  BY <1>5, <3>2, <4>1
    <3> QED  BY <3>1, <3>2
  <2> HIDE DEF h
  <2>2. f = [i \in 0 .. n |-> h(i)]  BY <1>6, <2>1
  <2> QED  BY <2>2 DEF h
<1>9. Is(m)
  <2> HIDE DEF Is
  <2> QED  BY <1>8
<1>10. CutAt(s, cuts) = m[n]  BY DEF CutAt
<1> HIDE DEF m
<1>11. m[0] = one  BY <1>1, <1>9
<1>12. ASSUME NEW k \in 0 .. n, NEW i \in 1 .. n, i = k + 1
       PROVE  m[i] = IF i \in cuts THEN Append(m[k], <<>>) ELSE Longer(m[k], s[i])
  <2>1. k = i - 1 /\ i # 0 /\ i \in 0 .. n  BY <1>1, <1>12
  <2>2. m[i] = IF i = 0 THEN << <<>> >>
               ELSE IF i \in cuts THEN Append(m[i - 1], <<>>) ELSE Longer(m[i - 1], s[i])
    BY <1>9, <2>1
  <2> QED  BY <2>1, <2>2
<1> HIDE DEF Is
<1> DEFINE T == {k \in Nat : k <= n => m[k] = f[k]}
<1>13. 0 \in T  BY <1>6, <1>11
<1>14. ASSUME NEW k \in T PROVE k + 1 \in T
  <2>1. SUFFICES ASSUME NEW i \in 1 .. n, i = k + 1 PROVE m[i] = f[i]  BY <1>1
  <2>2. k \in 0 .. n /\ m[k] = f[k]  BY <1>1, <2>1
  <2>3. m[i] = IF i \in cuts THEN Append(m[k], <<>>) ELSE Longer(m[k], s[i])
    BY <1>12, <2>1, <2>2
  <2>4. f[i] = IF i \in cuts THEN Append(f[k], <<>>) ELSE Longer(f[k], s[i])
    BY <1>5, <2>1, <2>2
  <2> QED  BY <2>2, <2>3, <2>4
<1> HIDE DEF T
<1>15. T = Nat  BY <1>13, <1>14, Induct DEF T
<1>16. m[n] = f[n]  BY <1>1, <1>15 DEF T
<1> QED  BY <1>7, <1>10, <1>16 DEF Size

\* Where the pass goes through t without a cut, t becomes the last part.
LEMMA CellStep ==
  ASSUME NEW w \in Text, NEW d, NEW f, Cutting(f, w, Bare(w, d)),
         NEW t, Closed(t, d), NEW a \in Nat, Stands(t, w, a), ModeAt(w, a) = "bare",
         NEW x \in Seq(Text), f[a] = Append(x, <<>>)
  PROVE  f[a + Size(t)] = Append(x, t) /\ ModeAt(w, a + Size(t)) = "bare"
<1>1. /\ t \in Text /\ Size(t) \in Nat /\ Size(w) \in Nat /\ a + Size(t) <= Size(w)
      /\ \A i \in 1 .. Size(t) : Char(w, a + i) = Char(t, i)
  BY SizeType DEF Closed, Stands
<1>2. \A i \in 0 .. Size(t) : ModeAt(w, a + i) = ModeAt(t, i)  BY <1>1, ScanInside
<1>3. Prefix(t, 0) = <<>> /\ Prefix(t, Size(t)) = t  BY <1>1, PrefixFacts
<1> DEFINE T == {k \in Nat : k <= Size(t) => f[a + k] = Append(x, Prefix(t, k))}
<1>4. 0 \in T  BY <1>3
<1>5. ASSUME NEW k \in T PROVE k + 1 \in T
  <2>1. SUFFICES ASSUME k + 1 <= Size(t) PROVE f[a + (k + 1)] = Append(x, Prefix(t, k + 1))
    OBVIOUS
  <2>2. PICK n \in 1 .. Size(t) : n = k + 1 /\ k \in 0 .. Size(t)  BY <1>1, <2>1
  <2>3. PICK p \in 0 .. Size(w), q \in 1 .. Size(w) : p = a + k /\ q = a + n /\ q = p + 1
    BY <1>1, <2>1, <2>2
  <2>4. f[p] = Append(x, Prefix(t, k))  BY <2>1, <2>2, <2>3
  <2>5. Char(w, q) = Char(t, n) /\ ModeAt(w, p) = ModeAt(t, k)  BY <1>1, <1>2, <2>2, <2>3
  <2> HIDE DEF T
  <2>6. q \notin Bare(w, d)
    <3>1. ~(Char(t, n) = d /\ ModeAt(t, k) = "bare")  BY <2>2 DEF Closed
    <3>2. q \in Bare(w, d) <=> Char(w, q) = d /\ ModeAt(w, p) = "bare"
      BY <2>3, BareFacts
    <3> QED  BY <2>5, <3>1, <3>2
  <2>7. f[q] = Longer(f[p], Char(w, q))  BY <2>3, <2>6 DEF Cutting
  <2>8. Char(t, n) \in Character /\ Prefix(t, k) \in Text  BY <1>1, <2>2, PrefixFacts
  <2>9. f[q] = Append(x, Prefix(t, k) \o <<Char(t, n)>>)  BY <2>4, <2>5, <2>7, <2>8, LongerFacts
  <2>10. Prefix(t, k) \o <<Char(t, n)>> = Prefix(t, n)  BY <1>1, <2>2, PrefixFacts
  <2> QED  BY <2>2, <2>3, <2>9, <2>10
<1> HIDE DEF T
<1>6. T = Nat  BY <1>4, <1>5, Induct DEF T
<1>7. f[a + Size(t)] = Append(x, t)
  <2>1. Size(t) \in T  BY <1>1, <1>6
  <2> QED  BY <1>1, <1>3, <2>1 DEF T
<1>8. ModeAt(w, a + Size(t)) = ModeAt(t, Size(t))  BY <1>1, <1>2
<1> QED  BY <1>7, <1>8 DEF Closed

\* The same, the end of t having a name.
LEMMA CellEnd ==
  ASSUME NEW w \in Text, NEW d, NEW f, Cutting(f, w, Bare(w, d)),
         NEW t, Closed(t, d), NEW a \in Nat, Stands(t, w, a), ModeAt(w, a) = "bare",
         NEW x \in Seq(Text), f[a] = Append(x, <<>>), NEW b, a + Size(t) = b
  PROVE  f[b] = Append(x, t) /\ ModeAt(w, b) = "bare"
BY CellStep

\* The first parts of a list, one more at a time.
LEMMA FirstParts ==
  ASSUME NEW texts \in Seq(Text)
  PROVE  /\ Prefix(texts, 0) = <<>> /\ Prefix(texts, Len(texts)) = texts
         /\ \A k \in 0 .. Len(texts), n \in 1 .. Len(texts) : n = k + 1 =>
              /\ Prefix(texts, k) \in Seq(Text)
              /\ Append(Prefix(texts, k), texts[n]) = Prefix(texts, n)
<1>1. Prefix(texts, 0) = <<>> /\ Prefix(texts, Len(texts)) = texts  BY DEF Prefix
<1>2. ASSUME NEW k \in 0 .. Len(texts), NEW n \in 1 .. Len(texts), n = k + 1
      PROVE  /\ Prefix(texts, k) \in Seq(Text)
             /\ Append(Prefix(texts, k), texts[n]) = Prefix(texts, n)
  <2>1. Len(texts) \in Nat /\ k \in Nat /\ \A i \in 1 .. n : texts[i] \in Text  BY <1>2
  <2> DEFINE p == Prefix(texts, k)
             q == Append(p, texts[n])
             r == Prefix(texts, n)
  <2>2. p \in Seq(Text) /\ Len(p) = k /\ \A i \in 1 .. k : p[i] = texts[i]
    BY <1>2, <2>1 DEF Prefix
  <2>3. r \in Seq(Text) /\ Len(r) = n /\ \A i \in 1 .. n : r[i] = texts[i]
    BY <1>2, <2>1 DEF Prefix
  <2> HIDE DEF p, r
  <2>4. q \in Seq(Text) /\ Len(q) = n /\ q[n] = texts[n] /\ \A i \in 1 .. k : q[i] = p[i]
    BY <1>2, <2>1, <2>2
  <2> HIDE DEF q
  <2>5. \A i \in 1 .. n : q[i] = r[i]  BY <1>2, <2>1, <2>2, <2>3, <2>4
  <2>6. q = r  BY <2>3, <2>4, <2>5
  <2> QED  BY <2>2, <2>6 DEF p, q, r
<1> QED  BY <1>1, <1>2

\* A row is taken apart into the cells it was put together from.
LEMMA SplitJoined ==
  ASSUME NEW texts \in Seq(Text), texts # <<>>, NEW d \in Character, d # Quote,
         \A i \in 1 .. Len(texts) : Closed(texts[i], d)
  PROVE  split_delimited(Joined(texts, d), d) = texts
<1> DEFINE N == Len(texts)
           J == [i \in 1 .. N |-> (IF i = 1 THEN <<>> ELSE <<d>>) \o texts[i]]
           w == Joined(texts, d)
<1>1. N \in Nat /\ 1 <= N /\ \A i \in 1 .. N : texts[i] \in Text  OBVIOUS
<1>2. <<>> \in Text /\ Size(<<>>) = 0 /\ <<d>> \in Text /\ Size(<<d>>) = 1 /\ Char(<<d>>, 1) = d
  <2>1. <<>> \in Text /\ Size(<<>>) = 0  BY DEF Text, Size
  <2> QED  BY <2>1, One
<1>3. ASSUME NEW i \in 1 .. N
      PROVE  /\ J[i] \in Text
             /\ i = 1 => J[i] = texts[i]
             /\ i # 1 => /\ Size(J[i]) = 1 + Size(texts[i]) /\ Char(J[i], 1) = d
                         /\ \A j \in 1 .. Size(texts[i]) : Char(J[i], 1 + j) = Char(texts[i], j)
  <2> DEFINE t == texts[i]
  <2>1. t \in Text  BY <1>1
  <2> HIDE DEF t
  <2>2. CASE i = 1
    <3>1. J[i] = <<>> \o t  BY <2>2 DEF t
    <3>2. <<>> \o t = t  BY <2>1 DEF Text
    <3> QED  BY <2>1, <2>2, <3>1, <3>2 DEF t
  <2>3. CASE i # 1
    <3>1. J[i] = <<d>> \o t  BY <2>3 DEF t
    <3>2. /\ <<d>> \o t \in Text /\ Size(<<d>> \o t) = Size(<<d>>) + Size(t)
          /\ \A j \in 1 .. Size(<<d>>) : Char(<<d>> \o t, j) = Char(<<d>>, j)
          /\ \A j \in 1 .. Size(t) : Char(<<d>> \o t, Size(<<d>>) + j) = Char(t, j)
      BY <1>2, <2>1, Concat
    <3> HIDE DEF J
    <3>3. J[i] \in Text /\ Size(J[i]) = 1 + Size(t)  BY <1>2, <3>1, <3>2
    <3>4. Char(J[i], 1) = d /\ \A j \in 1 .. Size(t) : Char(J[i], 1 + j) = Char(t, j)
      BY <1>2, <3>1, <3>2
    <3> QED  BY <2>3, <3>3, <3>4 DEF t
  <2> QED  BY <2>2, <2>3
<1>4. J \in Seq(Text) /\ Len(J) = N
  <2>1. J = [i \in 1 .. N |-> J[i]]  OBVIOUS
  <2> HIDE DEF J
  <2> QED  BY <1>1, <1>3, <2>1
<1>5. w = FlattenSeq(J)  BY DEF Joined
<1> HIDE DEF J, w
<1>6. PICK at : Pieces(w, at, J)  BY <1>4, <1>5, FlattenPieces
<1> HIDE DEF N
<1>7. /\ w \in Text /\ Size(w) \in Nat /\ at \in [0 .. N -> Nat] /\ at[0] = 0 /\ at[N] = Size(w)
      /\ \A k \in 0 .. N, n \in 1 .. N : n = k + 1 =>
           /\ Size(J[n]) \in Nat /\ at[n] = at[k] + Size(J[n]) /\ at[n] <= Size(w)
           /\ \A i \in 1 .. Size(J[n]) : Char(w, at[k] + i) = Char(J[n], i)
  BY <1>4, <1>6, SizeType DEF Pieces
<1>8. PICK f : Cutting(f, w, Bare(w, d)) /\ CutAt(w, Bare(w, d)) = f[Size(w)]
  BY <1>7, CutIsCutting
<1>9. /\ Prefix(texts, 0) = <<>> /\ Prefix(texts, N) = texts
      /\ \A k \in 0 .. N, n \in 1 .. N : n = k + 1 =>
           /\ Prefix(texts, k) \in Seq(Text)
           /\ Append(Prefix(texts, k), texts[n]) = Prefix(texts, n)
  BY FirstParts DEF N
<1> DEFINE Upto(n) == f[at[n]] = Prefix(texts, n) /\ ModeAt(w, at[n]) = "bare"
           T == {k \in Nat : \A n \in 1 .. N : n = k + 1 => Upto(n)}
<1>10. ASSUME NEW k \in 0 .. N, NEW n \in 1 .. N, n = k + 1, NEW a \in Nat,
              a + Size(texts[n]) = at[n], ModeAt(w, a) = "bare",
              f[a] = Append(Prefix(texts, k), <<>>),
              \A i \in 1 .. Size(texts[n]) : Char(w, a + i) = Char(texts[n], i)
       PROVE  Upto(n)
  <2> DEFINE t == texts[n]
             x == Prefix(texts, k)
  <2>1. t \in Text /\ Closed(t, d) /\ at[n] <= Size(w)  BY <1>1, <1>7, <1>10 DEF N
  <2>2. x \in Seq(Text) /\ Append(x, t) = Prefix(texts, n)  BY <1>9, <1>10
  <2>3. Stands(t, w, a)  BY <1>10, <2>1 DEF Stands
  <2>5. ModeAt(w, a) = "bare" /\ f[a] = Append(x, <<>>) /\ a + Size(t) = at[n]  BY <1>10
  <2>6. w \in Text /\ Cutting(f, w, Bare(w, d))  BY <1>7, <1>8
  <2> HIDE DEF t, x, T, Upto
  <2>4. f[at[n]] = Append(x, t) /\ ModeAt(w, at[n]) = "bare"
    <3>1. a + Size(t) = at[n]  BY <2>5
    <3>2. Closed(t, d)  BY <2>1
    <3>3. x \in Seq(Text)  BY <2>2
    <3>4. ModeAt(w, a) = "bare"  BY <2>5
    <3>5. f[a] = Append(x, <<>>)  BY <2>5
    <3>6. Cutting(f, w, Bare(w, d))  BY <2>6
    <3>7. w \in Text  BY <2>6
    <3> HIDE DEF N, J, w
    <3> QED  BY ONLY <2>3, <3>1, <3>2, <3>3, <3>4, <3>5, <3>6, <3>7, CellEnd
  <2> QED  BY <2>2, <2>4 DEF Upto
<1>11. 0 \in T
  <2>1. SUFFICES ASSUME NEW n \in 1 .. N, n = 0 + 1 PROVE Upto(n)  OBVIOUS
  <2>2. 0 \in 0 .. N /\ n = 1  BY <1>1, <2>1
  <2>3. J[n] = texts[n] /\ Size(J[n]) \in Nat  BY <1>3, <1>7, <2>2
  <2>4. /\ at[n] = 0 + Size(texts[n])
        /\ \A i \in 1 .. Size(texts[n]) : Char(w, 0 + i) = Char(texts[n], i)
    BY <1>7, <2>2, <2>3
  <2>5. f[0] = Append(Prefix(texts, 0), <<>>)
    <3>1. f[0] = << <<>> >>  BY <1>8 DEF Cutting
    <3>2. Append(<<>>, <<>>) = << <<>> >>  OBVIOUS
    <3> QED  BY <1>9, <3>1, <3>2
  <2>6. ModeAt(w, 0) = "bare"  BY <1>7, ModeFacts
  <2> HIDE DEF Upto
  <2> QED  BY <1>10, <2>2, <2>4, <2>5, <2>6
<1>12. ASSUME NEW k \in T PROVE k + 1 \in T
  <2>1. SUFFICES ASSUME NEW n \in 1 .. N, n = (k + 1) + 1 PROVE Upto(n)  OBVIOUS
  <2>2. PICK m \in 1 .. N : m = k + 1 /\ n = m + 1 /\ m \in 0 .. N /\ n # 1  BY <1>1, <2>1
  <2>3. f[at[m]] = Prefix(texts, m) /\ ModeAt(w, at[m]) = "bare"  BY <2>2
  <2>4. /\ Size(J[n]) = 1 + Size(texts[n]) /\ Char(J[n], 1) = d /\ Size(texts[n]) \in Nat
        /\ \A j \in 1 .. Size(texts[n]) : Char(J[n], 1 + j) = Char(texts[n], j)
    BY <1>1, <1>3, <2>2, SizeType
  <2>5. /\ at[n] = at[m] + Size(J[n]) /\ at[n] <= Size(w) /\ at[m] \in Nat
        /\ \A i \in 1 .. Size(J[n]) : Char(w, at[m] + i) = Char(J[n], i)
    BY <1>7, <2>2
  <2>6. PICK p \in 0 .. Size(w), q \in 1 .. Size(w) : p = at[m] /\ q = p + 1
    BY <1>7, <2>4, <2>5
  <2>7. Char(w, q) = d /\ q + Size(texts[n]) = at[n]
    <3> DEFINE z == Size(texts[n])
               y == Size(J[n])
    <3>1. z \in Nat /\ y \in Nat /\ y = 1 + z /\ at[n] = at[m] + y  BY <2>4, <2>5
    <3>2. 1 \in 1 .. y  BY <3>1
    <3>3. \A i \in 1 .. y : Char(w, at[m] + i) = Char(J[n], i)  BY <2>5
    <3>4. Char(J[n], 1) = d  BY <2>4
    <3> HIDE DEF z, y
    <3>5. Char(w, at[m] + 1) = d  BY <3>2, <3>3, <3>4
    <3>6. at[m] \in Nat /\ q = at[m] + 1  BY <2>5, <2>6
    <3>7. q + z = at[n]
      <4> DEFINE b == at[m]
                 e == at[n]
      <4>1. b \in Nat /\ q = b + 1 /\ e = b + y  BY <3>1, <3>6
      <4> HIDE DEF b, e
      <4>2. q + z = e  BY ONLY <3>1, <4>1
      <4> QED  BY <4>2 DEF e
    <3> QED  BY <3>5, <3>6, <3>7 DEF z
  <2>8. ASSUME NEW j \in 1 .. Size(texts[n]) PROVE Char(w, q + j) = Char(texts[n], j)
    <3> DEFINE z == Size(texts[n])
               y == Size(J[n])
    <3>1. z \in Nat /\ y = 1 + z /\ j \in 1 .. z  BY <2>4
    <3> HIDE DEF z, y
    <3>2. 1 + j \in 1 .. y /\ at[m] + (1 + j) = q + j  BY <2>5, <2>6, <3>1
    <3>3. PICK i \in 1 .. y : i = 1 + j /\ at[m] + i = q + j  BY <3>2
    <3>4. Char(w, at[m] + i) = Char(J[n], i)  BY <2>5, <3>3 DEF y
    <3>5. Char(J[n], 1 + j) = Char(texts[n], j)  BY <2>4
    <3> QED  BY <3>3, <3>4, <3>5
  <2>9. q \in Bare(w, d)  BY <1>7, <2>3, <2>6, <2>7, BareFacts
  <2>10. f[q] = Append(Prefix(texts, m), <<>>)  BY <1>8, <2>3, <2>6, <2>9 DEF Cutting
  <2>11. ModeAt(w, q) = "bare"
    <3>1. ModeAt(w, q) = Turn(ModeAt(w, p), Char(w, q))  BY <1>7, <2>6, ModeFacts
    <3> QED  BY <2>3, <2>6, <2>7, <3>1, TurnFacts
  <2>12. q \in Nat  BY <2>6
  <2> HIDE DEF Upto
  <2> QED  BY <1>10, <2>2, <2>7, <2>8, <2>10, <2>11, <2>12
<1> HIDE DEF T
<1>13. T = Nat  BY <1>11, <1>12, Induct DEF T
<1>14. Upto(N)
  <2>1. N - 1 \in T /\ N \in 1 .. N /\ N = (N - 1) + 1  BY <1>1, <1>13 DEF N
  <2> HIDE DEF Upto
  <2> QED  BY <2>1 DEF T
<1>15. f[Size(w)] = texts  BY <1>7, <1>9, <1>14
<1> QED  BY <1>8, <1>15 DEF split_delimited, w

\* What is written for a string has no delimiter outside its quotes.
LEMMA CellIsClosed ==
  ASSUME NEW s \in Text, NEW delim \in Delim
  PROVE  Closed(encode_primitive(Str(s), delim), delim)
<1>1. Str(s).kind = "string" /\ Str(s).text = s  BY DEF Str
<1>2. delim # Quote  BY QuoteFacts DEF Delim
<1>3. CASE needs_quoting(s, delim)
  <2>1. encode_primitive(Str(s), delim) = quote_string(s)  BY <1>1, <1>3 DEF encode_primitive
  <2> QED  BY <1>2, <2>1, QuotedIsClosed
<1>4. CASE ~needs_quoting(s, delim)
  <2>1. encode_primitive(Str(s), delim) = s  BY <1>1, <1>4 DEF encode_primitive
  <2>2. \A i \in DOMAIN s : s[i] # Quote /\ s[i] # delim  BY <1>4 DEF needs_quoting
  <2>3. \A i \in 1 .. Size(s) : Char(s, i) # Quote /\ Char(s, i) # delim
    BY <2>2 DEF Text, Size, Char
  <2> QED  BY <2>1, <2>3, PlainIsClosed
<1> QED  BY <1>3, <1>4

-----------------------------------------------------------------------------
(* Keys. *)

\* The parts of t before its end and after it, when r follows t.
LEMMA Halves ==
  ASSUME NEW t \in Text, NEW r \in Text
  PROVE  /\ Before(t \o r, Len(t) + 1) = t
         /\ From(t \o r, Len(t) + 1) = r
  BY DEF Text, Before, From

\* What a key without quotes is made of.
LEMMA PlainInKey ==
  ASSUME NEW c, Letter(c) \/ c \in Digit \cup {"."}
  PROVE  c # ":" /\ c \notin Blank /\ (Letter(c) => c # Quote)
<1>1. ":" \in Mark /\ Quote \in Mark /\ Blank \subseteq Mark  BY DEF Mark
<1>2. CASE Letter(c)  BY <1>1, <1>2 DEF Letter
<1>3. CASE c \in Digit \cup {"."} /\ ~Letter(c)
  <2>1. ":" \notin Digit \cup {"."}  BY DEF Digit
  <2>2. Blank \cap (Digit \cup {"."}) = {}  BY DEF Blank, Digit
  <2> QED  BY <1>3, <2>1, <2>2
<1> QED  BY <1>2, <1>3

\* A key is read back: parse_key makes of the key encode_key wrote, a colon
\* and anything after it the key, whether it was written in quotes, and what
\* follows the colon.  The key may hold colons, brackets, quotes and blanks.
THEOREM KeyIsRead ==
  ASSUME NEW s \in Text, NEW rest \in Text
  PROVE  parse_key(encode_key(s) \o <<":">> \o rest)
           = [key |-> s, quoted |-> ~is_unquoted_key(s), rest |-> rest]
<1> DEFINE r == <<":">> \o rest
           w == encode_key(s) \o r
<1>1. ":" \in Character  BY Named
<1>2. /\ r \in Text /\ Len(r) = 1 + Len(rest) /\ r[1] = ":" /\ From(r, 2) = rest
  BY <1>1 DEF Text, From
<1>3. encode_key(s) \o <<":">> \o rest = w
  <2>1. encode_key(s) \in Text  BY QuotedEnds DEF encode_key
  <2> QED  BY <1>1, <2>1 DEF Text
<1>4. CASE is_unquoted_key(s)
  <2>1. w = s \o r /\ encode_key(s) = s  BY <1>4 DEF encode_key
  <2>2. s # <<>> /\ Letter(s[1]) /\ \A i \in DOMAIN s : Letter(s[i]) \/ s[i] \in Digit \cup {"."}
    BY <1>4 DEF is_unquoted_key
  <2>3. /\ Len(s) \in Nat /\ 1 \in DOMAIN s /\ DOMAIN s = 1 .. Len(s) /\ Len(s) \in DOMAIN s
    BY <2>2 DEF Text
  <2>4. \A i \in 1 .. Len(s) : s[i] # ":" /\ s[i] \notin Blank
    BY <2>2, <2>3, PlainInKey
  <2>5. s[1] # Quote  BY <2>2, PlainInKey
  <2>6. /\ w \in Text /\ Len(w) = Len(s) + 1 + Len(rest) /\ w[Len(s) + 1] = ":"
        /\ \A i \in 1 .. Len(s) : w[i] = s[i]
    BY <1>2, <2>1 DEF Text
  <2>7. FirstAt(w, 1, LAMBDA c : c = ":") = Len(s) + 1
    <3> DEFINE S == {n \in 1 .. Len(w) : w[n] = ":"} \cup {Len(w) + 1}
    <3>1. Len(rest) \in Nat  BY DEF Text
    <3>2. S \in SUBSET Nat  BY <2>3, <2>6, <3>1
    <3>3. Len(s) + 1 \in S  BY <2>3, <2>6, <3>1
    <3>4. \A i \in S : Len(s) + 1 <= i  BY <2>3, <2>4, <2>6, <3>1
    <3> HIDE DEF S, w
    <3>5. Min(S) = Len(s) + 1  BY <3>2, <3>3, <3>4, LeastIs
    <3> QED  BY <3>5 DEF FirstAt, S
  <2>8. Len(s) + 1 <= Len(w)
    <3>1. Len(rest) \in Nat  BY DEF Text
    <3> HIDE DEF w
    <3> QED  BY <2>3, <2>6, <3>1
  <2>9. Before(w, Len(s) + 1) = s  BY <1>2, <2>1, Halves
  <2>10. From(w, (Len(s) + 1) + 1) = rest
    <3>1. s \o <<":">> \in Text /\ Len(s \o <<":">>) = Len(s) + 1  BY <1>1, <2>3 DEF Text
    <3>2. w = (s \o <<":">>) \o rest  BY <2>1, <1>1 DEF Text
    <3> QED  BY <3>1, <3>2, Halves
  <2>11. TrimEnd(s) = s  BY <2>2, <2>3, <2>4, TrimEndKeeps
  <2>12. w[1] # Quote  BY <2>3, <2>5, <2>6
  <2>13. ~(Len(s) + 1 > Len(w))
    <3> HIDE DEF w
    <3> QED  BY <2>3, <2>6, <2>8 DEF Text
  <2> HIDE DEF w
  <2>14. parse_key(w) = [key |-> s, quoted |-> FALSE, rest |-> rest]
    BY <2>7, <2>9, <2>10, <2>11, <2>12, <2>13 DEF parse_key
  <2> DEFINE quoted == ~is_unquoted_key(s)
  <2>15. quoted = FALSE  BY <1>4
  <2> HIDE DEF r, quoted
  <2>16. parse_key(encode_key(s) \o <<":">> \o rest) = [key |-> s, quoted |-> quoted, rest |-> rest]
    BY <1>3, <2>14, <2>15
  <2> QED  BY <2>16 DEF quoted
<1>5. CASE ~is_unquoted_key(s)
  <2> DEFINE q == quote_string(s)
  <2>1. w = q \o r  BY <1>5 DEF encode_key
  <2>2. q \in Text /\ q # <<>> /\ q[1] = Quote  BY QuotedEnds
  <2>3. parse_quoted(q \o r) = [text |-> s, end |-> Len(q)]  BY <1>2, QuotedIsRead
  <2> HIDE DEF q, w
  <2>4. /\ Len(w) = Len(q) + 1 + Len(rest) /\ w[Len(q) + 1] = ":" /\ w[1] = Quote
        /\ Len(q) \in Nat /\ Len(rest) \in Nat
    BY <1>2, <2>1, <2>2 DEF Text
  <2>5. From(w, Len(q) + 2) = rest
    <3>1. q \o <<":">> \in Text /\ Len(q \o <<":">>) = Len(q) + 1  BY <1>1, <2>2 DEF Text
    <3>2. w = (q \o <<":">>) \o rest  BY <1>1, <2>1, <2>2 DEF Text
    <3>3. (Len(q) + 1) + 1 = Len(q) + 2  BY <2>4
    <3>4. From(w, (Len(q) + 1) + 1) = rest  BY <3>1, <3>2, Halves
    <3> QED  BY <3>3, <3>4
  <2>6. Len(q) # Len(w)  BY <2>4
  <2> DEFINE p == [text |-> s, end |-> Len(q)]
  <2>7. ~Failed(p) /\ p.text = s /\ p.end = Len(q) /\ parse_quoted(w) = p
    BY <2>1, <2>3 DEF Failed
  <2> HIDE DEF p, r
  <2>8. parse_key(w) = [key |-> s, quoted |-> TRUE, rest |-> rest]
    BY <2>4, <2>5, <2>6, <2>7 DEF parse_key, IfRead
  <2>9. ~is_unquoted_key(s) = TRUE  BY <1>5
  <2> QED  BY <1>3, <2>8, <2>9
<1> QED  BY <1>4, <1>5
-----------------------------------------------------------------------------
(* Rows and fields: what stands outside quotes in a text put together. *)

\* What stands between two texts.
LEMMA Middle ==
  ASSUME NEW a \in Text, NEW b \in Text, NEW c \in Text
  PROVE  SubSeq(a \o (b \o c), Len(a) + 1, Len(a) + Len(b)) = b
  BY DEF Text

\* Where FirstAt finds c, from place i on.
FirstOf(w, i, c) == Min({j \in i .. Len(w) : w[j] = c} \cup {Len(w) + 1})

LEMMA FirstIs ==
  ASSUME NEW w \in Text, NEW c, NEW i \in Nat, NEW n \in 1 .. Size(w), 1 <= i, i <= n,
         Char(w, n) = c, \A j \in 1 .. Size(w) : i <= j /\ j < n => Char(w, j) # c
  PROVE  FirstOf(w, i, c) = n
<1> DEFINE S == {j \in i .. Len(w) : w[j] = c} \cup {Len(w) + 1}
<1>1. Len(w) \in Nat /\ n \in 1 .. Len(w) /\ w[n] = c
      /\ \A j \in 1 .. Len(w) : i <= j /\ j < n => w[j] # c
  BY DEF Size, Char, Text
<1>2. S \in SUBSET Nat /\ n \in S /\ \A j \in S : n <= j  BY <1>1
<1> HIDE DEF S
<1>3. Min(S) = n  BY <1>2, LeastIs
<1> QED  BY <1>3 DEF S, FirstOf

LEMMA NoFirst ==
  ASSUME NEW w \in Text, NEW c, NEW i \in Nat, 1 <= i,
         \A j \in 1 .. Size(w) : i <= j => Char(w, j) # c
  PROVE  FirstOf(w, i, c) = Size(w) + 1
<1> DEFINE S == {j \in i .. Len(w) : w[j] = c} \cup {Len(w) + 1}
<1>1. Len(w) \in Nat /\ \A j \in i .. Len(w) : w[j] # c
  BY DEF Size, Char, Text
<1>2. S = {Len(w) + 1}  BY <1>1
<1> HIDE DEF S
<1>3. Min(S) = Len(w) + 1  BY <1>1, <1>2, LeastIs
<1> QED  BY <1>3 DEF S, FirstOf, Size

\* Two closed texts put together are closed.
LEMMA ClosedConcat ==
  ASSUME NEW d, NEW a, Closed(a, d), NEW b, Closed(b, d)
  PROVE  Closed(a \o b, d)
<1> DEFINE w == a \o b
           A == Size(a)
           B == Size(b)
<1>1. a \in Text /\ b \in Text  BY DEF Closed
<1>2. /\ w \in Text /\ Size(w) = A + B /\ A \in Nat /\ B \in Nat
      /\ \A i \in 1 .. A : Char(w, i) = Char(a, i)
      /\ \A i \in 1 .. B : Char(w, A + i) = Char(b, i)
  BY <1>1, Concat
<1> HIDE DEF w, A, B
<1>3. Stands(a, w, 0) /\ Stands(b, w, A)
  <2>1. \A i \in 1 .. A : 0 + i = i  BY <1>2
  <2> QED  BY <1>1, <1>2, <2>1 DEF Stands, A, B
<1>4. ModeAt(w, 0) = "bare"  BY <1>2, ModeFacts
<1>5. \A k \in 0 .. A : ModeAt(w, k) = ModeAt(a, k)
  <2>1. \A k \in 0 .. A : ModeAt(w, 0 + k) = ModeAt(a, k)  BY <1>1, <1>2, <1>3, <1>4, ScanInside DEF A
  <2>2. \A k \in 0 .. A : 0 + k = k  BY <1>2
  <2> QED  BY <2>1, <2>2
<1>6. ModeAt(w, A) = "bare"  BY <1>2, <1>5 DEF Closed, A
<1>7. \A k \in 0 .. B : ModeAt(w, A + k) = ModeAt(b, k)
  BY <1>1, <1>2, <1>3, <1>6, ScanInside DEF B
<1>8. ModeAt(w, Size(w)) = "bare"
  <2>1. ModeAt(w, A + B) = ModeAt(b, B)  BY <1>2, <1>7
  <2> QED  BY <1>2, <2>1 DEF Closed, B
<1>9. ASSUME NEW k \in 0 .. Size(w), NEW i \in 1 .. Size(w), i = k + 1
      PROVE  ~(Char(w, i) = d /\ ModeAt(w, k) = "bare")
  <2>1. CASE i <= A
    <3>1. k \in 0 .. A /\ i \in 1 .. A  BY <1>2, <1>9, <2>1
    <3>2. Char(w, i) = Char(a, i) /\ ModeAt(w, k) = ModeAt(a, k)  BY <1>2, <1>5, <3>1
    <3> QED  BY <1>9, <3>1, <3>2 DEF Closed, A
  <2>2. CASE i > A
    <3>1. PICK m \in 0 .. B, n \in 1 .. B : n = m + 1 /\ k = A + m /\ i = A + n
      <4>1. k - A \in 0 .. B /\ i - A \in 1 .. B /\ i - A = (k - A) + 1
            /\ k = A + (k - A) /\ i = A + (i - A)
        BY <1>2, <1>9, <2>2
      <4> QED  BY <4>1
    <3>2. Char(w, i) = Char(b, n) /\ ModeAt(w, k) = ModeAt(b, m)  BY <1>2, <1>7, <3>1
    <3> QED  BY <3>1, <3>2 DEF Closed, B
  <2> QED  BY <1>2, <2>1, <2>2
<1> QED  BY <1>2, <1>8, <1>9 DEF Closed, w

\* And so is a row of closed texts, for what is not its delimiter.
LEMMA ClosedJoined ==
  ASSUME NEW texts \in Seq(Text), NEW d \in Character, d # Quote, NEW e, e # d,
         \A i \in 1 .. Len(texts) : Closed(texts[i], e)
  PROVE  Closed(Joined(texts, d), e)
<1> DEFINE N == Len(texts)
           J == [i \in 1 .. N |-> (IF i = 1 THEN <<>> ELSE <<d>>) \o texts[i]]
<1>1. N \in Nat /\ \A i \in 1 .. N : texts[i] \in Text  OBVIOUS
<1>2. Closed(<<>>, e)
  <2>1. <<>> \in Text /\ Size(<<>>) = 0  BY DEF Text, Size
  <2> QED  BY <2>1, PlainIsClosed
<1>3. Closed(<<d>>, e)
  <2>1. <<d>> \in Text /\ \A i \in 1 .. Size(<<d>>) : Char(<<d>>, i) = d  BY One
  <2> QED  BY <2>1, PlainIsClosed
<1>4. ASSUME NEW i \in 1 .. N PROVE Closed(J[i], e)
  <2>1. J[i] = (IF i = 1 THEN <<>> ELSE <<d>>) \o texts[i]  OBVIOUS
  <2> HIDE DEF J
  <2>2. Closed(texts[i], e)  OBVIOUS
  <2> QED  BY <1>2, <1>3, <2>1, <2>2, ClosedConcat
<1>5. J \in Seq(Text) /\ Len(J) = N
  <2>1. \A i \in 1 .. N : J[i] \in Text  BY <1>4 DEF Closed
  <2>2. J = [i \in 1 .. N |-> J[i]]  OBVIOUS
  <2> HIDE DEF J
  <2> QED  BY <1>1, <2>1, <2>2
<1>6. Joined(texts, d) = FlattenSeq(J)  BY DEF Joined
<1> HIDE DEF J
<1>7. PICK f : Glued(f, J) /\ FlattenSeq(J) = f[Len(J)]  BY <1>5, FlattenIsGlued
<1> HIDE DEF N
<1> DEFINE T == {k \in Nat : k <= N => Closed(f[k], e)}
<1>8. 0 \in T  BY <1>2, <1>7 DEF Glued
<1>9. ASSUME NEW k \in T PROVE k + 1 \in T
  <2>1. SUFFICES ASSUME NEW n \in 1 .. N, n = k + 1 PROVE Closed(f[n], e)  BY <1>1
  <2>2. k \in 0 .. N /\ Closed(f[k], e)  BY <1>1, <2>1
  <2>3. f[n] = f[k] \o J[n]  BY <1>5, <1>7, <2>1, <2>2 DEF Glued
  <2> QED  BY <1>4, <2>2, <2>3, ClosedConcat
<1> HIDE DEF T
<1>10. T = Nat  BY <1>8, <1>9, Induct DEF T
<1>11. Closed(f[N], e)  BY <1>1, <1>10 DEF T
<1> QED  BY <1>5, <1>6, <1>7, <1>11

\* Where c stands bare for the first time, after a text that has none.
LEMMA FirstBare ==
  ASSUME NEW c \in Character, NEW a, Closed(a, c), NEW r \in Text
  PROVE  /\ Size(a) + 1 \in Bare(a \o (<<c>> \o r), c)
         /\ Min(Bare(a \o (<<c>> \o r), c)) = Size(a) + 1
         /\ \A d : d # c /\ Closed(a, d) =>
              \A i \in Bare(a \o (<<c>> \o r), d) : Size(a) + 1 < i
<1> DEFINE t == <<c>> \o r
           w == a \o t
           A == Size(a)
<1>1. a \in Text /\ t \in Text /\ Size(t) >= 1 /\ Char(t, 1) = c
  <2>1. <<c>> \in Text /\ Size(<<c>>) = 1 /\ Char(<<c>>, 1) = c  BY One
  <2>2. /\ t \in Text /\ Size(t) = Size(<<c>>) + Size(r) /\ Size(r) \in Nat
        /\ \A i \in 1 .. Size(<<c>>) : Char(t, i) = Char(<<c>>, i)
    BY <2>1, Concat
  <2> HIDE DEF t
  <2> QED  BY <2>1, <2>2 DEF Closed
<1> HIDE DEF t
<1>2. /\ w \in Text /\ Size(w) = A + Size(t) /\ A \in Nat /\ Size(t) \in Nat
      /\ \A i \in 1 .. A : Char(w, i) = Char(a, i)
      /\ \A i \in 1 .. Size(t) : Char(w, A + i) = Char(t, i)
  BY <1>1, Concat
<1> HIDE DEF w, A
<1>3. Stands(a, w, 0)
  <2>1. \A i \in 1 .. A : 0 + i = i  BY <1>2
  <2> QED  BY <1>1, <1>2, <2>1 DEF Stands, A
<1>4. \A k \in 0 .. A : ModeAt(w, k) = ModeAt(a, k)
  <2>1. ModeAt(w, 0) = "bare"  BY <1>2, ModeFacts
  <2>2. \A k \in 0 .. A : ModeAt(w, 0 + k) = ModeAt(a, k)  BY <1>1, <1>2, <1>3, <2>1, ScanInside DEF A
  <2>3. \A k \in 0 .. A : 0 + k = k  BY <1>2
  <2> QED  BY <2>2, <2>3
<1>5. PICK n \in 1 .. Size(w) : n = A + 1 /\ A \in 0 .. Size(w) /\ Char(w, n) = c
  <2>1. A + 1 \in 1 .. Size(w) /\ A \in 0 .. Size(w) /\ 1 \in 1 .. Size(t)  BY <1>1, <1>2
  <2>2. Char(w, A + 1) = c  BY <1>1, <1>2, <2>1
  <2> QED  BY <2>1, <2>2
<1>6. ModeAt(w, A) = "bare"  BY <1>2, <1>4 DEF Closed, A
<1>7. n \in Bare(w, c)  BY <1>2, <1>5, <1>6, BareFacts
<1>8. ASSUME NEW d, Closed(a, d), NEW i \in Bare(w, d) PROVE A < i /\ i \in Nat /\ Char(w, i) = d
  <2>1. i \in 1 .. Size(w)  BY <1>2 DEF Bare, Text, Size
  <2>2. PICK k \in 0 .. Size(w) : i = k + 1
    <3>1. i - 1 \in 0 .. Size(w) /\ i = (i - 1) + 1  BY <1>2, <2>1
    <3> QED  BY <3>1
  <2>3. Char(w, i) = d /\ ModeAt(w, k) = "bare"  BY <1>2, <2>1, <2>2, BareFacts, <1>8
  <2>4. SUFFICES ASSUME i <= A PROVE FALSE  BY <1>2, <2>1, <2>3
  <2>5. k \in 0 .. A /\ i \in 1 .. A  BY <1>2, <2>1, <2>2, <2>4
  <2>6. Char(a, i) = d /\ ModeAt(a, k) = "bare"  BY <1>2, <1>4, <2>3, <2>5
  <2> QED  BY <1>8, <2>2, <2>5, <2>6 DEF Closed, A
<1>9. Min(Bare(w, c)) = A + 1
  <2>1. Bare(w, c) \in SUBSET Nat /\ \A i \in Bare(w, c) : n <= i  BY <1>2, <1>5, <1>8
  <2> QED  BY <1>5, <1>7, <2>1, LeastIs
<1>10. ASSUME NEW d, d # c, Closed(a, d), NEW i \in Bare(w, d) PROVE A + 1 < i
  <2>1. A < i /\ i \in Nat /\ Char(w, i) = d  BY <1>8, <1>10
  <2>2. i # n  BY <1>5, <1>10, <2>1
  <2> QED  BY <1>2, <1>5, <2>1, <2>2
<1> QED  BY <1>5, <1>7, <1>9, <1>10 DEF w, t, A

\* The places of a text.
LEMMA Places ==
  ASSUME NEW s \in Text
  PROVE  DOMAIN s = 1 .. Size(s)
  BY DEF Text, Size

\* The separators have no place in a key without quotes.
LEMMA Separators ==
  ASSUME NEW d \in Delim \cup {":", "[", "]", "{", "}"}
  PROVE  d \in Character /\ d # Quote /\ ~Letter(d) /\ d \notin Digit \cup {"."}
<1>1. d \in Mark  BY DEF Mark, Delim, Blank
<1>2. d # Quote  BY Zenon DEF Delim, Quote
<1>3. d \notin Digit \cup {"."}  BY DEF Delim, Digit
<1> QED  BY <1>1, <1>2, <1>3, Named DEF Letter

\* A key has them inside quotes only.
LEMMA KeyIsClosed ==
  ASSUME NEW s \in Text, NEW d \in Delim \cup {":", "[", "]", "{", "}"}
  PROVE  Closed(encode_key(s), d)
<1>1. d # Quote /\ ~Letter(d) /\ d \notin Digit \cup {"."}  BY Separators
<1>2. CASE is_unquoted_key(s)
  <2>1. \A i \in DOMAIN s : Letter(s[i]) \/ s[i] \in Digit \cup {"."}
    BY <1>2 DEF is_unquoted_key
  <2>2. \A i \in DOMAIN s : s[i] # d  BY <1>1, <2>1
  <2>3. Quote \in Mark /\ Quote \notin Digit \cup {"."}
    <3>1. Quote \notin Digit \cup {"."}  BY Zenon DEF Quote, Digit
    <3> QED  BY <3>1, Named
  <2>4. \A i \in DOMAIN s : s[i] # Quote  BY <2>1, <2>3 DEF Letter
  <2>5. DOMAIN s = 1 .. Size(s)  BY Places
  <2>6. \A i \in 1 .. Size(s) : Char(s, i) # Quote /\ Char(s, i) # d
    BY <2>2, <2>4, <2>5, Zenon DEF Char
  <2> QED  BY <1>2, <2>6, PlainIsClosed DEF encode_key
<1>3. CASE ~is_unquoted_key(s)
  <2>1. Closed(quote_string(s), d)  BY <1>1, QuotedIsClosed
  <2> QED  BY <1>3, <2>1 DEF encode_key
<1> QED  BY <1>2, <1>3

\* What is written for a string has no colon outside its quotes.
LEMMA CellHasNoColon ==
  ASSUME NEW s \in Text, NEW delim
  PROVE  Closed(encode_primitive(Str(s), delim), ":")
<1>1. Str(s).kind = "string" /\ Str(s).text = s  BY DEF Str
<1>2. CASE needs_quoting(s, delim)
  <2>1. encode_primitive(Str(s), delim) = quote_string(s)  BY <1>1, <1>2 DEF encode_primitive
  <2> QED  BY QuoteFacts, <2>1, QuotedIsClosed
<1>3. CASE ~needs_quoting(s, delim)
  <2>1. encode_primitive(Str(s), delim) = s  BY <1>1, <1>3 DEF encode_primitive
  <2>2. \A i \in DOMAIN s : s[i] # Quote /\ s[i] # ":"  BY <1>3 DEF needs_quoting
  <2>3. \A i \in 1 .. Size(s) : Char(s, i) # Quote /\ Char(s, i) # ":"
    BY <2>2 DEF Text, Size, Char
  <2> QED  BY <2>1, <2>3, PlainIsClosed
<1> QED  BY <1>2, <1>3

\* A closed text has its character nowhere bare.
LEMMA ClosedIsEmpty ==
  ASSUME NEW d, NEW t, Closed(t, d)
  PROVE  Bare(t, d) = {}
<1>1. SUFFICES ASSUME NEW i \in Bare(t, d) PROVE FALSE  OBVIOUS
<1>2. t \in Text /\ Size(t) \in Nat  BY SizeType DEF Closed
<1>3. i \in 1 .. Size(t)  BY <1>2 DEF Bare, Text, Size
<1>4. PICK k \in 0 .. Size(t) : i = k + 1
  <2>1. i - 1 \in 0 .. Size(t) /\ i = (i - 1) + 1  BY <1>2, <1>3
  <2> QED  BY <2>1
<1>5. Char(t, i) = d /\ ModeAt(t, k) = "bare"  BY <1>1, <1>2, <1>3, <1>4, BareFacts
<1> QED  BY <1>3, <1>4, <1>5 DEF Closed

\* A field is not taken for a row: a key-value line, whatever its key and its
\* value hold, ends the rows of the table before it.
THEOREM FieldIsNoRow ==
  ASSUME NEW s \in Text, NEW rest \in Text, NEW delim \in Delim
  PROVE  is_row_terminator(encode_key(s) \o <<":">> \o rest, delim)
<1> DEFINE k == encode_key(s)
           w == k \o (<<":">> \o rest)
<1>1. ":" \in Character /\ delim # ":" /\ Closed(k, ":") /\ Closed(k, delim)
  BY KeyIsClosed, Named DEF Delim
<1>2. k \o <<":">> \o rest = w
  <2>1. k \in Text  BY <1>1 DEF Closed
  <2> HIDE DEF k
  <2> QED  BY <1>1, <2>1 DEF Text
<1> DEFINE n == Size(k) + 1
<1> HIDE DEF k
<1>3. n \in Bare(w, ":") /\ Min(Bare(w, ":")) = n /\ \A i \in Bare(w, delim) : n < i
  BY <1>1, FirstBare
<1>4. n \in Nat /\ w \in Text
  <2>1. k \in Text /\ rest \in Text /\ <<":">> \in Text  BY <1>1, One DEF Closed
  <2>2. w \in Text  BY <2>1, Concat
  <2> HIDE DEF w
  <2> QED  BY <2>1, <2>2, SizeType
<1>5. ASSUME Bare(w, delim) # {} PROVE Min(Bare(w, ":")) < Min(Bare(w, delim))
  <2> DEFINE B == Bare(w, delim)
  <2>1. B \in SUBSET Nat
    <3> HIDE DEF w
    <3> QED  BY <1>4 DEF Bare, Text
  <2> HIDE DEF w, B
  <2>2. B # {}  BY <1>5 DEF B
  <2>3. PICK m \in B : \A i \in B : m <= i  BY <2>1, <2>2, Least
  <2>4. Min(B) = m  BY <2>1, <2>3, LeastIs
  <2> QED  BY <1>3, <2>3, <2>4 DEF B
<1> HIDE DEF w
<1>6. is_row_terminator(w, delim)
  BY <1>3, <1>5 DEF is_row_terminator
<1> QED  BY <1>2, <1>6 DEF k

-----------------------------------------------------------------------------
(* Array headers: the length of an array. *)

\* The digits and what they are worth.
LEMMA CipherFacts ==
  ASSUME NEW x \in 0 .. 9
  PROVE  Cipher[x] \in Digit /\ DigitOf[Cipher[x]] = x
<1>1. /\ Cipher[0] = "0" /\ Cipher[1] = "1" /\ Cipher[2] = "2" /\ Cipher[3] = "3"
      /\ Cipher[4] = "4" /\ Cipher[5] = "5" /\ Cipher[6] = "6" /\ Cipher[7] = "7"
      /\ Cipher[8] = "8" /\ Cipher[9] = "9"
  BY DEF Cipher
<1>2. \A m, n \in 0 .. 9 : Cipher[m] = Cipher[n] => m = n
  <2>1. \A m \in 0 .. 9 : m = 0 \/ m = 1 \/ m = 2 \/ m = 3 \/ m = 4 \/ m = 5 \/ m = 6
                          \/ m = 7 \/ m = 8 \/ m = 9
    OBVIOUS
  <2> QED  BY <1>1, <2>1
<1>3. Cipher[x] \in Digit  BY <1>1 DEF Digit
<1>4. DigitOf[Cipher[x]] = CHOOSE n \in 0 .. 9 : Cipher[n] = Cipher[x]  BY <1>3 DEF DigitOf
<1> QED  BY <1>2, <1>3, <1>4

\* What Decimal has left of n after each division.
Rest(n) ==
  LET rest[i \in 0 .. n + 1] == IF i = 0 THEN n ELSE rest[i - 1] \div 10
  IN rest

LEMMA RestFacts ==
  ASSUME NEW n \in Nat
  PROVE  /\ Rest(n) \in [0 .. n + 1 -> Nat] /\ Rest(n)[0] = n
         /\ \A k \in 0 .. n + 1, i \in 1 .. n + 1 :
              i = k + 1 => Rest(n)[i] = Rest(n)[k] \div 10
<1> DEFINE N == n + 1
           Is(m) == m = [i \in 0 .. N |-> IF i = 0 THEN n ELSE m[i - 1] \div 10]
           step == [i \in 1 .. N |-> [x \in Nat |-> x \div 10]]
<1>1. N \in Nat  OBVIOUS
<1>2. step \in [1 .. N -> [Nat -> Nat]]
  <2>1. \A x \in Nat : x \div 10 \in Nat  OBVIOUS
  <2> QED  BY <2>1
<1>3. PICK f : Steps(f, N, Nat, n, step)
  <2> HIDE DEF step, N
  <2> QED  BY <1>1, <1>2, Recursion
<1>4. ASSUME NEW i \in 1 .. N PROVE f[i] = f[i - 1] \div 10
  <2>1. i - 1 \in 0 .. N /\ f[i - 1] \in Nat  BY <1>1, <1>3 DEF Steps
  <2>2. \A x \in Nat : step[i][x] = x \div 10  OBVIOUS
  <2>3. f[i] = step[i][f[i - 1]]  BY <1>3 DEF Steps
  <2> HIDE DEF step
  <2> QED  BY <2>1, <2>2, <2>3
<1>5. f \in [0 .. N -> Nat] /\ f[0] = n  BY <1>3 DEF Steps
<1> HIDE DEF step
<1>6. Is(f)
  <2> DEFINE h(i) == IF i = 0 THEN n ELSE f[i - 1] \div 10
  <2>1. \A i \in 0 .. N : f[i] = h(i)  BY <1>1, <1>4, <1>5
  <2> HIDE DEF h, N
  <2>2. f = [i \in 0 .. N |-> h(i)]  BY <1>5, <2>1
  <2> QED  BY <2>2 DEF h
<1>7. Rest(n) = CHOOSE m : Is(m)  BY DEF Rest
<1> DEFINE m == Rest(n)
<1>8. Is(m)
  <2> HIDE DEF Is
  <2> QED  BY <1>6, <1>7
<1> HIDE DEF m
<1>9. m[0] = n  BY <1>1, <1>8
<1>10. ASSUME NEW k \in 0 .. N, NEW i \in 1 .. N, i = k + 1 PROVE m[i] = m[k] \div 10
  <2>1. k = i - 1 /\ i # 0 /\ i \in 0 .. N  BY <1>1, <1>10
  <2>2. m[i] = IF i = 0 THEN n ELSE m[i - 1] \div 10  BY <1>8, <2>1
  <2> QED  BY <2>1, <2>2
<1> DEFINE T == {k \in Nat : k <= N => m[k] \in Nat}
<1>11. 0 \in T  BY <1>9
<1>12. ASSUME NEW k \in T PROVE k + 1 \in T
  <2>1. SUFFICES ASSUME NEW i \in 1 .. N, i = k + 1 PROVE m[i] \in Nat  BY <1>1
  <2>2. k \in 0 .. N /\ m[k] \in Nat  BY <1>1, <2>1
  <2>3. m[i] = m[k] \div 10  BY <1>10, <2>1, <2>2
  <2> QED  BY <2>2, <2>3
<1> HIDE DEF T
<1>13. T = Nat  BY <1>11, <1>12, Induct DEF T
<1>14. m \in [0 .. N -> Nat]
  <2>1. \A k \in 0 .. N : m[k] \in Nat  BY <1>1, <1>13 DEF T
  <2> QED  BY <1>8, <2>1
<1> QED  BY <1>9, <1>10, <1>14 DEF m

\* Nothing is left at the latest after n + 1 divisions.
LEMMA RestEnds ==
  ASSUME NEW n \in Nat
  PROVE  \E size \in 1 .. n + 1 :
           /\ Rest(n)[size] = 0
           /\ Decimal(n) = [i \in 1 .. size |-> Cipher[Rest(n)[size - i] % 10]]
<1> DEFINE rest == Rest(n)
           N == n + 1
           S == {i \in 1 .. N : rest[i] = 0}
           T == {k \in Nat : k <= N => rest[k] = 0 \/ rest[k] + k <= n}
<1>1. /\ N \in Nat /\ rest \in [0 .. N -> Nat] /\ rest[0] = n
      /\ \A k \in 0 .. N, i \in 1 .. N : i = k + 1 => rest[i] = rest[k] \div 10
  BY RestFacts
<1>2. Decimal(n) = [i \in 1 .. Min(S) |-> Cipher[rest[Min(S) - i] % 10]]
  BY DEF Decimal, Rest
<1> HIDE DEF rest
<1>3. 0 \in T  BY <1>1
<1>4. ASSUME NEW k \in T PROVE k + 1 \in T
  <2>1. SUFFICES ASSUME NEW i \in 1 .. N, i = k + 1 PROVE rest[i] = 0 \/ rest[i] + i <= n
    BY <1>1
  <2>2. k \in 0 .. N /\ rest[k] \in Nat /\ (rest[k] = 0 \/ rest[k] + k <= n)  BY <1>1, <2>1
  <2>3. rest[i] = rest[k] \div 10  BY <1>1, <2>1, <2>2
  <2> DEFINE a == rest[k]
             b == rest[i]
  <2>4. a \in Nat /\ b = a \div 10 /\ k \in Nat /\ i = k + 1 /\ (a = 0 \/ a + k <= n)
    BY <2>1, <2>2, <2>3
  <2> HIDE DEF a, b
  <2>5. b = 0 \/ b + 1 <= a  BY ONLY <2>4
  <2>6. b \in Nat /\ (a = 0 => b = 0)  BY ONLY <2>4
  <2>7. b = 0 \/ b + i <= n  BY ONLY <2>4, <2>5, <2>6, n \in Nat
  <2> QED  BY <2>7 DEF b
<1> HIDE DEF T
<1>5. T = Nat  BY <1>3, <1>4, Induct DEF T
<1>6. N \in S
  <2>1. rest[N] \in Nat /\ N \in T  BY <1>1, <1>5
  <2> QED  BY <1>1, <2>1 DEF T
<1>7. PICK m \in S : \A i \in S : m <= i
  <2>1. S \in SUBSET Nat  BY <1>1
  <2> HIDE DEF S
  <2>2. S # {}  BY <1>6
  <2> QED  BY <2>1, <2>2, Least
<1>8. Min(S) = m
  <2>1. S \in SUBSET Nat  BY <1>1
  <2> HIDE DEF S
  <2> QED  BY <1>7, <2>1, LeastIs
<1> QED  BY <1>2, <1>7, <1>8 DEF rest

\* What the first digits of s are worth.
Worth(s) ==
  LET value[i \in 0 .. Len(s)] == IF i = 0 THEN 0 ELSE 10 * value[i - 1] + DigitOf[s[i]]
  IN value

LEMMA WorthFacts ==
  ASSUME NEW s \in Text, NEW v \in [0 .. Len(s) -> Nat], v[0] = 0,
         \A k \in 0 .. Len(s), i \in 1 .. Len(s) : i = k + 1 => v[i] = 10 * v[k] + DigitOf[s[i]]
  PROVE  Numeral(s) = v[Len(s)]
<1> DEFINE N == Len(s)
           Is(m) == m = [i \in 0 .. N |-> IF i = 0 THEN 0 ELSE 10 * m[i - 1] + DigitOf[s[i]]]
<1>1. N \in Nat  BY DEF Text
<1>2. Is(v)
  <2> DEFINE h(i) == IF i = 0 THEN 0 ELSE 10 * v[i - 1] + DigitOf[s[i]]
  <2>1. ASSUME NEW i \in 0 .. N PROVE v[i] = h(i)
    <3>1. CASE i = 0  BY <3>1
    <3>2. CASE i # 0
      <4>1. PICK k \in 0 .. N : k = i - 1 /\ i = k + 1 /\ i \in 1 .. N  BY <1>1, <3>2
      <4>2. v[i] = 10 * v[k] + DigitOf[s[i]]  BY <4>1, Zenon
      <4> QED  BY <3>2, <4>1, <4>2
    <3> QED  BY <3>1, <3>2
  <2> HIDE DEF h, N
  <2>2. v = [i \in 0 .. N |-> h(i)]  BY <2>1 DEF N
  <2> QED  BY <2>2 DEF h
<1>3. Worth(s) = CHOOSE m : Is(m)  BY DEF Worth
<1> DEFINE m == Worth(s)
<1>4. Is(m)
  <2> HIDE DEF Is
  <2> QED  BY <1>2, <1>3
<1>5. Numeral(s) = m[N]  BY DEF Numeral, Worth
<1> HIDE DEF m
<1>6. m[0] = 0  BY <1>1, <1>4
<1>7. ASSUME NEW k \in 0 .. N, NEW i \in 1 .. N, i = k + 1
      PROVE  m[i] = 10 * m[k] + DigitOf[s[i]]
  <2>1. k = i - 1 /\ i # 0 /\ i \in 0 .. N  BY <1>1, <1>7
  <2>2. m[i] = IF i = 0 THEN 0 ELSE 10 * m[i - 1] + DigitOf[s[i]]  BY <1>4, <2>1
  <2> QED  BY <2>1, <2>2
<1> DEFINE T == {k \in Nat : k <= N => m[k] = v[k]}
<1>8. 0 \in T  BY <1>6
<1>9. ASSUME NEW k \in T PROVE k + 1 \in T
  <2>1. SUFFICES ASSUME NEW i \in 1 .. N, i = k + 1 PROVE m[i] = v[i]  BY <1>1
  <2>2. k \in 0 .. N /\ m[k] = v[k]  BY <1>1, <2>1
  <2>3. m[i] = 10 * m[k] + DigitOf[s[i]]  BY <1>7, <2>1, <2>2
  <2>4. v[i] = 10 * v[k] + DigitOf[s[i]]  BY <2>1, <2>2, Zenon
  <2> QED  BY <2>2, <2>3, <2>4
<1> HIDE DEF T
<1>10. T = Nat  BY <1>8, <1>9, Induct DEF T
<1> QED  BY <1>1, <1>5, <1>10 DEF T

\* The digits written for a number are read as that number.
LEMMA DecimalIsRead ==
  ASSUME NEW n \in Nat
  PROVE  /\ Decimal(n) \in Text /\ Decimal(n) # <<>>
         /\ \A i \in 1 .. Len(Decimal(n)) : Decimal(n)[i] \in Digit
         /\ IsDigits(Decimal(n)) /\ Numeral(Decimal(n)) = n
<1> DEFINE d == Decimal(n)
           rest == Rest(n)
           N == n + 1
<1>1. PICK size \in 1 .. N :
        rest[size] = 0 /\ d = [i \in 1 .. size |-> Cipher[rest[size - i] % 10]]
  BY RestEnds
<1>2. /\ N \in Nat /\ rest \in [0 .. N -> Nat] /\ rest[0] = n
      /\ \A k \in 0 .. N, i \in 1 .. N : i = k + 1 => rest[i] = rest[k] \div 10
  BY RestFacts
<1> HIDE DEF d, rest
<1>3. ASSUME NEW i \in 1 .. size
      PROVE  d[i] \in Digit /\ DigitOf[d[i]] = rest[size - i] % 10
  <2>1. size - i \in 0 .. N  BY <1>2
  <2>2. rest[size - i] % 10 \in 0 .. 9
    <3>1. rest[size - i] \in Nat  BY <1>2, <2>1
    <3> QED  BY <3>1
  <2>3. d[i] = Cipher[rest[size - i] % 10]  BY <1>1
  <2> QED  BY <2>2, <2>3, CipherFacts
<1>4. size \in Nat /\ 1 <= size  BY <1>2
<1>5. Len(d) = size /\ DOMAIN d = 1 .. size /\ d \in Text
  <2>1. d = [i \in 1 .. size |-> d[i]]  BY <1>1
  <2>2. \A i \in 1 .. size : d[i] \in Character  BY <1>3, Named
  <2> QED  BY <1>4, <2>1, <2>2 DEF Text
<1>6. d # <<>>  BY <1>4, <1>5
<1>7. IsDigits(d)
  <2>1. ToSet(d) \subseteq Digit  BY <1>3, <1>5 DEF ToSet
  <2> QED  BY <1>6, <2>1 DEF IsDigits
<1> DEFINE v == [i \in 0 .. size |-> rest[size - i]]
<1>8. v \in [0 .. size -> Nat] /\ v[0] = 0 /\ v[size] = n
  <2>1. ASSUME NEW i \in 0 .. size PROVE rest[size - i] \in Nat
    <3>1. size - i \in 0 .. N  BY <1>2, <1>4
    <3> QED  BY <1>2, <3>1
  <2>2. size - 0 = size /\ size - size = 0 /\ 0 \in 0 .. size /\ size \in 0 .. size  BY <1>4
  <2> QED  BY <1>1, <1>2, <2>1, <2>2
<1>9. ASSUME NEW k \in 0 .. size, NEW i \in 1 .. size, i = k + 1
      PROVE  v[i] = 10 * v[k] + DigitOf[d[i]]
  <2>1. PICK p \in 0 .. N, q \in 1 .. N : p = size - i /\ q = size - k /\ q = p + 1
    <3>1. size - i \in 0 .. N /\ size - k \in 1 .. N /\ size - k = (size - i) + 1
      BY <1>2, <1>4, <1>9
    <3> QED  BY <3>1
  <2>2. v[i] = rest[p] /\ v[k] = rest[q] /\ DigitOf[d[i]] = rest[p] % 10
    <3>1. i \in 0 .. size  BY <1>4
    <3> QED  BY <1>3, <2>1, <3>1
  <2>3. rest[q] = rest[p] \div 10 /\ rest[p] \in Nat  BY <1>2, <2>1
  <2> DEFINE a == rest[p]
             b == rest[q]
             c == DigitOf[d[i]]
  <2>4. a \in Nat /\ b = a \div 10 /\ c = a % 10  BY <2>2, <2>3
  <2> HIDE DEF a, b, c
  <2>5. a = 10 * b + c  BY ONLY <2>4
  <2> HIDE DEF v
  <2> QED  BY <2>2, <2>5 DEF a, b, c
<1> HIDE DEF v
<1>10. Numeral(d) = n  BY <1>5, <1>8, <1>9, WorthFacts
<1> QED  BY <1>3, <1>5, <1>6, <1>7, <1>10 DEF d

-----------------------------------------------------------------------------
(* Array headers: the key, and the names of the columns. *)

\* How a key begins and ends.
LEMMA KeyEnds ==
  ASSUME NEW s \in Text
  PROVE  LET k == encode_key(s)
         IN /\ k \in Text /\ k # <<>> /\ k[1] \notin Blank /\ k[Len(k)] \notin Blank
            /\ k[1] = Quote <=> ~is_unquoted_key(s)
<1> DEFINE k == encode_key(s)
<1>1. CASE is_unquoted_key(s)
  <2>1. s # <<>> /\ Letter(s[1]) /\ \A i \in DOMAIN s : Letter(s[i]) \/ s[i] \in Digit \cup {"."}
    BY <1>1 DEF is_unquoted_key
  <2>2. 1 \in DOMAIN s /\ Len(s) \in DOMAIN s  BY <2>1 DEF Text
  <2>3. s[1] # Quote /\ s[1] \notin Blank  BY <2>1, <2>2, PlainInKey
  <2>4. s[Len(s)] \notin Blank  BY <2>1, <2>2, PlainInKey
  <2>5. k = s  BY <1>1 DEF encode_key
  <2> QED  BY <1>1, <2>1, <2>3, <2>4, <2>5
<1>2. CASE ~is_unquoted_key(s)
  <2>1. k = quote_string(s)  BY <1>2 DEF encode_key
  <2>2. k \in Text /\ k # <<>> /\ k[1] = Quote /\ k[Len(k)] = Quote  BY <2>1, QuotedEnds
  <2> QED  BY <1>2, <2>2, QuoteIsNoStart
<1> QED  BY <1>1, <1>2

\* One character and what follows it.
LEMMA HeadFacts ==
  ASSUME NEW c \in Character, NEW r \in Text
  PROVE  /\ <<c>> \o r \in Text /\ <<c>> \o r # <<>> /\ (<<c>> \o r)[1] = c
         /\ Tail(<<c>> \o r) = r /\ From(<<c>> \o r, 2) = r /\ Len(<<c>> \o r) = 1 + Len(r)
  BY DEF Text, From

LEMMA Assoc ==
  ASSUME NEW a \in Text, NEW b \in Text, NEW c \in Text
  PROVE  (a \o b) \o c = a \o (b \o c)
  BY DEF Text

\* The prefix of a header without a key, with a plain one, with a quoted one.
LEMMA NoPrefix ==
  ASSUME NEW r \in Text
  PROVE  parse_optional_key_prefix(<<"[">> \o r)
           = [keyed |-> FALSE, quoted |-> FALSE, key |-> <<>>, at |-> 1]
<1> DEFINE w == <<"[">> \o r
<1>1. w \in Text /\ w # <<>> /\ w[1] = "[" /\ Len(w) = 1 + Len(r) /\ Len(r) \in Nat
  <2>1. "[" \in Character  BY Named
  <2>2. Len(r) \in Nat  BY DEF Text
  <2> QED  BY <2>1, <2>2, HeadFacts
<1> HIDE DEF w
<1>2. w[1] # Quote
  <2>1. Quote # "["  BY Zenon DEF Quote
  <2> QED  BY <1>1, <2>1
<1>3. FirstAt(w, 1, LAMBDA c : c = "[") = 1
  <2>1. 1 \in 1 .. Size(w) /\ Char(w, 1) = "["  BY <1>1 DEF Size, Char
  <2>2. \A j \in 1 .. Size(w) : 1 <= j /\ j < 1 => Char(w, j) # "["  BY <1>1 DEF Size
  <2>3. FirstOf(w, 1, "[") = 1  BY <1>1, <2>1, <2>2, FirstIs
  <2> QED  BY <2>3 DEF FirstOf, FirstAt
<1>4. ~is_unquoted_key(Before(w, 1))
  <2>1. Before(w, 1) = <<>>  BY <1>1 DEF Before, Text
  <2> QED  BY <2>1 DEF is_unquoted_key
<1>5. parse_optional_key_prefix(w) = [keyed |-> FALSE, quoted |-> FALSE, key |-> <<>>, at |-> 1]
  BY <1>1, <1>2, <1>3, <1>4 DEF parse_optional_key_prefix
<1> QED  BY <1>5 DEF w

LEMMA PlainPrefix ==
  ASSUME NEW s \in Text, is_unquoted_key(s), NEW r \in Text
  PROVE  parse_optional_key_prefix(s \o (<<"[">> \o r))
           = [keyed |-> TRUE, quoted |-> FALSE, key |-> s, at |-> Len(s) + 1]
<1> DEFINE t == <<"[">> \o r
           w == s \o t
<1>1. t \in Text /\ t # <<>> /\ t[1] = "[" /\ Len(t) = 1 + Len(r) /\ Len(r) \in Nat
  <2>1. "[" \in Character  BY Named
  <2>2. Len(r) \in Nat  BY DEF Text
  <2> QED  BY <2>1, <2>2, HeadFacts
<1>2. s # <<>> /\ Letter(s[1]) /\ \A i \in DOMAIN s : Letter(s[i]) \/ s[i] \in Digit \cup {"."}
  BY DEF is_unquoted_key
<1> HIDE DEF t
<1>3. /\ w \in Text /\ w # <<>> /\ Len(w) = Len(s) + Len(t) /\ Len(s) \in Nat /\ 1 <= Len(s)
      /\ \A i \in 1 .. Len(s) : w[i] = s[i]
      /\ w[Len(s) + 1] = "["
  BY <1>1, <1>2 DEF Text
<1>4. Before(w, Len(s) + 1) = s  BY <1>1, Halves
<1> HIDE DEF w
<1>5. \A i \in 1 .. Len(s) : s[i] # "["
  <2>1. "[" \notin Digit \cup {"."} /\ ~Letter("[")  BY Separators
  <2>2. DOMAIN s = 1 .. Len(s)  BY DEF Text
  <2> QED  BY <1>2, <2>1, <2>2
<1>6. w[1] # Quote
  <2>1. s[1] # Quote  BY <1>2, PlainInKey
  <2>2. w[1] = s[1]  BY <1>3
  <2> QED  BY <2>1, <2>2
<1>7. FirstAt(w, 1, LAMBDA c : c = "[") = Len(s) + 1
  <2> DEFINE n == Len(s) + 1
  <2>1. n \in 1 .. Size(w) /\ Char(w, n) = "[" /\ 1 <= n  BY <1>1, <1>3 DEF Size, Char
  <2>2. \A j \in 1 .. Size(w) : 1 <= j /\ j < n => Char(w, j) # "["
    BY <1>3, <1>5 DEF Size, Char
  <2> HIDE DEF n
  <2>3. FirstOf(w, 1, "[") = n  BY <1>3, <2>1, <2>2, FirstIs
  <2> QED  BY <2>3 DEF n, FirstOf, FirstAt
<1>8. ~(Len(s) + 1 > Len(w))  BY <1>1, <1>3
<1>9. parse_optional_key_prefix(w)
        = [keyed |-> TRUE, quoted |-> FALSE, key |-> s, at |-> Len(s) + 1]
  BY <1>3, <1>4, <1>6, <1>7, <1>8 DEF parse_optional_key_prefix
<1> QED  BY <1>9 DEF w, t

LEMMA QuotedPrefix ==
  ASSUME NEW s \in Text, NEW t \in Text
  PROVE  parse_optional_key_prefix(quote_string(s) \o t)
           = [keyed |-> TRUE, quoted |-> TRUE, key |-> s, at |-> Len(quote_string(s)) + 1]
<1> DEFINE q == quote_string(s)
           w == q \o t
           p == [text |-> s, end |-> Len(q)]
<1>1. q \in Text /\ q # <<>> /\ q[1] = Quote  BY QuotedEnds
<1>2. parse_quoted(w) = p  BY QuotedIsRead
<1> HIDE DEF q
<1>3. w # <<>> /\ w[1] = Quote  BY <1>1 DEF Text
<1>4. ~Failed(p) /\ p.text = s /\ p.end = Len(q)  BY DEF Failed
<1> HIDE DEF w, p
<1>5. parse_optional_key_prefix(w)
        = [keyed |-> TRUE, quoted |-> TRUE, key |-> s, at |-> Len(q) + 1]
  BY <1>2, <1>3, <1>4 DEF parse_optional_key_prefix
<1> QED  BY <1>5 DEF w, q

\* The names of the columns are read back.
LEMMA NamesAreRead ==
  ASSUME NEW fields \in Seq(Text), fields # <<>>, NEW delim \in Delim
  PROVE  LET names == Joined([i \in 1 .. Len(fields) |-> encode_key(fields[i])], delim)
         IN /\ Closed(names, "}")
            /\ parse_field_names(names, delim) = [names |-> fields]
<1> DEFINE N == Len(fields)
           keys == [i \in 1 .. N |-> encode_key(fields[i])]
           names == Joined(keys, delim)
<1>1. N \in Nat /\ N # 0 /\ \A i \in 1 .. N : fields[i] \in Text  OBVIOUS
<1>2. keys \in Seq(Text) /\ Len(keys) = N /\ keys # <<>>
  <2>1. \A i \in 1 .. N : encode_key(fields[i]) \in Text  BY <1>1, KeyEnds
  <2> QED  BY <1>1, <2>1
<1>3. \A i \in 1 .. N : keys[i] = encode_key(fields[i])  OBVIOUS
<1> HIDE DEF keys
<1>4. delim \in Character /\ delim # Quote /\ "}" # delim  BY Separators DEF Delim
<1>5. Closed(names, "}")
  <2>1. \A i \in 1 .. Len(keys) : Closed(keys[i], "}")  BY <1>1, <1>2, <1>3, KeyIsClosed
  <2> QED  BY <1>2, <1>4, <2>1, ClosedJoined
<1>6. split_delimited(names, delim) = keys
  <2>1. \A i \in 1 .. Len(keys) : Closed(keys[i], delim)  BY <1>1, <1>2, <1>3, KeyIsClosed
  <2> QED  BY <1>2, <1>4, <2>1, SplitJoined
<1> HIDE DEF names
<1> DEFINE Name(p) == IF p # <<>> /\ p[1] = Quote THEN WholeQuoted(p) ELSE Str(p)
           read == [i \in DOMAIN keys |-> Name(Trim(keys[i]))]
<1>7. ASSUME NEW i \in 1 .. N PROVE Name(Trim(keys[i])) = Str(fields[i])
  <2> DEFINE s == fields[i]
             k == encode_key(s)
  <2>1. s \in Text  BY <1>1
  <2>2. /\ k \in Text /\ k # <<>> /\ k[1] \notin Blank /\ k[Len(k)] \notin Blank
        /\ k[1] = Quote <=> ~is_unquoted_key(s)
    BY <2>1, KeyEnds
  <2>3. Trim(keys[i]) = k  BY <1>3, <2>2, TrimKeeps
  <2>4. CASE is_unquoted_key(s)
    <3>1. k = s /\ k[1] # Quote  BY <2>2, <2>4 DEF encode_key
    <3> QED  BY <2>3, <3>1
  <2>5. CASE ~is_unquoted_key(s)
    <3>1. k = quote_string(s) /\ k[1] = Quote  BY <2>2, <2>5 DEF encode_key
    <3>2. WholeQuoted(k) = Str(s)
      <4> DEFINE q == quote_string(s)
      <4>1. parse_quoted(q) = [text |-> s, end |-> Len(q)]
        <5>1. <<>> \in Text /\ \A u \in Text : u \o <<>> = u  BY DEF Text
        <5>2. q \in Text  BY <2>2, <3>1
        <5> QED  BY <2>1, <5>1, <5>2, QuotedIsRead
      <4> HIDE DEF q
      <4>2. ~Failed([text |-> s, end |-> Len(q)])  BY DEF Failed
      <4>3. WholeQuoted(q) = Str(s)  BY <4>1, <4>2 DEF WholeQuoted, IfRead
      <4> QED  BY <3>1, <4>3 DEF q
    <3> QED  BY <2>2, <2>3, <3>1, <3>2
  <2> QED  BY <2>4, <2>5
<1>8. DOMAIN keys = 1 .. N  BY <1>2
<1>9. parse_field_names(names, delim)
        = AllRead(read, LAMBDA x : [names |-> [i \in DOMAIN x |-> x[i].text]])
  BY <1>6 DEF parse_field_names
<1>10. DOMAIN read = 1 .. N /\ \A i \in 1 .. N : read[i] = Str(fields[i])  BY <1>7, <1>8
<1> HIDE DEF read
<1>11. \A i \in DOMAIN read : ~Failed(read[i]) /\ read[i].text = fields[i]
  <2>1. \A f : ~Failed(Str(f)) /\ Str(f).text = f  BY DEF Failed, Str
  <2> QED  BY <1>10, <2>1
<1>12. [i \in DOMAIN read |-> read[i].text] = fields
  <2>1. fields = [i \in 1 .. N |-> fields[i]]  OBVIOUS
  <2> QED  BY <1>10, <1>11, <2>1
<1>13. parse_field_names(names, delim) = [names |-> fields]
  BY <1>9, <1>11, <1>12 DEF AllRead
<1> QED  BY <1>5, <1>13 DEF names, keys

-----------------------------------------------------------------------------
(* Array headers: what stands in braces and in brackets. *)

\* Nothing is trimmed where no space stands.
LEMMA OtherFirst ==
  ASSUME NEW s \in Text, s # <<>>, NEW c, s[1] # c
  PROVE  /\ Min({n \in 1 .. Len(s) : s[n] # c} \cup {Len(s) + 1}) = 1
         /\ SubSeq(s, 1, Len(s)) = s
<1> DEFINE S == {n \in 1 .. Len(s) : s[n] # c} \cup {Len(s) + 1}
<1>1. Len(s) \in Nat /\ 1 \in 1 .. Len(s)  BY DEF Text
<1>2. S \in SUBSET Nat /\ 1 \in S /\ \A i \in S : 1 <= i  BY <1>1
<1> HIDE DEF S
<1>3. Min(S) = 1  BY <1>2, LeastIs
<1>4. SubSeq(s, 1, Len(s)) = s  BY DEF Text
<1> QED  BY <1>3, <1>4 DEF S

LEMMA NoSpaces ==
  ASSUME NEW s \in Text, s # <<>>, s[1] # " "
  PROVE  TrimSpaces(s) = s
<1>1. /\ Min({n \in 1 .. Len(s) : s[n] # " "} \cup {Len(s) + 1}) = 1
      /\ SubSeq(s, 1, Len(s)) = s
  BY OtherFirst
<1> QED  BY <1>1 DEF TrimSpaces, From, FirstAt

\* The columns of a header, or none.
Columns(fields, delim) ==
  IF fields # <<>>
    THEN <<"{">> \o Joined([i \in 1 .. Len(fields) |-> encode_key(fields[i])], delim) \o <<"}">>
    ELSE <<>>

LEMMA ColumnsAreRead ==
  ASSUME NEW fields \in Seq(Text), NEW delim \in Delim, NEW rest \in Text
  PROVE  LET t == Columns(fields, delim) \o (<<":">> \o rest)
         IN /\ Columns(fields, delim) \in Text
            /\ t \in Text /\ t # <<>> /\ t[1] # " "
            /\ ParseColumns(t, delim)
                 = [tabular |-> fields # <<>>, fields |-> fields, rest |-> <<":">> \o rest]
<1> DEFINE r == <<":">> \o rest
           c == Columns(fields, delim)
           t == c \o r
           tabular == fields # <<>>
<1>1. r \in Text /\ r # <<>> /\ r[1] = ":"
  <2>1. ":" \in Character  BY Named
  <2> QED  BY <2>1, HeadFacts
<1> HIDE DEF r
<1>2. CASE fields = <<>>
  <2>1. c = <<>> /\ c \in Text  BY <1>2 DEF Columns, Text
  <2> HIDE DEF c
  <2>2. t = r  BY <1>1, <2>1 DEF Text
  <2> HIDE DEF t
  <2>3. ParseColumns(t, delim) = [tabular |-> FALSE, fields |-> <<>>, rest |-> r]
    BY <1>1, <2>2 DEF ParseColumns
  <2>4. tabular = FALSE  BY <1>2
  <2> HIDE DEF tabular
  <2>5. ParseColumns(t, delim) = [tabular |-> tabular, fields |-> fields, rest |-> r]
    BY <1>2, <2>3, <2>4
  <2>6. t[1] # " "  BY <1>1, <2>2
  <2> QED  BY <1>1, <2>1, <2>2, <2>5, <2>6 DEF t, c, r, tabular
<1>3. CASE fields # <<>>
  <2> DEFINE keys  == [i \in 1 .. Len(fields) |-> encode_key(fields[i])]
             names == Joined(keys, delim)
             after == names \o (<<"}">> \o r)
  <2>1. Closed(names, "}") /\ parse_field_names(names, delim) = [names |-> fields]
    BY <1>3, NamesAreRead
  <2>2. c = <<"{">> \o names \o <<"}">>  BY <1>3 DEF Columns
  <2> HIDE DEF c, names
  <2>3. "{" \in Character /\ "}" \in Character  BY Named
  <2>4. names \in Text /\ <<"{">> \in Text /\ <<"}">> \in Text  BY <2>1, <2>3, One DEF Closed
  <2>5. c \in Text /\ after \in Text /\ <<"}">> \o r \in Text
    BY <1>1, <2>2, <2>4, Concat
  <2>6. t = <<"{">> \o after
    <3>1. t = (<<"{">> \o names) \o (<<"}">> \o r)
      <4>1. <<"{">> \o names \in Text  BY <2>4, Concat
      <4> QED  BY <1>1, <2>2, <2>4, <4>1, Assoc
    <3> QED  BY <2>4, <2>5, <3>1, Assoc
  <2>7. after = names \o (<<"}">> \o r)  OBVIOUS
  <2> HIDE DEF t, after
  <2>8. t \in Text /\ t # <<>> /\ t[1] = "{" /\ Tail(t) = after /\ Len(t) = 1 + Len(after)
    BY <2>3, <2>5, <2>6, HeadFacts
  <2> DEFINE n == Len(names)
             ends == Bare(Tail(t), "}")
  <2>9. n \in Nat /\ ends # {} /\ Min(ends) = n + 1
    <3>1. Size(names) + 1 \in Bare(names \o (<<"}">> \o r), "}")
          /\ Min(Bare(names \o (<<"}">> \o r), "}")) = Size(names) + 1
      BY <1>1, <2>1, <2>3, FirstBare
    <3>2. n \in Nat  BY <2>4, SizeType DEF Size
    <3> QED  BY <2>7, <2>8, <3>1, <3>2 DEF Size
  <2> HIDE DEF ends
  <2>10. SubSeq(t, 2, Min(ends)) = names
    <3>1. SubSeq(<<"{">> \o (names \o (<<"}">> \o r)), Len(<<"{">>) + 1, Len(<<"{">>) + Len(names)) = names
      BY <2>4, <2>5, Middle
    <3>2. Len(<<"{">>) + 1 = 2 /\ Len(<<"{">>) + Len(names) = n + 1  BY <2>9
    <3> QED  BY <2>6, <2>7, <2>9, <3>1, <3>2
  <2>11. From(t, Min(ends) + 2) = r
    <3> DEFINE a == (<<"{">> \o names) \o <<"}">>
    <3>1. a \in Text /\ Size(a) = Size(names) + 2
      <4> DEFINE u == <<"{">>
                 v == <<"}">>
                 m == u \o names
      <4>1. u \in Text /\ v \in Text /\ Size(u) = 1 /\ Size(v) = 1 /\ Size(names) \in Nat
        BY <2>3, <2>4, One, SizeType
      <4>2. a = m \o v  OBVIOUS
      <4> HIDE DEF u, v, a
      <4>3. m \in Text /\ Size(m) = Size(u) + Size(names)  BY <2>4, <4>1, Concat
      <4> HIDE DEF m
      <4>4. a \in Text /\ Size(a) = Size(m) + Size(v)  BY <4>1, <4>2, <4>3, Concat
      <4> QED  BY <4>1, <4>3, <4>4
    <3>2. t = a \o r  BY <2>2 DEF t
    <3> HIDE DEF a
    <3>3. From(a \o r, Len(a) + 1) = r  BY <1>1, <3>1, Halves
    <3>4. Min(ends) + 2 = Len(a) + 1  BY <2>9, <3>1 DEF Size
    <3> QED  BY <3>2, <3>3, <3>4
  <2>12. TrimSpaces(r) = r
    <3>1. r[1] # " "  BY <1>1
    <3> QED  BY <1>1, <3>1, NoSpaces
  <2> DEFINE f == [names |-> fields]
  <2>13. ~Failed(f) /\ f.names = fields  BY DEF Failed
  <2>14. parse_field_names(SubSeq(t, 2, Min(ends)), delim) = f  BY <2>1, <2>10
  <2> HIDE DEF f, n
  <2>15. ParseColumns(t, delim) = [tabular |-> TRUE, fields |-> fields, rest |-> r]
    BY <2>8, <2>9, <2>11, <2>12, <2>13, <2>14 DEF ParseColumns, IfRead, ends
  <2>16. tabular = TRUE  BY <1>3
  <2> HIDE DEF tabular
  <2>17. ParseColumns(t, delim) = [tabular |-> tabular, fields |-> fields, rest |-> r]
    BY <2>15, <2>16
  <2>18. t[1] # " "  BY <2>8
  <2> QED  BY <2>5, <2>8, <2>17, <2>18 DEF t, c, r, tabular
<1> QED  BY <1>2, <1>3

\* What stands in the brackets of a header.
Brackets(n, delim) == Decimal(n) \o (IF delim = "," THEN <<>> ELSE <<delim>>)

\* c stands nowhere in s.
Without(s, c) == \A i \in 1 .. Len(s) : s[i] # c

LEMMA BracketsAreRead ==
  ASSUME NEW n \in Nat, NEW delim \in Delim
  PROVE  LET b == Brackets(n, delim)
         IN /\ b \in Text /\ Without(b, "]")
            /\ Bracketed(b) = [length |-> Decimal(n), delim |-> delim]
<1> DEFINE d == Decimal(n)
           b == Brackets(n, delim)
<1>1. d \in Text /\ d # <<>> /\ \A i \in 1 .. Len(d) : d[i] \in Digit  BY DecimalIsRead
<1>2. Len(d) \in Nat /\ Len(d) \in 1 .. Len(d)  BY <1>1 DEF Text
<1>3. \A x \in Digit : x # "]" /\ x # "\t" /\ x # "|"  BY DEF Digit
<1>4. CASE delim = ","
  <2>1. b = d
    <3>1. b = d \o <<>>  BY <1>4 DEF Brackets
    <3> HIDE DEF d
    <3> QED  BY <1>1, <3>1 DEF Text
  <2> HIDE DEF b, d
  <2>2. Last(d) \notin {"\t", "|"}  BY <1>1, <1>2, <1>3 DEF Last
  <2>3. Bracketed(b) = [length |-> d, delim |-> delim]  BY <1>4, <2>1, <2>2 DEF Bracketed
  <2> QED  BY <1>1, <1>3, <2>1, <2>3 DEF b, d, Without
<1>5. CASE delim # ","
  <2>1. b = d \o <<delim>>  BY <1>5 DEF Brackets
  <2>2. delim \in {"\t", "|"} /\ delim # "]"  BY <1>5 DEF Delim
  <2>3. delim \in Character  BY Separators
  <2> HIDE DEF b, d
  <2>4. /\ b \in Text /\ Len(b) = Len(d) + 1 /\ b # <<>> /\ b[Len(b)] = delim
        /\ \A i \in 1 .. Len(d) : b[i] = d[i]
    BY <1>1, <2>1, <2>3 DEF Text
  <2>5. Front(b) = d
    <3>1. Before(d \o <<delim>>, Len(d) + 1) = d  BY <1>1, <2>3, One, Halves
    <3>2. Len(b) - 1 = Len(d) /\ (Len(d) + 1) - 1 = Len(d)  BY <1>2, <2>4
    <3> QED  BY <2>1, <3>1, <3>2 DEF Front, Before
  <2>6. ASSUME NEW i \in 1 .. Len(b) PROVE b[i] # "]"
    <3>1. i \in 1 .. Len(d) \/ i = Len(b)  BY <1>2, <2>4
    <3>2. CASE i \in 1 .. Len(d)  BY <1>1, <1>3, <2>4, <3>2
    <3>3. CASE i = Len(b)  BY <2>2, <2>4, <3>3
    <3> QED  BY <3>1, <3>2, <3>3
  <2>7. Last(b) = delim  BY <2>4 DEF Last
  <2>8. Bracketed(b) = [length |-> d, delim |-> delim]  BY <2>2, <2>4, <2>5, <2>7 DEF Bracketed
  <2> QED  BY <2>4, <2>6, <2>8 DEF b, d, Without
<1> QED  BY <1>4, <1>5

-----------------------------------------------------------------------------
(* Array headers: where the brackets are. *)

\* Two texts put together, as an operator the provers need not look into.
Cat(a, b) == a \o b

LEMMA CatFacts ==
  /\ \A a, b \in Text : Cat(a, b) \in Text
  /\ \A a, b, c \in Text : Cat(Cat(a, b), c) = Cat(a, Cat(b, c))
  BY Concat, Assoc DEF Cat

LEMMA CatSizes ==
  ASSUME NEW s \in Text, NEW t \in Text
  PROVE  /\ Size(Cat(s, t)) = Size(s) + Size(t) /\ Size(s) \in Nat /\ Size(t) \in Nat
         /\ \A i \in 1 .. Size(s) : Char(Cat(s, t), i) = Char(s, i)
         /\ \A i \in 1 .. Size(t) : Char(Cat(s, t), Size(s) + i) = Char(t, i)
  BY Concat DEF Cat

\* The parts of a header, put together one after the other.
LEMMA RegroupLast ==
  ASSUME NEW x \in Text, NEW e \in Text, NEW f \in Text, NEW g \in Text, NEW h \in Text
  PROVE  Cat(Cat(Cat(Cat(x, e), f), g), h) = Cat(x, Cat(e, Cat(f, Cat(g, h))))
<1>1. Cat(x, e) \in Text /\ Cat(Cat(x, e), f) \in Text /\ Cat(g, h) \in Text
      /\ Cat(f, Cat(g, h)) \in Text
  BY CatFacts
<1>2. Cat(Cat(Cat(Cat(x, e), f), g), h) = Cat(Cat(Cat(x, e), f), Cat(g, h))
  BY <1>1, CatFacts
<1>3. Cat(Cat(Cat(x, e), f), Cat(g, h)) = Cat(Cat(x, e), Cat(f, Cat(g, h)))
  BY <1>1, CatFacts
<1>4. Cat(Cat(x, e), Cat(f, Cat(g, h))) = Cat(x, Cat(e, Cat(f, Cat(g, h))))
  BY <1>1, CatFacts
<1> QED  BY <1>2, <1>3, <1>4

LEMMA RegroupFirst ==
  ASSUME NEW a \in Text, NEW b \in Text, NEW c \in Text, NEW d \in Text, NEW r \in Text
  PROVE  Cat(Cat(Cat(Cat(a, b), c), d), r) = Cat(a, Cat(b, Cat(Cat(c, d), r)))
<1>1. Cat(Cat(Cat(Cat(a, b), c), d), r) = Cat(a, Cat(b, Cat(c, Cat(d, r))))
  BY RegroupLast
<1>2. Cat(Cat(c, d), r) = Cat(c, Cat(d, r))  BY CatFacts
<1> QED  BY <1>1, <1>2

\* A text with brackets around b, and what follows the brackets of a header.
InBrackets(K, b, t) == K \o (<<"[">> \o (b \o (<<"]">> \o t)))
AfterBrackets(fields, delim, rest) == Columns(fields, delim) \o (<<":">> \o rest)

\* A header is its key, the brackets and what follows them.
LEMMA HeaderShape ==
  ASSUME NEW K \in Text, NEW n \in Nat, NEW delim \in Delim,
         NEW fields \in Seq(Text), NEW rest \in Text
  PROVE  write_header(K, n, delim, fields, fields # <<>>) \o rest
           = InBrackets(K, Brackets(n, delim), AfterBrackets(fields, delim, rest))
<1> DEFINE d == Decimal(n)
           m == IF delim = "," THEN <<>> ELSE <<delim>>
           c == Columns(fields, delim)
<1>1. d \in Text  BY DecimalIsRead
<1>2. m \in Text
  <2>1. delim \in Character  BY Separators
  <2>2. <<>> \in Text  BY DEF Text
  <2> QED  BY <2>1, <2>2, One
<1>3. c \in Text  BY ColumnsAreRead
<1>4. <<"[">> \in Text /\ <<"]">> \in Text /\ <<":">> \in Text  BY One, Named
<1>5. write_header(K, n, delim, fields, fields # <<>>)
        = (((((K \o <<"[">>) \o d) \o m) \o <<"]">>) \o c) \o <<":">>
  BY DEF write_header, Columns
<1>6. Brackets(n, delim) = d \o m  BY DEF Brackets
<1> DEFINE open  == <<"[">>
           close == <<"]">>
           colon == <<":">>
<1> HIDE DEF d, m, c, open, close, colon
<1>7. open \in Text /\ close \in Text /\ colon \in Text  BY <1>4 DEF open, close, colon
<1>8. Cat(Cat(Cat(Cat(Cat(Cat(Cat(K, open), d), m), close), c), colon), rest)
        = Cat(K, Cat(open, Cat(Cat(d, m), Cat(close, Cat(c, Cat(colon, rest))))))
  <2> DEFINE x == Cat(Cat(Cat(K, open), d), m)
             r == Cat(close, Cat(c, Cat(colon, rest)))
  <2>1. Cat(K, open) \in Text /\ Cat(colon, rest) \in Text  BY <1>7, CatFacts
  <2>2. Cat(Cat(K, open), d) \in Text /\ Cat(c, Cat(colon, rest)) \in Text
    BY <1>1, <1>3, <2>1, CatFacts
  <2>3. x \in Text /\ r \in Text  BY <1>2, <1>7, <2>2, CatFacts
  <2>4. x = Cat(Cat(Cat(K, open), d), m) /\ r = Cat(close, Cat(c, Cat(colon, rest)))  OBVIOUS
  <2> HIDE DEF x, r
  <2>5. Cat(Cat(Cat(Cat(x, close), c), colon), rest) = Cat(x, r)
    <3>1. x \in Text /\ close \in Text /\ c \in Text /\ colon \in Text /\ rest \in Text
      BY <1>3, <1>7, <2>3
    <3>2. Cat(Cat(Cat(Cat(x, close), c), colon), rest)
            = Cat(x, Cat(close, Cat(c, Cat(colon, rest))))
      BY ONLY <3>1, RegroupLast
    <3> QED  BY <2>4, <3>2
  <2>6. Cat(x, r) = Cat(K, Cat(open, Cat(Cat(d, m), r)))
    BY <1>1, <1>2, <1>7, <2>3, <2>4, RegroupFirst
  <2> QED  BY <2>4, <2>5, <2>6
<1>9. write_header(K, n, delim, fields, fields # <<>>) \o rest
        = Cat(Cat(Cat(Cat(Cat(Cat(Cat(K, open), d), m), close), c), colon), rest)
  BY <1>5, Zenon DEF Cat, open, close, colon
<1>10. K \o (open \o (Brackets(n, delim) \o (close \o (c \o (colon \o rest)))))
         = Cat(K, Cat(open, Cat(Cat(d, m), Cat(close, Cat(c, Cat(colon, rest))))))
  BY <1>6, Zenon DEF Cat
<1> QED  BY <1>8, <1>9, <1>10, Zenon DEF c, open, close, colon, InBrackets, AfterBrackets

\* From place at on, w has brackets around b and then t.
Enclosed(w, at, b, t) ==
  /\ w[at] = "["
  /\ \E close \in Nat :
       /\ close = FirstOf(w, at + 1, "]")
       /\ ~(close > Len(w)) /\ SubSeq(w, at + 1, close - 1) = b
       /\ From(w, close + 1) = t

\* Where the brackets of w are, which begins with a text K of at - 1
\* characters.
LEMMA BracketsStand ==
  ASSUME NEW K \in Text, NEW b \in Text, Without(b, "]"), NEW t \in Text,
         NEW w, w = InBrackets(K, b, t),
         NEW at, at = Len(K) + 1
  PROVE  Enclosed(w, at, b, t)
<1> DEFINE o == <<"[">>
           e == <<"]">>
           r == Cat(e, t)
           br == Cat(b, r)
           x == Cat(K, o)
           y == Cat(x, b)
           z == Cat(y, e)
<1>1. o \in Text /\ e \in Text /\ Size(o) = 1 /\ Size(e) = 1 /\ Char(o, 1) = "[" /\ Char(e, 1) = "]"
  BY One, Named
<1>2. w = Cat(K, Cat(o, br))  BY Zenon DEF Cat, InBrackets
<1>3. x = Cat(K, o) /\ y = Cat(x, b) /\ z = Cat(y, e) /\ r = Cat(e, t) /\ br = Cat(b, r)
  OBVIOUS
<1> HIDE DEF o, e, r, br, x, y, z
<1>4. r \in Text /\ br \in Text  BY ONLY <1>1, <1>3, CatFacts, b \in Text, t \in Text
<1>5. /\ x \in Text /\ Size(x) = Size(K) + Size(o) /\ Size(K) \in Nat
      /\ \A i \in 1 .. Size(o) : Char(x, Size(K) + i) = Char(o, i)
  BY ONLY <1>1, <1>3, CatFacts, CatSizes, K \in Text
<1>6. /\ y \in Text /\ Size(y) = Size(x) + Size(b) /\ Size(b) \in Nat
      /\ \A i \in 1 .. Size(x) : Char(y, i) = Char(x, i)
      /\ \A i \in 1 .. Size(b) : Char(y, Size(x) + i) = Char(b, i)
  BY ONLY <1>3, <1>5, CatFacts, CatSizes, b \in Text
<1>7. /\ z \in Text /\ Size(z) = Size(y) + Size(e)
      /\ \A i \in 1 .. Size(y) : Char(z, i) = Char(y, i)
      /\ \A i \in 1 .. Size(e) : Char(z, Size(y) + i) = Char(e, i)
  <2>1. y \in Text /\ e \in Text /\ z = Cat(y, e)  BY <1>1, <1>3, <1>6
  <2> QED  BY ONLY <2>1, CatFacts, CatSizes
<1>8. w = Cat(x, br)  BY ONLY <1>1, <1>2, <1>3, <1>4, CatFacts, K \in Text
<1>9. w = Cat(y, r)  BY ONLY <1>3, <1>4, <1>5, <1>8, CatFacts, b \in Text
<1>10. w = Cat(z, t)  BY ONLY <1>1, <1>3, <1>6, <1>9, CatFacts, t \in Text
<1>11. /\ w \in Text /\ Size(w) = Size(z) + Size(t) /\ Size(t) \in Nat
       /\ \A i \in 1 .. Size(z) : Char(w, i) = Char(z, i)
  BY ONLY <1>7, <1>10, CatFacts, CatSizes, t \in Text
<1> DEFINE k == Size(K)
           l == Size(b)
<1>12. /\ k \in Nat /\ l \in Nat /\ Size(x) = k + 1 /\ Size(y) = (k + 1) + l
       /\ Size(z) = ((k + 1) + l) + 1 /\ at = k + 1
  BY <1>1, <1>5, <1>6, <1>7 DEF Size
<1> HIDE DEF k, l
<1> DEFINE close == ((k + 1) + l) + 1
<1>13. /\ close \in 1 .. Size(w) /\ close \in Nat /\ at + 1 \in Nat /\ 1 <= at + 1 /\ at + 1 <= close
       /\ at \in 1 .. Size(y) /\ at \in 1 .. Size(x) /\ close = Size(z) /\ close = Size(y) + 1
       /\ at = Size(K) + 1
  BY <1>11, <1>12 DEF k
<1>14. Char(w, at) = "["
  <2>1. Char(x, at) = "["  BY <1>1, <1>5, <1>13
  <2>2. at \in 1 .. Size(z)  BY <1>1, <1>7, <1>13
  <2> QED  BY <1>6, <1>7, <1>11, <1>13, <2>1, <2>2
<1>15. Char(w, close) = "]"
  <2>1. Char(z, close) = "]"  BY <1>1, <1>7, <1>13
  <2>2. close \in 1 .. Size(z)  BY <1>13
  <2> QED  BY <1>11, <2>1, <2>2
<1> HIDE DEF close
<1>16. ASSUME NEW j \in 1 .. Size(w), at + 1 <= j, j < close PROVE Char(w, j) # "]"
  <2>1. PICK i \in 1 .. l : j = Size(x) + i /\ j \in 1 .. Size(y) /\ j \in 1 .. Size(z)
    <3>1. /\ j - (k + 1) \in 1 .. l /\ j = (k + 1) + (j - (k + 1))
          /\ j \in 1 .. (k + 1) + l /\ j \in 1 .. ((k + 1) + l) + 1
      BY <1>12, <1>16 DEF close
    <3> QED  BY <1>12, <3>1
  <2>2. Char(y, j) = Char(b, i)  BY <1>6, <2>1 DEF l
  <2>3. Char(b, i) # "]"  BY <2>1 DEF l, Size, Char, Without
  <2>4. Char(w, j) = Char(y, j)  BY <1>7, <1>11, <2>1
  <2> QED  BY <2>2, <2>3, <2>4
<1>17. FirstOf(w, at + 1, "]") = close
  <2> DEFINE i == at + 1
  <2>1. w \in Text /\ i \in Nat /\ 1 <= i /\ i <= close /\ close \in 1 .. Size(w)  BY <1>11, <1>13
  <2>2. Char(w, close) = "]" /\ \A j \in 1 .. Size(w) : i <= j /\ j < close => Char(w, j) # "]"
    BY <1>15, <1>16
  <2> HIDE DEF i
  <2>3. FirstOf(w, i, "]") = close  BY ONLY <2>1, <2>2, FirstIs
  <2> QED  BY <2>3 DEF i
<1>19. ~(close > Len(w))
  <2>1. close \in 1 .. Len(w) /\ Len(w) \in Nat  BY <1>11, <1>13, SizeType DEF Size
  <2> QED  BY <1>13, <2>1
<1>20. SubSeq(w, at + 1, close - 1) = b
  <2>1. SubSeq(x \o (b \o r), Len(x) + 1, Len(x) + Len(b)) = b  BY <1>4, <1>5, Middle
  <2>2. Len(x) + 1 = at + 1 /\ Len(x) + Len(b) = close - 1
    <3>1. Len(x) = k + 1 /\ Len(b) = l  BY <1>12 DEF Size, l
    <3> QED  BY <1>12, <3>1 DEF close
  <2>3. w = x \o (b \o r)  BY <1>3, <1>8 DEF Cat
  <2> QED  BY <2>1, <2>2, <2>3
<1>21. From(w, close + 1) = t
  <2>1. From(z \o t, Len(z) + 1) = t  BY <1>7, Halves
  <2>2. Len(z) = close  BY <1>13 DEF Size
  <2>3. w = z \o t  BY <1>10 DEF Cat
  <2> QED  BY <2>1, <2>2, <2>3
<1>22. w[at] = "["  BY <1>14 DEF Char
<1> QED  BY <1>13, <1>17, <1>19, <1>20, <1>21, <1>22 DEF Enclosed

\* The rest of a header, when its key has been read as k.
LEMMA BracketsToEnd ==
  ASSUME NEW K \in Text, NEW n \in Nat, NEW delim \in Delim,
         NEW fields \in Seq(Text), NEW rest \in Text,
         NEW keyed, NEW quoted, NEW key, NEW k,
         k = [keyed |-> keyed, quoted |-> quoted, key |-> key, at |-> Len(K) + 1],
         NEW w, w = InBrackets(K, Brackets(n, delim), AfterBrackets(fields, delim, rest)),
         parse_optional_key_prefix(w) = k
  PROVE  parse_array_header(w)
           = [header |-> TRUE, keyed |-> keyed, quoted |-> quoted, key |-> key,
              n |-> n, delim |-> delim, tabular |-> fields # <<>>, fields |-> fields,
              inline |-> TrimStart(rest)]
<1> DEFINE b == Brackets(n, delim)
           r == <<":">> \o rest
           t == AfterBrackets(fields, delim, rest)
           at == Len(K) + 1
           tabular == fields # <<>>
<1>1. ~Failed(k) /\ k.keyed = keyed /\ k.quoted = quoted /\ k.key = key /\ k.at = at
  BY DEF Failed
<1>2. b \in Text /\ Without(b, "]")
      /\ Bracketed(b) = [length |-> Decimal(n), delim |-> delim]
  BY BracketsAreRead
<1>3. /\ t \in Text /\ t # <<>> /\ t[1] # " "
      /\ ParseColumns(t, delim) = [tabular |-> tabular, fields |-> fields, rest |-> r]
  BY ColumnsAreRead DEF AfterBrackets
<1>4. r # <<>> /\ r[1] = ":" /\ Tail(r) = rest
  <2>1. ":" \in Character  BY Named
  <2> QED  BY <2>1, HeadFacts
<1>5. IsDigits(Decimal(n)) /\ Numeral(Decimal(n)) = n  BY DecimalIsRead
<1>6. w = InBrackets(K, b, t)  OBVIOUS
<1>7. at = Len(K) + 1  OBVIOUS
<1> HIDE DEF b, r, t, at, tabular
<1>8. /\ w[at] = "["
      /\ \E close \in Nat :
           /\ close = FirstOf(w, at + 1, "]")
           /\ ~(close > Len(w)) /\ SubSeq(w, at + 1, close - 1) = b
           /\ From(w, close + 1) = t
  <2>1. b \in Text  BY <1>2
  <2>2. Without(b, "]")  BY <1>2
  <2>3. t \in Text  BY <1>3
  <2>4. Enclosed(w, at, b, t)
    BY ONLY <2>1, <2>2, <2>3, <1>6, <1>7, BracketsStand, K \in Text
  <2> QED  BY <2>4 DEF Enclosed
<1>9. PICK close \in Nat :
        /\ close = FirstOf(w, at + 1, "]")
        /\ ~(close > Len(w)) /\ SubSeq(w, at + 1, close - 1) = b
        /\ From(w, close + 1) = t
  BY <1>8
<1> DEFINE br == [length |-> Decimal(n), delim |-> delim]
           c  == [tabular |-> tabular, fields |-> fields, rest |-> r]
<1>10. br.length = Decimal(n) /\ br.delim = delim  OBVIOUS
<1>11. ~Failed(c) /\ c # NotHeader /\ c.tabular = tabular /\ c.fields = fields /\ c.rest = r
  <2>1. "header" \in DOMAIN NotHeader /\ ~("header" \in DOMAIN c)  BY DEF NotHeader
  <2> QED  BY <2>1 DEF Failed
<1>12. TrimSpaces(t) = t  BY <1>3, NoSpaces
<1> HIDE DEF br, c
<1>13. parse_array_header(w) = HeaderFrom(w, k, close, br)
  <2>1. Bracketed(SubSeq(w, k.at + 1, close - 1)) = br  BY <1>1, <1>2, <1>9 DEF br
  <2>2. FirstAt(w, k.at + 1, LAMBDA x : x = "]") = close
    BY <1>1, <1>9 DEF FirstOf, FirstAt
  <2> QED  BY <1>1, <2>1, <2>2 DEF parse_array_header, IfRead
<1>14. ParseColumns(TrimSpaces(From(w, close + 1)), br.delim) = c
  BY <1>3, <1>9, <1>10, <1>12 DEF c
<1>15. HeaderFrom(w, k, close, br)
         = [header |-> TRUE, keyed |-> keyed, quoted |-> quoted, key |-> key,
            n |-> n, delim |-> delim, tabular |-> tabular, fields |-> fields,
            inline |-> TrimStart(rest)]
  BY <1>1, <1>4, <1>5, <1>8, <1>9, <1>10, <1>11, <1>14 DEF HeaderFrom, IfRead
<1> QED  BY <1>13, <1>15 DEF tabular

\* A header is read back: parse_array_header makes of the header write_header
\* wrote, and anything after it, the key and whether it was in quotes, the
\* length of the array however large, the delimiter, and the columns in their
\* order, whatever brackets, braces, colons and delimiters key and columns
\* hold.
THEOREM HeaderIsRead ==
  ASSUME NEW s \in Text, NEW keyed \in BOOLEAN, NEW n \in Nat, NEW delim \in Delim,
         NEW fields \in Seq(Text), NEW rest \in Text
  PROVE  parse_array_header(
           write_header(IF keyed THEN encode_key(s) ELSE <<>>, n, delim, fields, fields # <<>>)
           \o rest)
         = [header |-> TRUE, keyed |-> keyed, quoted |-> keyed /\ ~is_unquoted_key(s),
            key |-> IF keyed THEN s ELSE <<>>, n |-> n, delim |-> delim,
            tabular |-> fields # <<>>, fields |-> fields, inline |-> TrimStart(rest)]
<1> DEFINE K == IF keyed THEN encode_key(s) ELSE <<>>
           quoted == keyed /\ ~is_unquoted_key(s)
           key == IF keyed THEN s ELSE <<>>
           b == Brackets(n, delim)
           t == AfterBrackets(fields, delim, rest)
           r == b \o (<<"]">> \o t)
           w == InBrackets(K, b, t)
           k == [keyed |-> keyed, quoted |-> quoted, key |-> key, at |-> Len(K) + 1]
<1>1. K \in Text
  <2>1. <<>> \in Text  BY DEF Text
  <2> QED  BY <2>1, KeyEnds
<1>2. write_header(K, n, delim, fields, fields # <<>>) \o rest = w
  <2> HIDE DEF K
  <2> QED  BY <1>1, HeaderShape
<1>3. r \in Text
  <2> DEFINE e == <<"]">>
  <2>1. b \in Text /\ t \in Text /\ e \in Text
    BY BracketsAreRead, ColumnsAreRead, One, Named DEF AfterBrackets
  <2> HIDE DEF b, t, e
  <2>2. e \o t \in Text  BY <2>1, Concat
  <2>3. b \o (e \o t) \in Text  BY <2>1, <2>2, Concat
  <2> QED  BY <2>3 DEF e
<1>8. w = K \o (<<"[">> \o r)  BY DEF InBrackets
<1>4. parse_optional_key_prefix(w) = k
  <2> HIDE DEF r, w
  <2>1. CASE ~keyed
    <3>1. K = <<>> /\ Len(K) + 1 = 1 /\ key = <<>> /\ keyed = FALSE /\ quoted = FALSE  BY <2>1
    <3>2. w = <<"[">> \o r
      <4>1. <<"[">> \o r \in Text  BY <1>3, One, Named, Concat
      <4>2. \A u \in Text : <<>> \o u = u  BY DEF Text
      <4> QED  BY <1>8, <3>1, <4>1, <4>2
    <3>3. parse_optional_key_prefix(<<"[">> \o r)
            = [keyed |-> FALSE, quoted |-> FALSE, key |-> <<>>, at |-> 1]
      BY <1>3, NoPrefix
    <3> HIDE DEF K, key, quoted
    <3> QED  BY <3>1, <3>2, <3>3
  <2>2. CASE keyed /\ is_unquoted_key(s)
    <3>1. K = s /\ key = s /\ keyed = TRUE /\ quoted = FALSE  BY <2>2 DEF encode_key
    <3>2. parse_optional_key_prefix(s \o (<<"[">> \o r))
            = [keyed |-> TRUE, quoted |-> FALSE, key |-> s, at |-> Len(s) + 1]
      BY <1>3, <2>2, PlainPrefix
    <3> HIDE DEF K, key, quoted
    <3> QED  BY <1>8, <3>1, <3>2
  <2>3. CASE keyed /\ ~is_unquoted_key(s)
    <3>1. K = quote_string(s) /\ key = s /\ keyed = TRUE /\ quoted = TRUE  BY <2>3 DEF encode_key
    <3>2. <<"[">> \o r \in Text  BY <1>3, One, Named, Concat
    <3>3. parse_optional_key_prefix(quote_string(s) \o (<<"[">> \o r))
            = [keyed |-> TRUE, quoted |-> TRUE, key |-> s, at |-> Len(quote_string(s)) + 1]
      BY <3>2, QuotedPrefix
    <3> HIDE DEF K, key, quoted
    <3> QED  BY <1>8, <3>1, <3>3
  <2> QED  BY <2>1, <2>2, <2>3
<1>5. w = InBrackets(K, Brackets(n, delim), AfterBrackets(fields, delim, rest))  OBVIOUS
<1>6. k = [keyed |-> keyed, quoted |-> quoted, key |-> key, at |-> Len(K) + 1]  OBVIOUS
<1> HIDE DEF w, k, K, key, quoted, r, b, t
<1>7. parse_array_header(w)
        = [header |-> TRUE, keyed |-> keyed, quoted |-> quoted, key |-> key,
           n |-> n, delim |-> delim, tabular |-> fields # <<>>, fields |-> fields,
           inline |-> TrimStart(rest)]
  BY <1>1, <1>4, <1>5, <1>6, BracketsToEnd
<1> QED  BY <1>2, <1>7 DEF K, key, quoted

-----------------------------------------------------------------------------
(* Numbers: their digits and their point. *)

\* The characters before and after a place of a text.
LEMMA BeforeIs ==
  ASSUME NEW s \in Text, NEW i \in 1 .. Size(s) + 1
  PROVE  /\ Before(s, i) \in Text /\ Size(Before(s, i)) = i - 1
         /\ \A j \in 1 .. i - 1 : Char(Before(s, i), j) = Char(s, j)
  BY DEF Before, Text, Size, Char

LEMMA FromIs ==
  ASSUME NEW s \in Text, NEW k \in 0 .. Size(s), NEW i, i = k + 1
  PROVE  /\ From(s, i) \in Text /\ Size(From(s, i)) = Size(s) - k
         /\ \A j \in 1 .. Size(s) - k : Char(From(s, i), j) = Char(s, k + j)
  BY DEF From, Text, Size, Char

LEMMA SetIs ==
  ASSUME NEW s \in Text
  PROVE  ToSet(s) = {Char(s, i) : i \in 1 .. Size(s)}
  BY DEF ToSet, Text, Size, Char

\* A whole number in digits, and a number with its point at place d.
Whole(u) == u \in Text /\ Size(u) >= 1 /\ \A i \in 1 .. Size(u) : Char(u, i) \in Digit
Split(u, d) ==
  /\ u \in Text /\ d \in 2 .. Size(u) - 1 /\ Char(u, d) = "."
  /\ \A i \in 1 .. Size(u) : i # d => Char(u, i) \in Digit

LEMMA PointIsNoDigit == "." \notin Digit
  BY DEF Digit

LEMMA DigitsAre ==
  ASSUME NEW s \in Text
  PROVE  IsDigits(s) <=> Whole(s)
<1>1. s # <<>> <=> Size(s) >= 1  BY DEF Text, Size
<1>2. ToSet(s) \subseteq Digit <=> \A i \in 1 .. Size(s) : Char(s, i) \in Digit
  BY SetIs
<1> QED  BY <1>1, <1>2 DEF IsDigits, Whole

LEMMA SplitAt ==
  ASSUME NEW s \in Text, NEW d \in 1 .. Size(s)
  PROVE  (Char(s, d) = "." /\ Whole(Before(s, d)) /\ Whole(From(s, d + 1))) <=> Split(s, d)
<1> DEFINE n == Size(s)
           b == Before(s, d)
           f == From(s, d + 1)
<1>1. n \in Nat /\ d \in 1 .. n  BY SizeType
<1>2. /\ b \in Text /\ Size(b) = d - 1
      /\ \A j \in 1 .. d - 1 : Char(b, j) = Char(s, j)
  <2>1. d \in 1 .. Size(s) + 1  BY <1>1
  <2> QED  BY <2>1, BeforeIs
<1>3. /\ f \in Text /\ Size(f) = n - d
      /\ \A j \in 1 .. n - d : Char(f, j) = Char(s, d + j)
  <2>1. d \in 0 .. Size(s)  BY <1>1
  <2> QED  BY <2>1, FromIs
<1> HIDE DEF b, f
<1>4. ASSUME Char(s, d) = ".", Whole(b), Whole(f) PROVE Split(s, d)
  <2>1. d - 1 >= 1 /\ n - d >= 1  BY <1>2, <1>3, <1>4 DEF Whole
  <2>2. ASSUME NEW i \in 1 .. n, i # d PROVE Char(s, i) \in Digit
    <3>1. CASE i < d
      <4>1. i \in 1 .. d - 1  BY <1>1, <3>1
      <4> QED  BY <1>2, <1>4, <4>1 DEF Whole
    <3>2. CASE i > d
      <4>1. PICK j \in 1 .. n - d : i = d + j
        <5>1. i - d \in 1 .. n - d /\ i = d + (i - d)  BY <1>1, <3>2
        <5> QED  BY <5>1
      <4> QED  BY <1>3, <1>4, <4>1 DEF Whole
    <3> QED  BY <1>1, <2>2, <3>1, <3>2
  <2>3. d \in 2 .. n - 1  BY <1>1, <2>1
  <2> QED  BY <1>4, <2>2, <2>3 DEF Split
<1>5. ASSUME Split(s, d) PROVE Char(s, d) = "." /\ Whole(b) /\ Whole(f)
  <2>1. d - 1 >= 1 /\ n - d >= 1  BY <1>1, <1>5 DEF Split
  <2>2. ASSUME NEW j \in 1 .. d - 1 PROVE Char(b, j) \in Digit
    <3>1. j \in 1 .. n /\ j # d  BY <1>1
    <3> QED  BY <1>2, <1>5, <3>1 DEF Split
  <2>3. ASSUME NEW j \in 1 .. n - d PROVE Char(f, j) \in Digit
    <3>1. PICK i \in 1 .. n : i = d + j /\ i # d
      <4>1. d + j \in 1 .. n /\ d + j # d  BY <1>1
      <4> QED  BY <4>1
    <3> QED  BY <1>3, <1>5, <3>1 DEF Split
  <2> QED  BY <1>2, <1>3, <1>5, <2>1, <2>2, <2>3 DEF Whole, Split
<1> QED  BY <1>4, <1>5 DEF b, f

\* The two shapes of a decimal number.
LEMMA DecimalShape ==
  ASSUME NEW s \in Text
  PROVE  IsDecimal(s) <=> (Whole(s) \/ \E d \in 1 .. Size(s) : Split(s, d))
<1> DEFINE P(d) == s[d] = "." /\ IsDigits(Before(s, d)) /\ IsDigits(From(s, d + 1))
<1>1. ASSUME NEW d \in 1 .. Size(s) PROVE P(d) <=> Split(s, d)
  <2>1. s[d] = Char(s, d)  BY DEF Char
  <2>2. Before(s, d) \in Text /\ From(s, d + 1) \in Text
    <3>1. d \in 1 .. Size(s) + 1 /\ d \in 0 .. Size(s)  BY SizeType
    <3> QED  BY <3>1, BeforeIs, FromIs
  <2> QED  BY <2>1, <2>2, DigitsAre, SplitAt
<1>2. IsDecimal(s) <=> (IsDigits(s) \/ \E d \in DOMAIN s : P(d))  BY Zenon DEF IsDecimal
<1> HIDE DEF P
<1>3. DOMAIN s = 1 .. Size(s)  BY Places
<1> QED  BY <1>1, <1>2, <1>3, DigitsAre

\* Where a character other than c stands first in w.
FirstNot(w, c) == Min({j \in 1 .. Len(w) : w[j] # c} \cup {Len(w) + 1})

\* It is where the characters that are c end.
LEMMA FirstNotFacts ==
  ASSUME NEW w \in Text, NEW c
  PROVE  /\ FirstNot(w, c) \in 1 .. Size(w) + 1
         /\ \A j \in 1 .. Size(w) : j < FirstNot(w, c) => Char(w, j) = c
         /\ FirstNot(w, c) \in 1 .. Size(w) => Char(w, FirstNot(w, c)) # c
<1> DEFINE S == {j \in 1 .. Len(w) : w[j] # c} \cup {Len(w) + 1}
<1>1. Len(w) \in Nat /\ S \in SUBSET Nat /\ S # {}  BY DEF Text
<1> HIDE DEF S
<1>2. PICK m \in S : \A j \in S : m <= j  BY <1>1, Least
<1>3. Min(S) = m  BY <1>1, <1>2, LeastIs
<1> DEFINE n == FirstNot(w, c)
<1>4. n = m  BY <1>3 DEF FirstNot, S
<1> HIDE DEF n
<1>5. /\ n \in 1 .. Len(w) + 1
      /\ \A j \in 1 .. Len(w) : w[j] # c => n <= j
      /\ n \in 1 .. Len(w) => w[n] # c
  BY <1>1, <1>2, <1>4 DEF S
<1>6. /\ n \in 1 .. Size(w) + 1
      /\ \A j \in 1 .. Size(w) : j < n => Char(w, j) = c
      /\ n \in 1 .. Size(w) => Char(w, n) # c
  BY <1>1, <1>5 DEF Size, Char
<1> QED  BY <1>6 DEF n

\* A part of a text.
LEMMA PartIs ==
  ASSUME NEW s \in Text, NEW b \in 0 .. Size(s), NEW a \in 0 .. b, NEW i, i = a + 1
  PROVE  /\ SubSeq(s, i, b) \in Text /\ Size(SubSeq(s, i, b)) = b - a
         /\ \A j \in 1 .. b - a : Char(SubSeq(s, i, b), j) = Char(s, a + j)
  BY DEF Text, Size, Char

\* The digits all with a point after place size, without leading zeros.
Shown(all, size) ==
  LET whole == SubSeq(all, Min({FirstNot(all, "0"), size}), size)
  IN IF size = Len(all) THEN whole ELSE whole \o <<".">> \o From(all, size + 1)

\* That w is this, k being the leading zeros and p = k + 1.
ShownAs(w, all, size, k, p) ==
  /\ k \in Nat /\ p \in 1 .. size /\ p = k + 1 /\ size \in 1 .. Size(all)
  /\ \A j \in 1 .. k : Char(all, j) = "0"
  /\ p = size \/ Char(all, p) # "0"
  /\ \A i \in 1 .. size - k : Char(w, i) = Char(all, k + i)
  /\ size = Size(all) => Whole(w) /\ Size(w) = size - k
  /\ size # Size(all) =>
       /\ Split(w, size - k + 1) /\ Size(w) = Size(all) - k + 1
       /\ \A j \in 1 .. Size(all) - size : Char(w, (size - k + 1) + j) = Char(all, size + j)

\* Digits without the zeros they begin with, up to the place of the point.
LEMMA LeadIs ==
  ASSUME NEW all, Whole(all), NEW size \in 1 .. Size(all)
  PROVE  \E k \in Nat, p \in 1 .. size :
           /\ p = k + 1 /\ p = Min({FirstNot(all, "0"), size})
           /\ \A j \in 1 .. k : Char(all, j) = "0"
           /\ p = size \/ Char(all, p) # "0"
<1> DEFINE n == FirstNot(all, "0")
           S == {n, size}
<1>1. all \in Text /\ Size(all) \in Nat /\ size \in Nat  BY SizeType DEF Whole
<1>2. /\ n \in 1 .. Size(all) + 1
      /\ \A j \in 1 .. Size(all) : j < n => Char(all, j) = "0"
      /\ n \in 1 .. Size(all) => Char(all, n) # "0"
  BY <1>1, FirstNotFacts
<1> HIDE DEF n
<1>3. S \in SUBSET Nat  BY <1>1, <1>2
<1>4. CASE n <= size
  <2>1. n \in S /\ \A j \in S : n <= j  BY <1>1, <1>2, <1>4
  <2>2. Min(S) = n  BY <1>3, <2>1, LeastIs
  <2>3. n - 1 \in Nat /\ n \in 1 .. size /\ n \in 1 .. Size(all) /\ n = (n - 1) + 1  BY <1>1, <1>2, <1>4
  <2>4. \A j \in 1 .. n - 1 : Char(all, j) = "0"
    <3>1. \A j \in 1 .. n - 1 : j \in 1 .. Size(all) /\ j < n  BY <2>3, <1>1
    <3> QED  BY <1>2, <3>1
  <2> QED  BY <1>2, <2>2, <2>3, <2>4 DEF n
<1>5. CASE n > size
  <2>1. size \in S /\ \A j \in S : size <= j  BY <1>1, <1>2, <1>5
  <2>2. Min(S) = size  BY <1>3, <2>1, LeastIs
  <2>3. size - 1 \in Nat /\ size \in 1 .. size /\ size = (size - 1) + 1  BY <1>1
  <2>4. \A j \in 1 .. size - 1 : Char(all, j) = "0"
    <3>1. \A j \in 1 .. size - 1 : j \in 1 .. Size(all) /\ j < n  BY <1>1, <1>2, <1>5
    <3> QED  BY <1>2, <3>1
  <2> QED  BY <2>2, <2>3, <2>4 DEF n
<1> QED  BY <1>1, <1>2, <1>4, <1>5

\* What is shown of digits with the point after the first size of them.
LEMMA ShownIs ==
  ASSUME NEW all, Whole(all), NEW size \in 1 .. Size(all)
  PROVE  \E k, p : ShownAs(Shown(all, size), all, size, k, p)
<1> DEFINE N == Size(all)
<1>1. all \in Text /\ N \in Nat /\ size \in 1 .. N /\ Len(all) = N
  BY SizeType DEF Whole, Size
<1>2. PICK k \in Nat, p \in 1 .. size :
           /\ p = k + 1 /\ p = Min({FirstNot(all, "0"), size})
           /\ \A j \in 1 .. k : Char(all, j) = "0"
           /\ p = size \/ Char(all, p) # "0"
  BY LeadIs
<1> DEFINE h == SubSeq(all, p, size)
           f == From(all, size + 1)
           m == size - k
<1>3. m \in Nat /\ m >= 1 /\ m = size - k /\ k + m = size  BY <1>1, <1>2
<1> HIDE DEF m
<1>4. h \in Text /\ Size(h) = m /\ \A i \in 1 .. m : Char(h, i) = Char(all, k + i)
  <2>1. size \in 0 .. Size(all) /\ k \in 0 .. size  BY <1>1, <1>2
  <2> QED  BY <1>1, <1>2, <1>3, <2>1, PartIs
<1>5. f \in Text /\ Size(f) = N - size /\ \A j \in 1 .. N - size : Char(f, j) = Char(all, size + j)
  <2>1. size \in 0 .. Size(all)  BY <1>1
  <2> QED  BY <1>1, <2>1, FromIs
<1> HIDE DEF h, f
<1>6. \A i \in 1 .. m : Char(h, i) \in Digit
  <2>1. SUFFICES ASSUME NEW i \in 1 .. m PROVE Char(h, i) \in Digit  OBVIOUS
  <2>2. k + i \in 1 .. N  BY <1>1, <1>2, <1>3
  <2>3. Char(all, k + i) \in Digit  BY <2>2 DEF Whole
  <2> QED  BY <1>4, <2>3
<1>7. \A j \in 1 .. N - size : Char(f, j) \in Digit
  <2>1. SUFFICES ASSUME NEW j \in 1 .. N - size PROVE Char(f, j) \in Digit  OBVIOUS
  <2>2. size + j \in 1 .. N  BY <1>1
  <2>3. Char(all, size + j) \in Digit  BY <2>2 DEF Whole
  <2> QED  BY <1>5, <2>3
<1>8. CASE size = N
  <2>1. Shown(all, size) = h  BY <1>1, <1>2, <1>8 DEF Shown, h
  <2>2. Whole(h) /\ Size(h) = m  BY <1>3, <1>4, <1>6 DEF Whole
  <2>3. ShownAs(h, all, size, k, p)  BY <1>1, <1>2, <1>3, <1>4, <1>8, <2>2 DEF ShownAs
  <2> QED  BY <2>1, <2>3
<1>9. CASE size # N
  <2> DEFINE dot == <<".">>
             g == dot \o f
             w == h \o g
             d == m + 1
  <2>1. dot \in Text /\ Size(dot) = 1 /\ Char(dot, 1) = "."
    <3>1. "." \in Character  BY Named
    <3> QED  BY <3>1, One
  <2> HIDE DEF dot
  <2>2. /\ g \in Text /\ Size(g) = 1 + (N - size) /\ Char(g, 1) = "."
        /\ \A j \in 1 .. N - size : Char(g, 1 + j) = Char(f, j)
    <3>1. /\ g \in Text /\ Size(g) = Size(dot) + Size(f)
          /\ \A i \in 1 .. Size(dot) : Char(g, i) = Char(dot, i)
          /\ \A i \in 1 .. Size(f) : Char(g, Size(dot) + i) = Char(f, i)
      BY <1>5, <2>1, Concat
    <3> HIDE DEF g
    <3> QED  BY <1>5, <2>1, <3>1
  <2>3. Shown(all, size) = w
    <3>1. Shown(all, size) = h \o dot \o f  BY <1>1, <1>2, <1>9 DEF Shown, h, dot, f
    <3>2. h \o dot \o f = h \o (dot \o f)  BY <1>4, <1>5, <2>1, Assoc
    <3> QED  BY <3>1, <3>2
  <2> HIDE DEF g
  <2>4. /\ w \in Text /\ Size(w) = m + (1 + (N - size))
        /\ \A i \in 1 .. m : Char(w, i) = Char(h, i)
        /\ \A i \in 1 .. 1 + (N - size) : Char(w, m + i) = Char(g, i)
    <3>1. /\ w \in Text /\ Size(w) = Size(h) + Size(g)
          /\ \A i \in 1 .. Size(h) : Char(w, i) = Char(h, i)
          /\ \A i \in 1 .. Size(g) : Char(w, Size(h) + i) = Char(g, i)
      BY <1>4, <2>2, Concat
    <3> HIDE DEF w
    <3> QED  BY <1>4, <2>2, <3>1
  <2> HIDE DEF w
  <2>5. d \in Nat /\ d = m + 1 /\ d = size - k + 1 /\ d \in 2 .. Size(w) - 1 /\ Size(w) = N - k + 1
    BY <1>1, <1>2, <1>3, <1>9, <2>4
  <2>6. Char(w, d) = "."
    <3>1. 1 \in 1 .. 1 + (N - size)  BY <1>1
    <3>2. Char(w, m + 1) = Char(g, 1)  BY <2>4, <3>1
    <3> QED  BY <2>2, <3>2
  <2> HIDE DEF d
  <2>7. ASSUME NEW j \in 1 .. N - size PROVE Char(w, d + j) = Char(f, j)
    <3>1. PICK i \in 1 .. 1 + (N - size) : i = 1 + j /\ m + i = d + j
      <4>1. 1 + j \in 1 .. 1 + (N - size) /\ m + (1 + j) = d + j  BY <1>1, <1>3, <2>5
      <4> QED  BY <4>1
    <3>2. Char(w, m + i) = Char(g, i)  BY <2>4
    <3> QED  BY <2>2, <3>1, <3>2
  <2>8. ASSUME NEW i \in 1 .. Size(w), i # d PROVE Char(w, i) \in Digit
    <3>1. CASE i < d
      <4>1. i \in 1 .. m  BY <1>3, <2>5, <3>1
      <4> QED  BY <1>6, <2>4, <4>1
    <3>2. CASE i > d
      <4>1. PICK j \in 1 .. N - size : i = d + j
        <5>1. i - d \in 1 .. N - size /\ i = d + (i - d)  BY <1>1, <1>2, <1>3, <2>5, <3>2
        <5> QED  BY <5>1
      <4> QED  BY <1>7, <2>7, <4>1
    <3> QED  BY <2>5, <2>8, <3>1, <3>2
  <2>9. Split(w, d)  BY <2>4, <2>5, <2>6, <2>8 DEF Split
  <2>10. \A i \in 1 .. m : Char(w, i) = Char(all, k + i)  BY <1>4, <2>4
  <2>11. \A j \in 1 .. N - size : Char(w, d + j) = Char(all, size + j)  BY <1>5, <2>7
  <2>12. ShownAs(w, all, size, k, p)
    BY <1>1, <1>2, <1>3, <1>9, <2>5, <2>9, <2>10, <2>11 DEF ShownAs
  <2> QED  BY <2>3, <2>12
<1> QED  BY <1>8, <1>9

\* Digits with the zeros that a point outside them asks for.
Padded(digs, point) == Zeros(1 - point) \o digs \o Zeros(point - Len(digs))

\* The place of the point, the digits without it, and digits with a point.
Point(m)  == FirstOf(m, 1, ".")
Digits(m) == Before(m, Point(m)) \o From(m, Point(m) + 1)
PutAt(digs, point) == Shown(Padded(digs, point), IF point > 0 THEN point ELSE 1)

\* What expand_exponent does: the digits without their point, and the point put anew.
LEMMA ExpandIs ==
  ASSUME NEW m, NEW e
  PROVE  expand_exponent(m, e) = PutAt(Digits(m), Point(m) - 1 + e)
  BY DEF expand_exponent, Shown, Padded, FirstNot, FirstOf, FirstAt, Point, Digits, PutAt

\* Zeros, and none when their number is not positive.
LEMMA ZerosFacts ==
  ASSUME NEW n \in Int
  PROVE  /\ Zeros(n) \in Text
         /\ n <= 0 => Zeros(n) = <<>> /\ Size(Zeros(n)) = 0
         /\ n > 0 => Size(Zeros(n)) = n
         /\ \A i \in 1 .. Size(Zeros(n)) : Char(Zeros(n), i) = "0"
<1>1. "0" \in Digit /\ "0" \in Character  BY Named DEF Digit
<1>2. CASE n <= 0
  <2>1. Zeros(n) = <<>>  BY <1>2 DEF Zeros
  <2> QED  BY <1>2, <2>1 DEF Text, Size
<1>3. CASE n > 0
  <2> DEFINE z == "0"
             t == [i \in 1 .. n |-> z]
  <2>1. Zeros(n) = t  BY DEF Zeros
  <2> HIDE DEF z
  <2>2. z \in Character /\ n \in Nat  BY <1>1, <1>3 DEF z
  <2>3. t \in Text /\ Size(t) = n /\ \A i \in 1 .. n : Char(t, i) = z  BY <2>2 DEF Text, Size, Char
  <2> HIDE DEF t
  <2> QED  BY <1>3, <2>1, <2>3 DEF z
<1> QED  BY <1>2, <1>3

\* all is digs after z zeros, and before others.
Among(digs, all, z) ==
  /\ z \in Nat /\ z + Size(digs) <= Size(all)
  /\ \A i \in 1 .. Size(digs) : Char(all, z + i) = Char(digs, i)
  /\ \A i \in 1 .. Size(all) : i <= z \/ z + Size(digs) < i => Char(all, i) = "0"

\* After padding the point is among the digits, and they are all there.
LEMMA PaddedFacts ==
  ASSUME NEW digs, Whole(digs), NEW point \in Int,
         NEW size, size = IF point > 0 THEN point ELSE 1
  PROVE  /\ Whole(Padded(digs, point)) /\ size \in 1 .. Size(Padded(digs, point))
         /\ Among(digs, Padded(digs, point), size - point)
         /\ point \in 1 .. Size(digs) => Padded(digs, point) = digs
<1> DEFINE a == Zeros(1 - point)
           n == point - Len(digs)
           c == Zeros(n)
           ad == a \o digs
           all == ad \o c
           A == Size(a)
           D == Size(digs)
           C == Size(c)
<1>1. digs \in Text /\ D \in Nat /\ D >= 1 /\ Len(digs) = D  BY SizeType DEF Whole, Size
<1>2. 1 - point \in Int /\ n \in Int /\ n = point - D  BY <1>1
<1>3. /\ a \in Text /\ A \in Nat /\ (point >= 1 => a = <<>> /\ A = 0) /\ (point < 1 => A = 1 - point)
      /\ \A i \in 1 .. A : Char(a, i) = "0"
  <2>1. 1 - point <= 0 <=> point >= 1  OBVIOUS
  <2>2. 1 - point > 0 <=> point < 1  OBVIOUS
  <2>3. a \in Text  BY <1>2, ZerosFacts
  <2>4. A \in Nat  BY <2>3, SizeType
  <2> QED  BY <1>2, <2>1, <2>2, <2>3, <2>4, ZerosFacts
<1> HIDE DEF n
<1>4. /\ c \in Text /\ C \in Nat /\ (point <= D => c = <<>> /\ C = 0) /\ (point > D => C = point - D)
      /\ \A i \in 1 .. C : Char(c, i) = "0"
  <2>1. n <= 0 <=> point <= D  BY <1>1, <1>2
  <2>2. n > 0 <=> point > D  BY <1>1, <1>2
  <2>3. c \in Text  BY <1>2, ZerosFacts
  <2>4. C \in Nat  BY <2>3, SizeType
  <2> QED  BY <1>2, <2>1, <2>2, <2>3, <2>4, ZerosFacts
<1> HIDE DEF a, c
<1>5. /\ ad \in Text /\ Size(ad) = A + D
      /\ \A i \in 1 .. A : Char(ad, i) = "0"
      /\ \A i \in 1 .. D : Char(ad, A + i) = Char(digs, i)
  <2>1. /\ ad \in Text /\ Size(ad) = A + D
        /\ \A i \in 1 .. A : Char(ad, i) = Char(a, i)
        /\ \A i \in 1 .. D : Char(ad, A + i) = Char(digs, i)
    BY <1>1, <1>3, Concat
  <2> HIDE DEF ad, A, D
  <2> QED  BY <1>3, <2>1
<1> HIDE DEF ad
<1>6. /\ all \in Text /\ Size(all) = (A + D) + C
      /\ \A i \in 1 .. A + D : Char(all, i) = Char(ad, i)
      /\ \A i \in 1 .. C : Char(all, (A + D) + i) = Char(c, i)
  <2>1. /\ all \in Text /\ Size(all) = Size(ad) + C
        /\ \A i \in 1 .. Size(ad) : Char(all, i) = Char(ad, i)
        /\ \A i \in 1 .. C : Char(all, Size(ad) + i) = Char(c, i)
    BY <1>4, <1>5, Concat
  <2> HIDE DEF all, A, D, C
  <2> QED  BY <1>5, <2>1
<1> HIDE DEF all, A, D, C
<1>7. ASSUME NEW i \in 1 .. Size(all) PROVE Char(all, i) \in Digit
  <2>0. "0" \in Digit  BY DEF Digit
  <2>1. CASE i <= A
    <3>1. i \in 1 .. A /\ i \in 1 .. A + D  BY <1>1, <1>3, <2>1
    <3> QED  BY <1>5, <1>6, <2>0, <3>1
  <2>2. CASE A < i /\ i <= A + D
    <3>1. PICK j \in 1 .. D : i = A + j /\ i \in 1 .. A + D
      <4>1. i - A \in 1 .. D /\ i = A + (i - A) /\ i \in 1 .. A + D  BY <1>1, <1>3, <2>2
      <4> QED  BY <4>1
    <3>2. Char(digs, j) \in Digit  BY DEF Whole, D
    <3>3. Char(ad, A + j) = Char(digs, j)  BY <1>5
    <3> QED  BY <1>6, <3>1, <3>2, <3>3
  <2>3. CASE A + D < i
    <3>1. PICK j \in 1 .. C : i = (A + D) + j
      <4>1. i - (A + D) \in 1 .. C /\ i = (A + D) + (i - (A + D))  BY <1>1, <1>3, <1>4, <1>6, <2>3
      <4> QED  BY <4>1
    <3> QED  BY <1>4, <1>6, <2>0, <3>1
  <2>4. i \in Nat  BY <1>1, <1>3, <1>4, <1>6
  <2> QED  BY <1>1, <1>3, <2>1, <2>2, <2>3, <2>4
<1>8. Whole(all)  BY <1>1, <1>3, <1>4, <1>6, <1>7 DEF Whole
<1>9. size \in 1 .. Size(all)
  <2>1. CASE point >= 1  BY <1>1, <1>3, <1>4, <1>6, <2>1
  <2>2. CASE point < 1  BY <1>1, <1>3, <1>4, <1>6, <2>2
  <2> QED  BY <2>1, <2>2
<1>10. Among(digs, all, size - point)
  <2>1. A + D <= Size(all)  BY <1>1, <1>3, <1>4, <1>6
  <2>2. \A i \in 1 .. D : Char(all, A + i) = Char(digs, i)
    <3>1. SUFFICES ASSUME NEW i \in 1 .. D PROVE Char(all, A + i) = Char(digs, i)  OBVIOUS
    <3>2. A + i \in 1 .. A + D  BY <1>1, <1>3
    <3> QED  BY <1>5, <1>6, <3>2
  <2>3. ASSUME NEW i \in 1 .. Size(all), i <= A \/ A + D < i PROVE Char(all, i) = "0"
    <3>1. CASE i <= A
      <4>1. i \in 1 .. A /\ i \in 1 .. A + D  BY <1>1, <1>3, <3>1
      <4> QED  BY <1>5, <1>6, <4>1
    <3>2. CASE A + D < i
      <4>1. PICK j \in 1 .. C : i = (A + D) + j
        <5>1. i - (A + D) \in 1 .. C /\ i = (A + D) + (i - (A + D))  BY <1>1, <1>3, <1>4, <1>6, <3>2
        <5> QED  BY <5>1
      <4> QED  BY <1>4, <1>6, <4>1
    <3> QED  BY <2>3, <3>1, <3>2
  <2>4. Among(digs, all, A)  BY <1>3, <2>1, <2>2, <2>3 DEF Among, D
  <2>5. size - point = A
    <3>1. CASE point >= 1  BY <1>3, <3>1
    <3>2. CASE point < 1  BY <1>3, <3>2
    <3> QED  BY <3>1, <3>2
  <2> QED  BY <2>4, <2>5
<1>11. ASSUME point \in 1 .. D PROVE all = digs
  <2>1. a = <<>> /\ c = <<>>  BY <1>1, <1>3, <1>4, <1>11
  <2>2. \A t \in Text : <<>> \o t = t /\ t \o <<>> = t  BY DEF Text
  <2> QED  BY <1>1, <2>1, <2>2 DEF all, ad
<1>12. Padded(digs, point) = all  BY Zenon DEF Padded, all, ad, a, c, n
<1> QED  BY <1>8, <1>9, <1>10, <1>11, <1>12 DEF D

\* The greatest element of a finite set of naturals, given with a bound.
LEMMA MostIs ==
  ASSUME NEW S \in SUBSET Nat, NEW e \in S, \A i \in S : i <= e
  PROVE  Max(S) = e
<1> DEFINE Is(x) == x \in S /\ \A y \in S : x >= y
<1>1. \A x : Is(x) => x = e
  <2>1. SUFFICES ASSUME NEW x, Is(x) PROVE x = e  OBVIOUS
  <2>2. x \in Nat /\ e \in Nat /\ x >= e /\ e >= x  BY <2>1
  <2> QED  BY <2>2
<1>2. Is(e)
  <2>1. \A y \in S : y \in Nat /\ e \in Nat /\ e >= y  OBVIOUS
  <2> QED  BY <2>1
<1>3. Max(S) = CHOOSE x : Is(x)  BY DEF Max
<1> HIDE DEF Is
<1> QED  BY <1>1, <1>2, <1>3

\* A set of naturals with a bound that is not empty has a greatest element.
LEMMA Most ==
  ASSUME NEW S \in SUBSET Nat, S # {}, NEW b \in Nat, \A i \in S : i <= b
  PROVE  \E m \in S : \A n \in S : n <= m
<1> DEFINE R == {n \in Nat : b - n \in S}
<1>1. R \in SUBSET Nat  OBVIOUS
<1>2. R # {}
  <2>1. PICK i \in S : TRUE  OBVIOUS
  <2>2. b - i \in Nat /\ b - (b - i) = i  BY <2>1
  <2> QED  BY <2>2
<1>3. \A n \in R : b - n \in S  OBVIOUS
<1>4. \A i \in S : b - i \in R
  <2>1. SUFFICES ASSUME NEW i \in S PROVE b - i \in R  OBVIOUS
  <2>2. b - i \in Nat /\ b - (b - i) = i  BY <2>1
  <2> QED  BY <2>2
<1> HIDE DEF R
<1>5. PICK m \in R : \A n \in R : m <= n  BY <1>1, <1>2, Least
<1>6. ASSUME NEW n \in S PROVE n <= b - m
  <2>1. m <= b - n /\ m \in Nat /\ n \in Nat  BY <1>1, <1>4, <1>5
  <2> QED  BY <2>1
<1> QED  BY <1>3, <1>5, <1>6

\* t is the first n characters of s, and what follows them is c.
Cut(t, s, n, c) ==
  /\ n \in 0 .. Size(s) /\ t \in Text /\ Size(t) = n
  /\ \A i \in 1 .. n : Char(t, i) = Char(s, i)
  /\ \A i \in 1 .. Size(s) : n < i => Char(s, i) = c

\* What trimming the last characters that are c leaves, and what is trimmed.
LEMMA TrimLastFacts ==
  ASSUME NEW s \in Text, NEW c
  PROVE  \E n \in 0 .. Size(s) : Cut(TrimLast(s, c), s, n, c) /\ (n # 0 => Char(s, n) # c)
<1> DEFINE S == {i \in DOMAIN s : s[i] # c} \cup {0}
<1>1. DOMAIN s = 1 .. Size(s) /\ Size(s) \in Nat  BY Places, SizeType
<1>2. S \in SUBSET Nat /\ S # {} /\ \A i \in S : i <= Size(s)  BY <1>1
<1> HIDE DEF S
<1>3. PICK n \in S : \A i \in S : i <= n  BY <1>1, <1>2, Most
<1>4. Max(S) = n  BY <1>2, <1>3, MostIs
<1>5. n \in 0 .. Size(s)  BY <1>1, <1>2, <1>3
<1>6. PICK j \in 1 .. Size(s) + 1 : j = n + 1 /\ j - 1 = n
  <2>1. n + 1 \in 1 .. Size(s) + 1 /\ (n + 1) - 1 = n  BY <1>1, <1>5
  <2> QED  BY <2>1
<1>7. TrimLast(s, c) = Before(s, j)  BY <1>4, <1>6 DEF TrimLast, S
<1>8. /\ TrimLast(s, c) \in Text /\ Size(TrimLast(s, c)) = n
      /\ \A i \in 1 .. n : Char(TrimLast(s, c), i) = Char(s, i)
  BY <1>6, <1>7, BeforeIs
<1>9. \A i \in 1 .. Size(s) : n < i => Char(s, i) = c
  <2>1. SUFFICES ASSUME NEW i \in 1 .. Size(s), n < i, s[i] # c PROVE FALSE  BY DEF Char
  <2>2. i \in S  BY <1>1, <2>1 DEF S
  <2>3. i <= n  BY <1>3, <2>2
  <2> QED  BY <1>5, <2>1, <2>3
<1>10. n # 0 => Char(s, n) # c  BY <1>3 DEF S, Char
<1> QED  BY <1>5, <1>8, <1>9, <1>10 DEF Cut

\* Without its needless zeros a number with a point at d is t.
Stripped(t, w, d) ==
  /\ t \in Text /\ Size(t) <= Size(w) /\ \A i \in 1 .. Size(t) : Char(t, i) = Char(w, i)
  /\ \A i \in 1 .. Size(w) : Size(t) < i => Char(w, i) \in {"0", "."}
  /\ \/ Split(t, d) /\ Char(t, Size(t)) # "0"
     \/ Whole(t) /\ Size(t) = d - 1

\* A whole number keeps all its digits, zeros too.
LEMMA StripWhole ==
  ASSUME NEW w, Whole(w)
  PROVE  strip_trailing_zeros(w) = w
<1>1. "." \notin ToSet(w)  BY SetIs, PointIsNoDigit DEF Whole
<1> QED  BY <1>1 DEF strip_trailing_zeros

\* A number with a point loses the zeros at its end, and a point left last.
LEMMA StripSplit ==
  ASSUME NEW w, NEW d, Split(w, d)
  PROVE  Stripped(strip_trailing_zeros(w), w, d)
<1> DEFINE a == TrimLast(w, "0")
           t == TrimLast(a, ".")
           N == Size(w)
<1>1. /\ w \in Text /\ N \in Nat /\ d \in 2 .. N - 1 /\ Char(w, d) = "."
      /\ \A i \in 1 .. N : i # d => Char(w, i) \in Digit
  BY SizeType DEF Split
<1>2. strip_trailing_zeros(w) = t
  <2>1. d \in 1 .. N  BY <1>1
  <2>2. "." \in ToSet(w)  BY <1>1, <2>1, SetIs
  <2> QED  BY <2>2 DEF strip_trailing_zeros
<1>3. PICK n \in 0 .. N : Cut(a, w, n, "0") /\ (n # 0 => Char(w, n) # "0")
  BY <1>1, TrimLastFacts
<1>4. a \in Text /\ Size(a) = n /\ \A i \in 1 .. n : Char(a, i) = Char(w, i)
  BY <1>3 DEF Cut
<1>5. \A i \in 1 .. N : n < i => Char(w, i) = "0"  BY <1>3 DEF Cut
<1> HIDE DEF a
<1>6. PICK q \in 0 .. n : Cut(t, a, q, ".") /\ (q # 0 => Char(a, q) # ".")
  BY <1>4, TrimLastFacts
<1>7. t \in Text /\ Size(t) = q /\ \A i \in 1 .. q : Char(t, i) = Char(a, i)
  BY <1>6 DEF Cut
<1>8. \A i \in 1 .. n : q < i => Char(a, i) = "."  BY <1>4, <1>6 DEF Cut
<1> HIDE DEF t, N
<1>9. q <= N /\ \A i \in 1 .. q : Char(t, i) = Char(w, i)
  <2>1. \A i \in 1 .. q : i \in 1 .. n  BY <1>1, <1>3, <1>6
  <2> QED  BY <1>1, <1>3, <1>4, <1>6, <1>7, <2>1
<1>10. d <= n
  <2>1. SUFFICES ASSUME n < d PROVE FALSE  BY <1>1, <1>3
  <2>2. d \in 1 .. N  BY <1>1
  <2>3. Char(w, d) = "0"  BY <1>5, <2>1, <2>2
  <2> QED  BY <1>1, <2>3
<1>11. \A i \in 1 .. N : q < i => Char(w, i) \in {"0", "."}
  <2>1. SUFFICES ASSUME NEW i \in 1 .. N, q < i PROVE Char(w, i) \in {"0", "."}  OBVIOUS
  <2>2. CASE i <= n
    <3>1. i \in 1 .. n  BY <1>1, <1>3, <2>2
    <3> QED  BY <1>4, <1>8, <2>1, <3>1
  <2>3. CASE n < i  BY <1>5, <2>3
  <2> QED  BY <1>1, <1>3, <2>2, <2>3
<1>12. CASE n = d
  <2>1. d - 1 \in 1 .. n /\ d - 1 # d /\ d - 1 \in 1 .. N /\ d \in 1 .. n /\ d \in 1 .. N  BY <1>1, <1>12
  <2>2. q < d
    <3>1. SUFFICES ASSUME q = d PROVE FALSE  BY <1>1, <1>6, <1>12
    <3>2. Char(a, q) = "." /\ q # 0  BY <1>1, <1>4, <2>1, <3>1
    <3> QED  BY <1>6, <3>2
  <2>3. q >= d - 1
    <3>1. SUFFICES ASSUME q < d - 1 PROVE FALSE  BY <1>1, <1>6
    <3>2. Char(w, d - 1) = "."  BY <1>4, <1>8, <2>1, <3>1
    <3>3. Char(w, d - 1) \in Digit  BY <1>1, <2>1
    <3> QED  BY <3>2, <3>3, PointIsNoDigit
  <2>4. q = d - 1  BY <1>1, <1>6, <2>2, <2>3
  <2>5. \A i \in 1 .. q : Char(t, i) \in Digit
    <3>1. \A i \in 1 .. q : i \in 1 .. N /\ i # d  BY <1>1, <2>4
    <3> QED  BY <1>1, <1>9, <3>1
  <2>6. q >= 1  BY <1>1, <2>4
  <2>7. Whole(t)  BY <1>7, <2>5, <2>6 DEF Whole
  <2> QED  BY <1>2, <1>7, <1>9, <1>11, <2>4, <2>7 DEF Stripped, N
<1>13. CASE n # d
  <2>1. n \in 1 .. n /\ n \in 1 .. N /\ n > d /\ n # 0 /\ n \in Nat  BY <1>1, <1>3, <1>10, <1>13
  <2>2. Char(w, n) # "0" /\ Char(w, n) \in Digit  BY <1>1, <1>3, <1>13, <2>1
  <2>3. q = n
    <3>1. SUFFICES ASSUME q < n PROVE FALSE  BY <1>6, <2>1
    <3>2. Char(w, n) = "."  BY <1>4, <1>8, <2>1, <3>1
    <3> QED  BY <2>2, <3>2, PointIsNoDigit
  <2>4. \A i \in 1 .. q : i # d => Char(t, i) \in Digit
    <3>1. \A i \in 1 .. q : i \in 1 .. N  BY <1>1, <2>1, <2>3
    <3> QED  BY <1>1, <1>9, <3>1
  <2>5. d \in 1 .. q /\ d \in 2 .. q - 1  BY <1>1, <2>1, <2>3
  <2>6. Char(t, d) = "."  BY <1>1, <1>9, <2>5
  <2>7. Split(t, d)  BY <1>7, <2>4, <2>5, <2>6 DEF Split
  <2>8. Char(t, Size(t)) # "0"
    <3>1. Char(t, q) = Char(w, q)  BY <1>9, <2>1, <2>3
    <3> QED  BY <1>7, <2>2, <2>3, <3>1
  <2> QED  BY <1>2, <1>7, <1>9, <1>11, <2>7, <2>8 DEF Stripped, N
<1> QED  BY <1>12, <1>13

-----------------------------------------------------------------------------
(* Numbers: the canonical form. *)

\* A decimal number without needless zeros, and one that is not zero.
Proper(u) ==
  \/ Whole(u) /\ (Size(u) > 1 => Char(u, 1) # "0")
  \/ \E d \in 1 .. Size(u) :
       Split(u, d) /\ (d > 2 => Char(u, 1) # "0") /\ Char(u, Size(u)) # "0"
NonZero(u) == \E i \in 1 .. Size(u) : Char(u, i) \notin {"0", "."}

\* The digits of a number, its point left out.
LEMMA MantissaWhole ==
  ASSUME NEW m, Whole(m)
  PROVE  Point(m) = Size(m) + 1 /\ Digits(m) = m
<1> DEFINE dot == Point(m)
<1>1. m \in Text /\ Size(m) \in Nat /\ \A i \in 1 .. Size(m) : Char(m, i) # "."
  BY SizeType, PointIsNoDigit DEF Whole
<1>2. dot = Size(m) + 1
  <2>1. 1 \in Nat /\ 1 <= 1 /\ \A j \in 1 .. Size(m) : 1 <= j => Char(m, j) # "."  BY <1>1
  <2>2. FirstOf(m, 1, ".") = Size(m) + 1  BY <1>1, <2>1, NoFirst
  <2> QED  BY <2>2 DEF Point
<1> HIDE DEF dot
<1>3. Before(m, dot) = m /\ From(m, dot + 1) = <<>>
  <2>1. dot - 1 = Len(m) /\ dot + 1 > Len(m) /\ dot + 1 \in Nat  BY <1>1, <1>2 DEF Size
  <2>2. SubSeq(m, 1, Len(m)) = m /\ \A i \in Nat : i > Len(m) => SubSeq(m, i, Len(m)) = <<>>
    BY <1>1 DEF Text
  <2> QED  BY <2>1, <2>2 DEF Before, From
<1>4. m \o <<>> = m  BY <1>1 DEF Text
<1>5. Before(m, dot) \o From(m, dot + 1) = m  BY <1>3, <1>4
<1> QED  BY <1>2, <1>5 DEF dot, Digits

\* Of a number with a point, those before the point and those after it.
LEMMA MantissaSplit ==
  ASSUME NEW m, NEW d, Split(m, d), NEW digs, digs = Digits(m)
  PROVE  /\ Point(m) = d /\ Whole(digs) /\ Size(digs) = Size(m) - 1
         /\ \A i \in 1 .. d - 1 : Char(digs, i) = Char(m, i)
         /\ \A j \in 1 .. Size(m) - d : Char(digs, (d - 1) + j) = Char(m, d + j)
<1> DEFINE N == Size(m)
<1>1. /\ m \in Text /\ N \in Nat /\ d \in 2 .. N - 1 /\ d \in 1 .. N /\ Char(m, d) = "."
      /\ \A i \in 1 .. N : i # d => Char(m, i) \in Digit
  BY SizeType DEF Split
<1>2. Point(m) = d
  <2>1. \A j \in 1 .. N : 1 <= j /\ j < d => Char(m, j) # "."
    <3>1. \A j \in 1 .. N : j < d => j # d  BY <1>1
    <3> QED  BY <1>1, <3>1, PointIsNoDigit
  <2>2. 1 \in Nat /\ 1 <= 1 /\ 1 <= d  BY <1>1
  <2>3. FirstOf(m, 1, ".") = d  BY <1>1, <2>1, <2>2, FirstIs
  <2> QED  BY <2>3 DEF Point
<1> DEFINE b == Before(m, d)
           f == From(m, d + 1)
<1>3. Whole(b) /\ Whole(f)  BY <1>1, SplitAt
<1>4. b \in Text /\ Size(b) = d - 1 /\ \A i \in 1 .. d - 1 : Char(b, i) = Char(m, i)
  <2>1. d \in 1 .. N + 1  BY <1>1
  <2> QED  BY <1>1, <2>1, BeforeIs
<1>5. f \in Text /\ Size(f) = N - d /\ \A j \in 1 .. N - d : Char(f, j) = Char(m, d + j)
  <2>1. d \in 0 .. N  BY <1>1
  <2> QED  BY <1>1, <2>1, FromIs
<1>6. digs = b \o f  BY <1>2 DEF Digits
<1> HIDE DEF b, f
<1>7. /\ digs \in Text /\ Size(digs) = (d - 1) + (N - d)
      /\ \A i \in 1 .. d - 1 : Char(digs, i) = Char(b, i)
      /\ \A i \in 1 .. N - d : Char(digs, (d - 1) + i) = Char(f, i)
  <2>1. /\ b \o f \in Text /\ Size(b \o f) = Size(b) + Size(f)
        /\ \A i \in 1 .. Size(b) : Char(b \o f, i) = Char(b, i)
        /\ \A i \in 1 .. Size(f) : Char(b \o f, Size(b) + i) = Char(f, i)
    BY <1>4, <1>5, Concat
  <2> QED  BY <1>4, <1>5, <1>6, <2>1
<1> HIDE DEF N
<1>8. Size(digs) = N - 1 /\ Size(digs) >= 1  BY <1>1, <1>7
<1>9. ASSUME NEW i \in 1 .. Size(digs) PROVE Char(digs, i) \in Digit
  <2>1. CASE i <= d - 1
    <3>1. i \in 1 .. d - 1  BY <1>1, <1>8, <2>1
    <3> QED  BY <1>3, <1>4, <1>7, <3>1 DEF Whole
  <2>2. CASE i > d - 1
    <3>1. PICK j \in 1 .. N - d : i = (d - 1) + j
      <4>1. i - (d - 1) \in 1 .. N - d /\ i = (d - 1) + (i - (d - 1))  BY <1>1, <1>8, <2>2
      <4> QED  BY <4>1
    <3> QED  BY <1>3, <1>5, <1>7, <3>1 DEF Whole
  <2> QED  BY <1>1, <1>8, <2>1, <2>2
<1>10. Whole(digs)  BY <1>7, <1>8, <1>9 DEF Whole
<1> QED  BY <1>2, <1>4, <1>5, <1>7, <1>8, <1>10 DEF N

\* A proper number is expanded to itself.
LEMMA ProperWhole ==
  ASSUME NEW u, Whole(u), Size(u) > 1 => Char(u, 1) # "0"
  PROVE  expand_exponent(u, 0) = u
<1> DEFINE N == Size(u)
           dot == Point(u)
           digs == Digits(u)
<1>1. u \in Text /\ N \in Nat /\ N >= 1 /\ N \in Int /\ N \in 1 .. N  BY SizeType DEF Whole
<1>2. dot = N + 1 /\ digs = u  BY MantissaWhole
<1>0. expand_exponent(u, 0) = PutAt(digs, dot - 1 + 0)  BY ExpandIs
<1> HIDE DEF dot, digs
<1>3. N = dot - 1 + 0  BY <1>1, <1>2
<1>4. expand_exponent(u, 0) = Shown(Padded(u, N), N)
  <2>1. expand_exponent(u, 0) = Shown(Padded(digs, N), IF N > 0 THEN N ELSE 1)
    <3> QED  BY <1>0, <1>3 DEF PutAt
  <2> QED  BY <1>1, <1>2, <2>1
<1>5. Padded(u, N) = u
  <2>1. N = IF N > 0 THEN N ELSE 1  BY <1>1
  <2> QED  BY <1>1, <2>1, PaddedFacts
<1> DEFINE w == Shown(u, N)
<1>6. PICK k, p : ShownAs(w, u, N, k, p)  BY <1>1, ShownIs
<1> HIDE DEF w, N
<1>7. /\ k \in Nat /\ p \in 1 .. N /\ p = k + 1 /\ \A j \in 1 .. k : Char(u, j) = "0"
      /\ Whole(w) /\ Size(w) = N - k /\ \A i \in 1 .. N - k : Char(w, i) = Char(u, k + i)
  BY <1>6 DEF ShownAs, N
<1>8. k = 0
  <2>1. SUFFICES ASSUME k >= 1 PROVE FALSE  BY <1>7
  <2>2. 1 \in 1 .. k /\ N > 1  BY <1>1, <1>7, <2>1
  <2> QED  BY <1>7, <2>2 DEF N
<1>9. w = u
  <2>1. Size(w) = N /\ \A i \in 1 .. N : Char(w, i) = Char(u, i)
    <3>1. N - k = N /\ \A i \in 1 .. N : k + i = i  BY <1>1, <1>8
    <3> QED  BY <1>7, <3>1
  <2>2. w \in Text  BY <1>7 DEF Whole
  <2> QED  BY <1>1, <2>1, <2>2, SameText DEF N
<1> QED  BY <1>4, <1>5, <1>9 DEF w

\* So is one with a point.
LEMMA ProperSplit ==
  ASSUME NEW u, NEW d, Split(u, d), d > 2 => Char(u, 1) # "0"
  PROVE  expand_exponent(u, 0) = u
<1> DEFINE N == Size(u)
           dot == Point(u)
           digs == Digits(u)
           q == d - 1
<1>1. u \in Text /\ N \in Nat /\ d \in 2 .. N - 1 /\ Char(u, d) = "."  BY SizeType DEF Split
<1>0. expand_exponent(u, 0) = PutAt(digs, dot - 1 + 0)  BY ExpandIs
<1>2. /\ dot = d /\ Whole(digs) /\ Size(digs) = N - 1
      /\ \A i \in 1 .. d - 1 : Char(digs, i) = Char(u, i)
      /\ \A j \in 1 .. N - d : Char(digs, (d - 1) + j) = Char(u, d + j)
  BY MantissaSplit
<1> HIDE DEF N, dot, digs
<1>3. q = dot - 1 + 0 /\ dot - 1 + 0 = q /\ q \in 1 .. N - 1 /\ q \in Int /\ q > 0 /\ q + 1 = d /\ q # N - 1 BY <1>1, <1>2
<1>4. expand_exponent(u, 0) = Shown(Padded(digs, q), q)
  <2>1. expand_exponent(u, 0) = Shown(Padded(digs, q), IF q > 0 THEN q ELSE 1)
    <3>1. q = dot - 1 + 0  BY <1>3
    <3> HIDE DEF q
    <3> QED  BY <1>0, <3>1 DEF PutAt
  <2> QED  BY <1>3, <2>1
<1>5. Padded(digs, q) = digs
  <2>1. q = IF q > 0 THEN q ELSE 1  BY <1>3
  <2> HIDE DEF q
  <2> QED  BY <1>2, <1>3, <2>1, PaddedFacts
<1> DEFINE w == Shown(digs, q)
<1>6. PICK k, p : ShownAs(w, digs, q, k, p)
  <2> HIDE DEF q
  <2> QED  BY <1>2, <1>3, ShownIs
<1> HIDE DEF w
<1>7. /\ k \in Nat /\ p \in 1 .. q /\ p = k + 1 /\ \A j \in 1 .. k : Char(digs, j) = "0"
      /\ \A i \in 1 .. q - k : Char(w, i) = Char(digs, k + i)
      /\ Split(w, q - k + 1) /\ Size(w) = (N - 1) - k + 1
      /\ \A j \in 1 .. (N - 1) - q : Char(w, (q - k + 1) + j) = Char(digs, q + j)
  <2> HIDE DEF q
  <2> QED  BY <1>2, <1>3, <1>6 DEF ShownAs
<1>8. k = 0
  <2>1. SUFFICES ASSUME k >= 1 PROVE FALSE  BY <1>7
  <2>2. 1 \in 1 .. k /\ d > 2 /\ 1 \in 1 .. d - 1  BY <1>1, <1>3, <1>7, <2>1
  <2> QED  BY <1>2, <1>7, <2>2
<1>9. Size(w) = N /\ Split(w, d)
  <2>1. q - k + 1 = d /\ (N - 1) - k + 1 = N  BY <1>1, <1>3, <1>8
  <2> QED  BY <1>7, <2>1
<1>10. ASSUME NEW i \in 1 .. N PROVE Char(w, i) = Char(u, i)
  <2>1. CASE i < d
    <3>1. i \in 1 .. q - k /\ k + i = i /\ i \in 1 .. d - 1  BY <1>1, <1>3, <1>8, <2>1
    <3> QED  BY <1>2, <1>7, <3>1
  <2>2. CASE i = d  BY <1>1, <1>9, <2>2 DEF Split
  <2>3. CASE i > d
    <3>1. PICK j \in 1 .. N - d : i = d + j /\ (q - k + 1) + j = i /\ j \in 1 .. (N - 1) - q /\ q + j = (d - 1) + j
      <4>1. /\ i - d \in 1 .. N - d /\ i = d + (i - d) /\ (q - k + 1) + (i - d) = i
            /\ i - d \in 1 .. (N - 1) - q /\ q + (i - d) = (d - 1) + (i - d)
        BY <1>1, <1>3, <1>8, <2>3
      <4> QED  BY <4>1
    <3>2. Char(w, i) = Char(digs, (d - 1) + j)  BY <1>7, <3>1
    <3> QED  BY <1>2, <3>1, <3>2
  <2> QED  BY <1>1, <2>1, <2>2, <2>3
<1>11. w = u
  <2>1. w \in Text  BY <1>9 DEF Split
  <2> QED  BY <1>1, <1>9, <1>10, <2>1, SameText DEF N
<1> QED  BY <1>4, <1>5, <1>11 DEF w

\* Wherever the point is put, the digits that count are shown.
LEMMA ShownNonZero ==
  ASSUME NEW all, Whole(all), NEW size \in 1 .. Size(all), NEW w, NEW k, NEW p,
         ShownAs(w, all, size, k, p), NonZero(all)
  PROVE  NonZero(w)
<1> DEFINE N == Size(all)
           d == size - k + 1
<1>1. all \in Text /\ N \in Nat /\ \A i \in 1 .. N : Char(all, i) \in Digit
  BY SizeType DEF Whole
<1>2. PICK q \in 1 .. N : Char(all, q) \notin {"0", "."}  BY DEF NonZero
<1>3. /\ k \in Nat /\ p \in 1 .. size /\ p = k + 1
      /\ \A j \in 1 .. k : Char(all, j) = "0"
      /\ \A i \in 1 .. size - k : Char(w, i) = Char(all, k + i)
      /\ size = N => Size(w) = size - k
      /\ size # N =>
           /\ Size(w) = N - k + 1
           /\ \A j \in 1 .. N - size : Char(w, d + j) = Char(all, size + j)
  BY DEF ShownAs
<1> HIDE DEF N
<1>4. size \in 1 .. N  BY DEF N
<1>5. q > k
  <2>1. SUFFICES ASSUME q <= k PROVE FALSE  BY <1>1, <1>3
  <2>2. q \in 1 .. k  BY <1>1, <1>3, <2>1
  <2> QED  BY <1>2, <1>3, <2>2
<1>6. CASE q <= size
  <2>1. PICK i \in 1 .. size - k : q = k + i /\ i \in 1 .. Size(w)
    <3>1. q - k \in 1 .. size - k /\ q = k + (q - k) /\ q - k \in 1 .. Size(w)
      BY <1>1, <1>3, <1>4, <1>5, <1>6
    <3> QED  BY <3>1
  <2> QED  BY <1>2, <1>3, <2>1 DEF NonZero
<1>7. CASE q > size
  <2>1. PICK j \in 1 .. N - size : q = size + j /\ d + j \in 1 .. Size(w) /\ size # N
    <3>1. q - size \in 1 .. N - size /\ q = size + (q - size) /\ d + (q - size) \in 1 .. Size(w) /\ size # N
      BY <1>1, <1>3, <1>4, <1>5, <1>7
    <3> QED  BY <3>1
  <2>2. Char(w, d + j) = Char(all, q)  BY <1>3, <2>1
  <2> HIDE DEF d
  <2> QED  BY <1>2, <2>1, <2>2 DEF NonZero
<1> QED  BY <1>1, <1>4, <1>6, <1>7

\* What is stripped is not what counts.
LEMMA StripKeeps ==
  ASSUME NEW t, NEW w, NEW d, Stripped(t, w, d), NonZero(w)
  PROVE  NonZero(t)
<1>1. PICK i \in 1 .. Size(w) : Char(w, i) \notin {"0", "."}  BY DEF NonZero
<1>2. t \in Text /\ Size(t) \in Nat /\ \A j \in 1 .. Size(t) : Char(t, j) = Char(w, j)
  BY SizeType DEF Stripped
<1>3. ~(Size(t) < i)  BY <1>1 DEF Stripped
<1>4. i \in 1 .. Size(t)  BY <1>2, <1>3
<1> QED  BY <1>1, <1>2, <1>4 DEF NonZero

\* Wherever the point is put, what is shown and stripped is proper.
LEMMA PutIsProper ==
  ASSUME NEW digs, Whole(digs), NonZero(digs), NEW point \in Int,
         NEW t, t = strip_trailing_zeros(PutAt(digs, point))
  PROVE  Proper(t) /\ NonZero(t)
<1> DEFINE all == Padded(digs, point)
           size == IF point > 0 THEN point ELSE 1
           w == PutAt(digs, point)
           N == Size(all)
<1>1. Whole(all) /\ size \in 1 .. N /\ Among(digs, all, size - point)
  <2> DEFINE s == size
  <2>1. s = IF point > 0 THEN point ELSE 1  OBVIOUS
  <2> HIDE DEF s
  <2>2. Whole(all) /\ s \in 1 .. N /\ Among(digs, all, s - point)  BY <2>1, PaddedFacts
  <2> QED  BY <2>2 DEF s
<1>2. w = Shown(all, size)  BY DEF PutAt
<1>3. t = strip_trailing_zeros(w)  OBVIOUS
<1> HIDE DEF all, size, w, N
<1>4. PICK k, p : ShownAs(w, all, size, k, p)  BY <1>1, <1>2, ShownIs DEF N
<1>5. NonZero(all)
  <2> DEFINE z == size - point
  <2>1. /\ z \in Nat /\ z + Size(digs) <= Size(all)
        /\ \A i \in 1 .. Size(digs) : Char(all, z + i) = Char(digs, i)
    BY <1>1 DEF Among
  <2> HIDE DEF z
  <2>2. PICK i \in 1 .. Size(digs) : Char(digs, i) \notin {"0", "."}  BY DEF NonZero
  <2>3. Size(digs) \in Nat /\ Size(all) \in Nat  BY <1>1, SizeType DEF Whole
  <2>4. z + i \in 1 .. Size(all)  BY <2>1, <2>3
  <2>5. Char(all, z + i) = Char(digs, i)  BY <2>1
  <2> QED  BY <2>2, <2>4, <2>5 DEF NonZero
<1>6. NonZero(w)  BY <1>1, <1>4, <1>5, ShownNonZero DEF N
<1>7. /\ N \in Nat /\ k \in Nat /\ p \in 1 .. size /\ p = k + 1
      /\ p = size \/ Char(all, p) # "0"
      /\ \A i \in 1 .. size - k : Char(w, i) = Char(all, k + i)
      /\ size = N => Whole(w) /\ Size(w) = size - k
      /\ size # N => Split(w, size - k + 1)
  <2>1. N \in Nat  BY <1>1, SizeType DEF Whole, N
  <2> QED  BY <1>1, <1>4, <2>1 DEF ShownAs, N
<1>8. ASSUME size - k > 1 PROVE Char(w, 1) # "0"
  <2>1. p # size /\ 1 \in 1 .. size - k /\ k + 1 = p  BY <1>1, <1>7, <1>8
  <2>2. Char(w, 1) = Char(all, k + 1)  BY <1>7, <2>1
  <2> QED  BY <1>7, <2>1, <2>2
<1>9. CASE size = N
  <2>1. t = w  BY <1>3, <1>7, <1>9, StripWhole
  <2>2. Proper(w)  BY <1>7, <1>8, <1>9 DEF Proper
  <2> QED  BY <1>6, <2>1, <2>2
<1>10. CASE size # N
  <2> DEFINE d == size - k + 1
  <2>1. Split(w, d)  BY <1>7, <1>10
  <2>2. d \in Nat /\ (d > 2 => Char(w, 1) # "0") /\ (d - 1 > 1 => Char(w, 1) # "0") /\ d >= 2
    BY <1>1, <1>7, <1>8
  <2> HIDE DEF d
  <2>3. Stripped(t, w, d)  BY <1>3, <2>1, StripSplit
  <2>4. NonZero(t)  BY <1>6, <2>3, StripKeeps
  <2>5. t \in Text /\ Size(t) \in Nat /\ \A j \in 1 .. Size(t) : Char(t, j) = Char(w, j)
    BY <2>3, SizeType DEF Stripped
  <2>6. CASE Split(t, d) /\ Char(t, Size(t)) # "0"
    <3>1. d \in 2 .. Size(t) - 1  BY <2>6 DEF Split
    <3>2. d \in 1 .. Size(t) /\ 1 \in 1 .. Size(t)  BY <2>5, <3>1
    <3>3. d > 2 => Char(t, 1) # "0"  BY <2>2, <2>5, <3>2
    <3> QED  BY <2>4, <2>6, <3>2, <3>3 DEF Proper
  <2>7. CASE Whole(t) /\ Size(t) = d - 1
    <3>1. 1 \in 1 .. Size(t)  BY <2>2, <2>7
    <3>2. Size(t) > 1 => Char(t, 1) # "0"  BY <2>2, <2>5, <2>7, <3>1
    <3> QED  BY <2>4, <2>7, <3>2 DEF Proper
  <2> QED  BY <2>3, <2>6, <2>7 DEF Stripped
<1> QED  BY <1>9, <1>10

\* A text without the sign it may begin with.
LEMMA UnsignedIs ==
  ASSUME NEW s \in Text
  PROVE  /\ Unsigned(s) \in Text
         /\ \/ Unsigned(s) = s /\ ~(s # <<>> /\ s[1] = "-")
            \/ s # <<>> /\ s[1] = "-" /\ s = <<"-">> \o Unsigned(s)
<1> DEFINE m == "-"
<1>1. CASE s # <<>> /\ s[1] = m
  <2>1. Unsigned(s) = Tail(s)  BY <1>1 DEF Unsigned
  <2> HIDE DEF m
  <2>2. Tail(s) \in Text /\ s = <<m>> \o Tail(s)  BY <1>1 DEF Text
  <2> QED  BY <1>1, <2>1, <2>2 DEF m
<1>2. CASE ~(s # <<>> /\ s[1] = m)
  <2>1. Unsigned(s) = s  BY <1>2 DEF Unsigned
  <2> QED  BY <1>2, <2>1
<1> QED  BY <1>1, <1>2

\* What a proper number looks like.
LEMMA ProperFacts ==
  ASSUME NEW u, Proper(u)
  PROVE  /\ u \in Text /\ Size(u) \in Nat /\ Size(u) >= 1 /\ IsDecimal(u)
         /\ \A i \in 1 .. Size(u) : Char(u, i) \in Digit \cup {"."}
         /\ Char(u, 1) \in Digit /\ Char(u, Size(u)) \in Digit
         /\ Size(u) > 1 /\ Char(u, 1) = "0" => Char(u, 2) = "."
<1>1. CASE Whole(u) /\ (Size(u) > 1 => Char(u, 1) # "0")
  <2>1. u \in Text /\ Size(u) \in Nat /\ Size(u) >= 1  BY <1>1, SizeType DEF Whole
  <2>2. 1 \in 1 .. Size(u) /\ Size(u) \in 1 .. Size(u)  BY <2>1
  <2>3. IsDecimal(u)  BY <1>1, <2>1, DecimalShape
  <2> QED  BY <1>1, <2>1, <2>2, <2>3 DEF Whole
<1>2. ASSUME NEW d \in 1 .. Size(u), Split(u, d), d > 2 => Char(u, 1) # "0"
      PROVE  /\ u \in Text /\ Size(u) \in Nat /\ Size(u) >= 1 /\ IsDecimal(u)
             /\ \A i \in 1 .. Size(u) : Char(u, i) \in Digit \cup {"."}
             /\ Char(u, 1) \in Digit /\ Char(u, Size(u)) \in Digit
             /\ Size(u) > 1 /\ Char(u, 1) = "0" => Char(u, 2) = "."
  <2>1. /\ u \in Text /\ Size(u) \in Nat /\ d \in 2 .. Size(u) - 1 /\ Char(u, d) = "."
        /\ \A i \in 1 .. Size(u) : i # d => Char(u, i) \in Digit
    BY <1>2, SizeType DEF Split
  <2>2. /\ 1 \in 1 .. Size(u) /\ Size(u) \in 1 .. Size(u) /\ 1 # d /\ Size(u) # d /\ Size(u) >= 1
        /\ (d > 2 \/ d = 2)
    BY <2>1
  <2>3. IsDecimal(u)  BY <1>2, <2>1, DecimalShape
  <2>4. \A i \in 1 .. Size(u) : Char(u, i) \in Digit \cup {"."}  BY <2>1
  <2>5. Char(u, 1) = "0" => Char(u, 2) = "."  BY <1>2, <2>1, <2>2
  <2> QED  BY <2>1, <2>2, <2>3, <2>4, <2>5
<1> QED  BY <1>1, <1>2 DEF Proper

\* The place of the exponent, and what it says.
ExponentAt(u) == Min({j \in 1 .. Len(u) : u[j] \in {"e", "E"}} \cup {Len(u) + 1})
Exponent(power) ==
  CASE power = <<>>                   -> 0
    [] power # <<>> /\ power[1] = "-" -> -Numeral(Tail(power))
    [] power # <<>> /\ power[1] = "+" -> Numeral(Tail(power))
    [] OTHER                          -> Numeral(power)
Mantissa(u) == Before(u, ExponentAt(u))
Shift(u)    == Exponent(From(u, ExponentAt(u) + 1))
SignOf(s)   == IF s[1] = "-" THEN <<"-">> ELSE <<>>

\* What canonical_number does: sign, mantissa and exponent apart.
LEMMA CanonicalIs ==
  ASSUME NEW s, NEW u, u = Unsigned(s)
  PROVE  canonical_number(s) =
           IF ToSet(Mantissa(u)) \subseteq {"0", "."} THEN <<"0">>
           ELSE SignOf(s) \o strip_trailing_zeros(expand_exponent(Mantissa(u), Shift(u)))
  BY DEF canonical_number, Mantissa, Shift, Exponent, ExponentAt, FirstAt, SignOf

\* Without a mark for an exponent the whole text is the mantissa.
LEMMA ExponentIsNone ==
  ASSUME NEW u \in Text, \A i \in 1 .. Size(u) : Char(u, i) \notin {"e", "E"}
  PROVE  Mantissa(u) = u /\ Shift(u) = 0
<1> DEFINE S == {j \in 1 .. Len(u) : u[j] \in {"e", "E"}} \cup {Len(u) + 1}
<1>1. Len(u) \in Nat /\ \A j \in 1 .. Len(u) : u[j] \notin {"e", "E"}  BY DEF Text, Size, Char
<1>2. S = {Len(u) + 1}  BY <1>1
<1> HIDE DEF S
<1>3. Min(S) = Len(u) + 1  BY <1>1, <1>2, LeastIs
<1>4. ExponentAt(u) = Len(u) + 1  BY <1>3 DEF ExponentAt, S
<1>5. Mantissa(u) = SubSeq(u, 1, Len(u))
  <2>1. (Len(u) + 1) - 1 = Len(u)  BY <1>1
  <2> QED  BY <1>4, <2>1 DEF Mantissa, Before
<1>6. From(u, ExponentAt(u) + 1) = <<>>
  <2>1. (Len(u) + 1) + 1 > Len(u) /\ (Len(u) + 1) + 1 \in Nat  BY <1>1
  <2>2. \A i \in Nat : i > Len(u) => SubSeq(u, i, Len(u)) = <<>>  BY DEF Text
  <2> QED  BY <1>4, <2>1, <2>2 DEF From
<1>7. SubSeq(u, 1, Len(u)) = u  BY DEF Text
<1>8. Shift(u) = 0  BY <1>6 DEF Shift, Exponent
<1> QED  BY <1>5, <1>7, <1>8

\* A number in canonical form: proper, and with a sign only when not zero.
Canonical(s) ==
  /\ s \in Text /\ Proper(Unsigned(s))
  /\ Unsigned(s) # s => NonZero(Unsigned(s))

\* Neither a digit nor a point marks an exponent or a sign.
LEMMA NotE == \A c \in Digit \cup {"."} : c \notin {"e", "E"} /\ c # "-"
  BY DEF Digit

\* A number in canonical form is what canonical_number makes of it.
LEMMA CanonicalStays ==
  ASSUME NEW s, Canonical(s)
  PROVE  canonical_number(s) = s
<1> DEFINE u == Unsigned(s)
<1>1. s \in Text /\ Proper(u) /\ (u # s => NonZero(u))  BY DEF Canonical
<1>2. /\ u \in Text /\ Size(u) \in Nat /\ Size(u) >= 1
      /\ \A i \in 1 .. Size(u) : Char(u, i) \in Digit \cup {"."}
  BY <1>1, ProperFacts
<1>3. Mantissa(u) = u /\ Shift(u) = 0
  <2> HIDE DEF u
  <2> QED  BY <1>2, NotE, ExponentIsNone
<1>4. canonical_number(s) = IF ToSet(u) \subseteq {"0", "."} THEN <<"0">>
                            ELSE SignOf(s) \o strip_trailing_zeros(expand_exponent(u, 0))
  BY <1>3, CanonicalIs
<1>5. CASE ToSet(u) \subseteq {"0", "."}
  <2>1. \A i \in 1 .. Size(u) : Char(u, i) \in {"0", "."}
    <3> HIDE DEF u
    <3> QED  BY <1>2, <1>5, SetIs
  <2>2. u = s  BY <1>1, <2>1 DEF NonZero
  <2>3. 1 \in 1 .. Size(u) /\ Size(u) \in 1 .. Size(u)  BY <1>2
  <2>4. Char(u, Size(u)) = "0" /\ Char(u, 1) = "0"
    <3>1. Char(u, 1) \in Digit /\ Char(u, Size(u)) \in Digit  BY <1>1, ProperFacts
    <3> QED  BY <2>1, <2>3, <3>1, PointIsNoDigit
  <2>5. Size(u) = 1
    <3>1. Whole(u) /\ (Size(u) > 1 => Char(u, 1) # "0")  BY <1>1, <2>4 DEF Proper
    <3> QED  BY <1>2, <2>4, <3>1
  <2>6. u = <<"0">>
    <3> DEFINE t == <<"0">>
    <3>1. "0" \in Character  BY Named DEF Digit
    <3>2. t \in Text /\ Size(t) = 1 /\ Char(t, 1) = "0"  BY <3>1, One
    <3> HIDE DEF t, u
    <3>3. u = t  BY <1>2, <2>4, <2>5, <3>2, SameText
    <3> QED  BY <3>3 DEF t
  <2> QED  BY <1>4, <1>5, <2>2, <2>6
<1>6. CASE ~(ToSet(u) \subseteq {"0", "."})
  <2>1. expand_exponent(u, 0) = u
    <3> HIDE DEF u
    <3>1. CASE Whole(u) /\ (Size(u) > 1 => Char(u, 1) # "0")  BY <3>1, ProperWhole
    <3>2. CASE \E d \in 1 .. Size(u) : Split(u, d) /\ (d > 2 => Char(u, 1) # "0")
      BY <3>2, ProperSplit
    <3> QED  BY <1>1, <3>1, <3>2 DEF Proper
  <2>2. strip_trailing_zeros(u) = u
    <3> HIDE DEF u
    <3>1. CASE Whole(u)  BY <3>1, StripWhole
    <3>2. CASE \E d \in 1 .. Size(u) : Split(u, d) /\ Char(u, Size(u)) # "0"
      <4>1. PICK d \in 1 .. Size(u) : Split(u, d) /\ Char(u, Size(u)) # "0"  BY <3>2
      <4> DEFINE t == strip_trailing_zeros(u)
      <4>2. Stripped(t, u, d)  BY <4>1, StripSplit
      <4> HIDE DEF t
      <4>3. Size(t) = Size(u)
        <5>1. t \in Text /\ Size(t) \in Nat /\ Size(t) <= Size(u)  BY <4>2, SizeType DEF Stripped
        <5>2. Size(u) \in 1 .. Size(u)  BY <1>2
        <5>3. Char(u, Size(u)) \in Digit  BY <1>1, ProperFacts
        <5>4. Size(t) < Size(u) => Char(u, Size(u)) \in {"0", "."}  BY <4>2, <5>2 DEF Stripped
        <5> QED  BY <1>2, <4>1, <5>1, <5>3, <5>4, PointIsNoDigit
      <4>4. t \in Text /\ \A i \in 1 .. Size(t) : Char(t, i) = Char(u, i)  BY <4>2 DEF Stripped
      <4>5. t = u  BY <1>2, <4>3, <4>4, SameText
      <4> QED  BY <4>5 DEF t
    <3> QED  BY <1>1, <3>1, <3>2 DEF Proper
  <2>3. SignOf(s) \o u = s
    <3>1. CASE u = s /\ ~(s # <<>> /\ s[1] = "-")
      <4>1. s # <<>>  BY <1>2, <3>1 DEF Size, Text
      <4>2. SignOf(s) = <<>>  BY <3>1, <4>1 DEF SignOf
      <4>3. <<>> \o s = s  BY <1>1 DEF Text
      <4> QED  BY <3>1, <4>2, <4>3
    <3>2. CASE s # <<>> /\ s[1] = "-" /\ s = <<"-">> \o u
      <4>1. SignOf(s) = <<"-">>  BY <3>2 DEF SignOf
      <4> QED  BY <3>2, <4>1
    <3> QED  BY <1>1, <3>1, <3>2, UnsignedIs
  <2> QED  BY <1>4, <1>6, <2>1, <2>2, <2>3
<1> QED  BY <1>5, <1>6

\* Digits are worth something, and so is a text of them.
LEMMA DigitOfType == DigitOf \in [Digit -> 0 .. 9]
<1>1. ASSUME NEW c \in Digit PROVE DigitOf[c] \in 0 .. 9
  <2>1. /\ Cipher[0] = "0" /\ Cipher[1] = "1" /\ Cipher[2] = "2" /\ Cipher[3] = "3"
        /\ Cipher[4] = "4" /\ Cipher[5] = "5" /\ Cipher[6] = "6" /\ Cipher[7] = "7"
        /\ Cipher[8] = "8" /\ Cipher[9] = "9"
    BY DEF Cipher
  <2>2. \E n \in 0 .. 9 : Cipher[n] = c  BY <2>1 DEF Digit
  <2>3. PICK n \in 0 .. 9 : Cipher[n] = c  BY <2>2
  <2>4. DigitOf[c] = n  BY <2>3, CipherFacts
  <2> QED  BY <2>4
<1>2. DigitOf = [c \in Digit |-> DigitOf[c]]  BY DEF DigitOf
<1> QED  BY <1>1, <1>2

\* A text of digits is worth a natural number.
LEMMA NumeralType ==
  ASSUME NEW s, Whole(s)
  PROVE  Numeral(s) \in Nat
<1> DEFINE N == Len(s)
           step == [i \in 1 .. N |-> [x \in Nat |-> 10 * x + DigitOf[s[i]]]]
<1>1. s \in Text /\ N \in Nat /\ \A i \in 1 .. N : s[i] \in Digit  BY DEF Whole, Text, Size, Char
<1>2. \A i \in 1 .. N : DigitOf[s[i]] \in Nat  BY <1>1, DigitOfType
<1>3. step \in [1 .. N -> [Nat -> Nat]]
  <2>1. \A i \in 1 .. N, x \in Nat : 10 * x + DigitOf[s[i]] \in Nat  BY <1>2
  <2> QED  BY <2>1
<1> HIDE DEF step, N
<1>4. PICK v : Steps(v, N, Nat, 0, step)  BY <1>1, <1>3, Recursion
<1>5. v \in [0 .. N -> Nat] /\ v[0] = 0  BY <1>4 DEF Steps
<1>6. ASSUME NEW k \in 0 .. N, NEW i \in 1 .. N, i = k + 1
      PROVE  v[i] = 10 * v[k] + DigitOf[s[i]]
  <2>1. k = i - 1 /\ v[k] \in Nat  BY <1>1, <1>5, <1>6
  <2>2. v[i] = step[i][v[k]]  BY <1>4, <2>1 DEF Steps
  <2>3. step[i][v[k]] = 10 * v[k] + DigitOf[s[i]]  BY <2>1 DEF step
  <2> QED  BY <2>2, <2>3
<1>7. Numeral(s) = v[N]  BY <1>1, <1>5, <1>6, WorthFacts DEF N
<1> QED  BY <1>1, <1>5, <1>7

\* The end of a text that begins with a sign.
LEMMA TailIs ==
  ASSUME NEW s \in Text, s # <<>>
  PROVE  Tail(s) \in Text
  BY DEF Text

\* An exponent is an integer.
LEMMA ExponentType ==
  ASSUME NEW e \in Text, e = <<>> \/ IsExponent(e)
  PROVE  Exponent(e) \in Int
<1>1. CASE e = <<>>  BY <1>1 DEF Exponent
<1>2. CASE e # <<>> /\ e[1] \in {"+", "-"} /\ IsDigits(Tail(e))
  <2>1. Whole(Tail(e))  BY <1>2, TailIs, DigitsAre
  <2>2. Numeral(Tail(e)) \in Nat  BY <2>1, NumeralType
  <2>3. Exponent(e) = -Numeral(Tail(e)) \/ Exponent(e) = Numeral(Tail(e))  BY <1>2 DEF Exponent
  <2> QED  BY <2>2, <2>3
<1>3. CASE IsDigits(e)
  <2>1. e # <<>> /\ e[1] \in Digit  BY <1>3, DigitsStart
  <2>2. e[1] # "-" /\ e[1] # "+"
    <3>1. "+" \notin Digit /\ "-" \notin Digit  BY DEF Digit
    <3> QED  BY <2>1, <3>1
  <2>3. Exponent(e) = Numeral(e)  BY <2>1, <2>2 DEF Exponent
  <2>4. Numeral(e) \in Nat  BY <1>3, DigitsAre, NumeralType
  <2> QED  BY <2>3, <2>4
<1> QED  BY <1>1, <1>2, <1>3 DEF IsExponent

\* A decimal number is digits and at most a point.
LEMMA DecimalHas ==
  ASSUME NEW m \in Text, IsDecimal(m)
  PROVE  \A i \in 1 .. Size(m) : Char(m, i) \in Digit \cup {"."}
<1>1. CASE Whole(m)  BY <1>1 DEF Whole
<1>2. CASE \E d \in 1 .. Size(m) : Split(m, d)  BY <1>2 DEF Split
<1> QED  BY <1>1, <1>2, DecimalShape

\* Where the exponent of a number is.
LEMMA NumberParts ==
  ASSUME NEW u \in Text,
         \/ IsDecimal(u)
         \/ \E i \in DOMAIN u : u[i] \in {"e", "E"} /\ IsDecimal(Before(u, i)) /\ IsExponent(From(u, i + 1))
  PROVE  Mantissa(u) \in Text /\ IsDecimal(Mantissa(u)) /\ Shift(u) \in Int
<1>1. CASE IsDecimal(u)
  <2>1. \A i \in 1 .. Size(u) : Char(u, i) \notin {"e", "E"}  BY <1>1, DecimalHas, NotE
  <2>2. Mantissa(u) = u /\ Shift(u) = 0  BY <2>1, ExponentIsNone
  <2> QED  BY <1>1, <2>2
<1>2. CASE \E i \in DOMAIN u : u[i] \in {"e", "E"} /\ IsDecimal(Before(u, i)) /\ IsExponent(From(u, i + 1))
  <2>1. PICK i \in DOMAIN u : u[i] \in {"e", "E"} /\ IsDecimal(Before(u, i)) /\ IsExponent(From(u, i + 1))
    BY <1>2
  <2>2. Size(u) \in Nat /\ i \in 1 .. Size(u) /\ i \in 1 .. Size(u) + 1 /\ i \in 0 .. Size(u)
    BY <2>1, Places, SizeType
  <2>3. Before(u, i) \in Text /\ Size(Before(u, i)) = i - 1
        /\ \A j \in 1 .. i - 1 : Char(Before(u, i), j) = Char(u, j)
    BY <2>2, BeforeIs
  <2>4. From(u, i + 1) \in Text  BY <2>2, FromIs
  <2>5. ASSUME NEW j \in 1 .. Size(u), j < i PROVE Char(u, j) \notin {"e", "E"}
    <3>1. j \in 1 .. i - 1  BY <2>2, <2>5
    <3> QED  BY <2>1, <2>3, <3>1, DecimalHas, NotE
  <2>6. ExponentAt(u) = i
    <3> DEFINE S == {j \in 1 .. Len(u) : u[j] \in {"e", "E"}} \cup {Len(u) + 1}
    <3>1. \A j \in 1 .. Len(u) : u[j] \in {"e", "E"} => i <= j
      <4>1. SUFFICES ASSUME NEW j \in 1 .. Len(u), u[j] \in {"e", "E"} PROVE i <= j  OBVIOUS
      <4>2. j \in 1 .. Size(u) /\ Char(u, j) \in {"e", "E"}  BY <4>1 DEF Size, Char
      <4> QED  BY <2>2, <2>5, <4>2
    <3>2. i \in 1 .. Len(u) /\ Len(u) \in Nat  BY <2>2 DEF Size
    <3>3. i \in S /\ S \in SUBSET Nat /\ \A j \in S : i <= j  BY <2>1, <3>1, <3>2
    <3> HIDE DEF S
    <3>4. Min(S) = i  BY <3>3, LeastIs
    <3> QED  BY <3>4 DEF S, ExponentAt
  <2>7. Exponent(From(u, i + 1)) \in Int  BY <2>1, <2>4, ExponentType
  <2> QED  BY <2>1, <2>3, <2>6, <2>7 DEF Mantissa, Shift
<1> QED  BY <1>1, <1>2

\* The digits of a decimal number count as they do in it.
LEMMA DigitsFacts ==
  ASSUME NEW m \in Text, IsDecimal(m), NonZero(m)
  PROVE  Whole(Digits(m)) /\ NonZero(Digits(m)) /\ Point(m) \in Nat
<1>1. CASE Whole(m)
  <2>1. Point(m) = Size(m) + 1 /\ Digits(m) = m  BY <1>1, MantissaWhole
  <2> QED  BY <1>1, <2>1, SizeType
<1>2. ASSUME NEW d \in 1 .. Size(m), Split(m, d)
      PROVE  Whole(Digits(m)) /\ NonZero(Digits(m)) /\ Point(m) \in Nat
  <2> DEFINE digs == Digits(m)
             N == Size(m)
  <2>1. /\ Point(m) = d /\ Whole(digs) /\ Size(digs) = N - 1
        /\ \A i \in 1 .. d - 1 : Char(digs, i) = Char(m, i)
        /\ \A j \in 1 .. N - d : Char(digs, (d - 1) + j) = Char(m, d + j)
    BY <1>2, MantissaSplit
  <2>2. N \in Nat /\ d \in 2 .. N - 1 /\ Char(m, d) = "."  BY <1>2, SizeType DEF Split
  <2>3. PICK q \in 1 .. N : Char(m, q) \notin {"0", "."}  BY DEF NonZero
  <2> HIDE DEF digs, N
  <2>4. q # d  BY <2>2, <2>3
  <2>5. CASE q < d
    <3>1. q \in 1 .. d - 1 /\ q \in 1 .. Size(digs)  BY <2>1, <2>2, <2>5
    <3> QED  BY <2>1, <2>2, <2>3, <3>1 DEF NonZero, digs
  <2>6. CASE q > d
    <3>1. PICK j \in 1 .. N - d : q = d + j /\ (d - 1) + j \in 1 .. Size(digs)
      <4>1. q - d \in 1 .. N - d /\ q = d + (q - d) /\ (d - 1) + (q - d) \in 1 .. Size(digs)
        BY <2>1, <2>2, <2>6
      <4> QED  BY <4>1
    <3>2. Char(digs, (d - 1) + j) = Char(m, q)  BY <2>1, <3>1
    <3> QED  BY <2>1, <2>2, <2>3, <3>1, <3>2 DEF NonZero, digs
  <2> QED  BY <2>2, <2>4, <2>5, <2>6
<1> QED  BY <1>1, <1>2, DecimalShape

\* Zero is in canonical form.
LEMMA ZeroIsCanonical == Canonical(<<"0">>)
<1> DEFINE z == "0"
           t == <<z>>
<1>1. z \in Character /\ z \in Digit /\ z # "-"  BY Named DEF Digit
<1> HIDE DEF z
<1>2. t \in Text /\ Size(t) = 1 /\ Char(t, 1) = z /\ t[1] = z  BY <1>1, One DEF Char
<1> HIDE DEF t
<1>3. \A i \in 1 .. Size(t) : Char(t, i) \in Digit
  <2>1. \A i \in 1 .. 1 : i = 1  OBVIOUS
  <2> QED  BY <1>1, <1>2, <2>1
<1>4. Whole(t)  BY <1>2, <1>3 DEF Whole
<1>5. Proper(t)  BY <1>2, <1>4 DEF Proper
<1>6. Unsigned(t) = t  BY <1>1, <1>2 DEF Unsigned
<1>7. Canonical(t)  BY <1>2, <1>5, <1>6 DEF Canonical
<1> QED  BY <1>7 DEF t, z

\* A sign before a proper number that is not zero.
LEMMA SignedIsCanonical ==
  ASSUME NEW t, Proper(t), NonZero(t), NEW sign, sign = <<>> \/ sign = <<"-">>
  PROVE  Canonical(sign \o t)
<1>1. t \in Text /\ Size(t) >= 1 /\ Char(t, 1) \in Digit  BY ProperFacts
<1>2. CASE sign = <<>>
  <2>1. sign \o t = t  BY <1>1, <1>2 DEF Text
  <2>2. t[1] # "-"  BY <1>1, NotE DEF Char
  <2>3. Unsigned(t) = t  BY <2>2 DEF Unsigned
  <2> QED  BY <1>1, <2>1, <2>3 DEF Canonical
<1>3. CASE sign = <<"-">>
  <2> DEFINE m == "-"
             r == <<m>> \o t
  <2>1. m \in Character  BY Named
  <2> HIDE DEF m
  <2>2. r \in Text /\ r # <<>> /\ r[1] = m /\ Tail(r) = t  BY <1>1, <2>1, HeadFacts
  <2> HIDE DEF r
  <2>3. Unsigned(r) = t  BY <2>2 DEF Unsigned, m
  <2>4. Canonical(r)  BY <2>2, <2>3 DEF Canonical
  <2> QED  BY <1>3, <2>4 DEF r, m
<1> QED  BY <1>2, <1>3

\* What canonical_number makes of a number is in canonical form.
LEMMA NumberIsCanonical ==
  ASSUME NEW s \in Text, looks_numeric(s)
  PROVE  Canonical(canonical_number(s))
<1> DEFINE u == Unsigned(s)
           m == Mantissa(u)
           e == Shift(u)
<1>1. u \in Text  BY UnsignedIs
<1>2. \/ IsDecimal(u)
      \/ \E i \in DOMAIN u : u[i] \in {"e", "E"} /\ IsDecimal(Before(u, i)) /\ IsExponent(From(u, i + 1))
  BY DEF looks_numeric
<1> HIDE DEF u
<1>3. m \in Text /\ IsDecimal(m) /\ e \in Int  BY <1>1, <1>2, NumberParts
<1>4. canonical_number(s) = IF ToSet(m) \subseteq {"0", "."} THEN <<"0">>
                            ELSE SignOf(s) \o strip_trailing_zeros(expand_exponent(m, e))
  BY CanonicalIs DEF u
<1> HIDE DEF m, e
<1>5. CASE ToSet(m) \subseteq {"0", "."}  BY <1>4, <1>5, ZeroIsCanonical
<1>6. CASE ~(ToSet(m) \subseteq {"0", "."})
  <2>1. NonZero(m)  BY <1>3, <1>6, SetIs DEF NonZero
  <2> DEFINE digs == Digits(m)
             point == Point(m) - 1 + e
             t == strip_trailing_zeros(PutAt(digs, point))
  <2>2. Whole(digs) /\ NonZero(digs) /\ point \in Int  BY <1>3, <2>1, DigitsFacts
  <2>3. expand_exponent(m, e) = PutAt(digs, point)  BY ExpandIs
  <2>4. Proper(t) /\ NonZero(t)
    <3> HIDE DEF digs, point
    <3> QED  BY <2>2, PutIsProper
  <2>5. SignOf(s) = <<>> \/ SignOf(s) = <<"-">>  BY DEF SignOf
  <2>6. canonical_number(s) = SignOf(s) \o t  BY <1>4, <1>6, <2>3
  <2> HIDE DEF t
  <2> QED  BY <2>4, <2>5, <2>6, SignedIsCanonical
<1> QED  BY <1>5, <1>6

-----------------------------------------------------------------------------
(* Numbers: the digit at each power of ten. *)

\* The digit of weight 10^k, when the point stands after the first point digits.
At(digs, point, k) == IF point - k \in 1 .. Size(digs) THEN Char(digs, point - k) ELSE "0"

\* The digit of weight 10^k in a number as it is written.
DigitAt(s, k) ==
  At(Digits(Mantissa(Unsigned(s))), Point(Mantissa(Unsigned(s))) - 1 + Shift(Unsigned(s)), k)

\* Zeros around the digits count for nothing.
LEMMA AmongKeeps ==
  ASSUME NEW a, Whole(a), NEW b, Whole(b), NEW z, Among(a, b, z),
         NEW pa \in Int, NEW pb, pb = pa + z, NEW k \in Int
  PROVE  At(b, pb, k) = At(a, pa, k)
<1> DEFINE i == pa - k
           A == Size(a)
           B == Size(b)
<1>1. A \in Nat /\ B \in Nat  BY SizeType DEF Whole
<1>2. /\ z \in Nat /\ z + A <= B
      /\ \A j \in 1 .. A : Char(b, z + j) = Char(a, j)
      /\ \A j \in 1 .. B : j <= z \/ z + A < j => Char(b, j) = "0"
  BY DEF Among
<1>3. pb - k = z + i /\ i \in Int  BY <1>2
<1>4. At(a, pa, k) = IF i \in 1 .. A THEN Char(a, i) ELSE "0"  BY DEF At
<1>5. At(b, pb, k) = IF z + i \in 1 .. B THEN Char(b, z + i) ELSE "0"  BY <1>3 DEF At
<1> HIDE DEF i, A, B
<1>6. CASE i \in 1 .. A
  <2>1. z + i \in 1 .. B  BY <1>1, <1>2, <1>6
  <2> QED  BY <1>2, <1>4, <1>5, <1>6, <2>1
<1>7. CASE i \notin 1 .. A
  <2>1. z + i <= z \/ z + A < z + i  BY <1>1, <1>2, <1>3, <1>7
  <2> QED  BY <1>2, <1>4, <1>5, <1>7, <2>1
<1> QED  BY <1>6, <1>7

\* The digits that are shown are those there are, but for zeros before them.
LEMMA ShownDigits ==
  ASSUME NEW all, Whole(all), NEW size, NEW w, NEW k, NEW p, ShownAs(w, all, size, k, p)
  PROVE  Whole(Digits(w)) /\ Point(w) - 1 = size - k /\ Among(Digits(w), all, k)
<1> DEFINE N == Size(all)
<1>1. /\ N \in Nat /\ k \in Nat /\ p \in 1 .. size /\ p = k + 1 /\ size \in 1 .. N
      /\ \A j \in 1 .. k : Char(all, j) = "0"
      /\ \A i \in 1 .. size - k : Char(w, i) = Char(all, k + i)
      /\ size = N => Whole(w) /\ Size(w) = size - k
      /\ size # N =>
           /\ Split(w, size - k + 1) /\ Size(w) = N - k + 1
           /\ \A j \in 1 .. N - size : Char(w, (size - k + 1) + j) = Char(all, size + j)
  BY SizeType DEF ShownAs, Whole
<1>2. CASE size = N
  <2>1. Point(w) = Size(w) + 1 /\ Digits(w) = w  BY <1>1, <1>2, MantissaWhole
  <2>2. Size(w) = N - k /\ Whole(w)  BY <1>1, <1>2
  <2> HIDE DEF N
  <2>3. k + Size(w) = N /\ \A i \in 1 .. N : k + Size(w) < i => FALSE  BY <1>1, <2>2
  <2>4. \A i \in 1 .. Size(w) : Char(all, k + i) = Char(w, i)  BY <1>1, <1>2, <2>2
  <2>5. \A i \in 1 .. N : i <= k => Char(all, i) = "0"  BY <1>1
  <2>6. Among(w, all, k)  BY <1>1, <2>3, <2>4, <2>5 DEF Among, N
  <2> QED  BY <1>1, <1>2, <2>1, <2>2, <2>6
<1>3. CASE size # N
  <2> DEFINE d == size - k + 1
             digs == Digits(w)
  <2>1. Split(w, d)  BY <1>1, <1>3
  <2>2. /\ Point(w) = d /\ Whole(digs) /\ Size(digs) = Size(w) - 1
        /\ \A i \in 1 .. d - 1 : Char(digs, i) = Char(w, i)
        /\ \A j \in 1 .. Size(w) - d : Char(digs, (d - 1) + j) = Char(w, d + j)
    BY <2>1, MantissaSplit
  <2>3. Size(digs) = N - k /\ Size(w) - d = N - size /\ d - 1 = size - k /\ d = size - k + 1
    BY <1>1, <1>3, <2>2
  <2> HIDE DEF N, d, digs
  <2>4. ASSUME NEW i \in 1 .. Size(digs) PROVE Char(all, k + i) = Char(digs, i)
    <3>1. CASE i <= size - k
      <4>1. i \in 1 .. size - k  BY <1>1, <2>3, <3>1
      <4>2. Char(digs, i) = Char(w, i)  BY <2>2, <2>3, <4>1
      <4> QED  BY <1>1, <4>1, <4>2
    <3>2. CASE size - k < i
      <4>1. PICK j \in 1 .. N - size : i = (d - 1) + j /\ k + i = size + j
        <5>1. i - (d - 1) \in 1 .. N - size /\ i = (d - 1) + (i - (d - 1)) /\ k + i = size + (i - (d - 1))
          BY <1>1, <2>3, <3>2
        <5> QED  BY <5>1
      <4>2. Char(digs, i) = Char(w, d + j)  BY <2>2, <2>3, <4>1
      <4>3. Char(w, d + j) = Char(all, size + j)  BY <1>1, <1>3, <2>3
      <4> QED  BY <4>1, <4>2, <4>3
    <3> QED  BY <1>1, <2>3, <3>1, <3>2
  <2>5. k + Size(digs) = N /\ \A i \in 1 .. N : k + Size(digs) < i => FALSE  BY <1>1, <2>3
  <2>6. \A i \in 1 .. N : i <= k => Char(all, i) = "0"  BY <1>1
  <2>7. Among(digs, all, k)  BY <1>1, <2>4, <2>5, <2>6 DEF Among, N
  <2> QED  BY <2>2, <2>3, <2>7 DEF digs
<1> QED  BY <1>2, <1>3

\* The digits that are stripped are zeros after the others.
LEMMA StrippedDigits ==
  ASSUME NEW w, NEW d, Split(w, d), NEW t, Stripped(t, w, d)
  PROVE  Whole(Digits(t)) /\ Point(t) = d /\ Among(Digits(t), Digits(w), 0)
<1> DEFINE a == Digits(t)
           b == Digits(w)
           N == Size(w)
           T == Size(t)
<1>1. /\ Point(w) = d /\ Whole(b) /\ Size(b) = N - 1
      /\ \A i \in 1 .. d - 1 : Char(b, i) = Char(w, i)
      /\ \A j \in 1 .. N - d : Char(b, (d - 1) + j) = Char(w, d + j)
  BY MantissaSplit
<1>2. /\ t \in Text /\ T <= N /\ \A i \in 1 .. T : Char(t, i) = Char(w, i)
      /\ \A i \in 1 .. N : T < i => Char(w, i) \in {"0", "."}
      /\ Split(t, d) \/ (Whole(t) /\ T = d - 1)
  BY DEF Stripped
<1>3. N \in Nat /\ d \in 2 .. N - 1 /\ T \in Nat  BY <1>2, SizeType DEF Split
<1>4. ASSUME NEW j \in 1 .. N - d, T < d + j PROVE Char(b, (d - 1) + j) = "0"
  <2>1. d + j \in 1 .. N /\ (d - 1) + j \in 1 .. Size(b)  BY <1>1, <1>3
  <2>2. Char(b, (d - 1) + j) \in {"0", "."}  BY <1>1, <1>2, <1>4, <2>1
  <2>3. Char(b, (d - 1) + j) \in Digit  BY <1>1, <2>1 DEF Whole
  <2> QED  BY <2>2, <2>3, PointIsNoDigit
<1>5. CASE Split(t, d)
  <2>1. /\ Point(t) = d /\ Whole(a) /\ Size(a) = T - 1
        /\ \A i \in 1 .. d - 1 : Char(a, i) = Char(t, i)
        /\ \A j \in 1 .. T - d : Char(a, (d - 1) + j) = Char(t, d + j)
    BY <1>5, MantissaSplit
  <2>2. d \in 2 .. T - 1  BY <1>5 DEF Split
  <2> HIDE DEF a, b, N, T
  <2>3. ASSUME NEW i \in 1 .. Size(a) PROVE Char(b, 0 + i) = Char(a, i)
    <3>1. CASE i <= d - 1
      <4>1. i \in 1 .. d - 1 /\ i \in 1 .. T  BY <1>3, <2>1, <2>2, <3>1
      <4> QED  BY <1>1, <1>2, <2>1, <4>1
    <3>2. CASE d - 1 < i
      <4>1. PICK j \in 1 .. T - d : i = (d - 1) + j /\ d + j \in 1 .. T /\ j \in 1 .. N - d
        <5>1. i - (d - 1) \in 1 .. T - d /\ i = (d - 1) + (i - (d - 1)) /\ d + (i - (d - 1)) \in 1 .. T
              /\ i - (d - 1) \in 1 .. N - d
          BY <1>2, <1>3, <2>1, <2>2, <3>2
        <5> QED  BY <5>1
      <4> QED  BY <1>1, <1>2, <2>1, <4>1
    <3> QED  BY <1>3, <2>1, <3>1, <3>2
  <2>4. ASSUME NEW i \in 1 .. Size(b), i <= 0 \/ 0 + Size(a) < i PROVE Char(b, i) = "0"
    <3>1. PICK j \in 1 .. N - d : i = (d - 1) + j /\ T < d + j
      <4>1. i - (d - 1) \in 1 .. N - d /\ i = (d - 1) + (i - (d - 1)) /\ T < d + (i - (d - 1))
        BY <1>1, <1>3, <2>1, <2>2, <2>4
      <4> QED  BY <4>1
    <3> QED  BY <1>4, <3>1
  <2>5. 0 + Size(a) <= Size(b) /\ 0 \in Nat  BY <1>1, <1>2, <1>3, <2>1
  <2>6. Among(a, b, 0)  BY <2>3, <2>4, <2>5 DEF Among
  <2> QED  BY <2>1, <2>6 DEF a, b
<1>6. CASE Whole(t) /\ T = d - 1
  <2>1. Point(t) = d /\ a = t  BY <1>3, <1>6, MantissaWhole
  <2>2. Size(a) = d - 1  BY <1>6, <2>1
  <2> HIDE DEF a, b, N, T
  <2>3. \A i \in 1 .. Size(a) : Char(b, 0 + i) = Char(a, i)  BY <1>1, <1>2, <1>6, <2>1, <2>2
  <2>4. ASSUME NEW i \in 1 .. Size(b), i <= 0 \/ 0 + Size(a) < i PROVE Char(b, i) = "0"
    <3>1. PICK j \in 1 .. N - d : i = (d - 1) + j /\ T < d + j
      <4>1. i - (d - 1) \in 1 .. N - d /\ i = (d - 1) + (i - (d - 1)) /\ T < d + (i - (d - 1))
        BY <1>1, <1>3, <1>6, <2>2, <2>4
      <4> QED  BY <4>1
    <3> QED  BY <1>4, <3>1
  <2>5. 0 + Size(a) <= Size(b) /\ 0 \in Nat  BY <1>1, <1>3, <2>2
  <2>6. Among(a, b, 0)  BY <2>3, <2>4, <2>5 DEF Among
  <2> QED  BY <1>6, <2>1, <2>6 DEF a, b
<1> QED  BY <1>2, <1>5, <1>6

\* Wherever the point is put, no digit moves from it.
LEMMA PutKeepsDigits ==
  ASSUME NEW digs, Whole(digs), NEW point \in Int,
         NEW t, t = strip_trailing_zeros(PutAt(digs, point)), NEW k \in Int
  PROVE  At(Digits(t), Point(t) - 1, k) = At(digs, point, k)
<1> DEFINE all == Padded(digs, point)
           size == IF point > 0 THEN point ELSE 1
           w == PutAt(digs, point)
           z == size - point
<1>1. Whole(all) /\ size \in 1 .. Size(all) /\ Among(digs, all, z)
  <2> DEFINE s == size
  <2>1. s = IF point > 0 THEN point ELSE 1  OBVIOUS
  <2> HIDE DEF s
  <2>2. Whole(all) /\ s \in 1 .. Size(all) /\ Among(digs, all, s - point)  BY <2>1, PaddedFacts
  <2> QED  BY <2>2 DEF s
<1>2. w = Shown(all, size)  BY DEF PutAt
<1>3. t = strip_trailing_zeros(w)  OBVIOUS
<1>4. size = point + z /\ size \in Int  OBVIOUS
<1> HIDE DEF all, size, w, z
<1>5. At(all, size, k) = At(digs, point, k)  BY <1>1, <1>4, AmongKeeps
<1>6. PICK n, p : ShownAs(w, all, size, n, p)  BY <1>1, <1>2, ShownIs
<1>7. Whole(Digits(w)) /\ Point(w) - 1 = size - n /\ Among(Digits(w), all, n)
  BY <1>1, <1>6, ShownDigits
<1>8. At(all, size, k) = At(Digits(w), Point(w) - 1, k)
  <2>1. n \in Nat  BY <1>6 DEF ShownAs
  <2>2. Point(w) - 1 \in Int /\ size = (Point(w) - 1) + n  BY <1>4, <1>7, <2>1
  <2> QED  BY <1>1, <1>7, <2>2, AmongKeeps
<1>9. CASE size = Size(all)
  <2>1. Whole(w)  BY <1>6, <1>9 DEF ShownAs
  <2>2. t = w  BY <1>3, <2>1, StripWhole
  <2> QED  BY <1>5, <1>8, <2>2
<1>10. CASE size # Size(all)
  <2> DEFINE d == size - n + 1
  <2>1. Split(w, d)  BY <1>6, <1>10 DEF ShownAs
  <2>2. d - 1 \in Int /\ d - 1 = (d - 1) + 0 /\ Point(w) = d
    <3>1. n \in Nat  BY <1>6 DEF ShownAs
    <3>2. Point(w) = d  BY <2>1, MantissaSplit
    <3> QED  BY <1>4, <3>1, <3>2
  <2> HIDE DEF d
  <2>3. Stripped(t, w, d)  BY <1>3, <2>1, StripSplit
  <2>4. Whole(Digits(t)) /\ Point(t) = d /\ Among(Digits(t), Digits(w), 0)
    BY <2>1, <2>3, StrippedDigits
  <2>5. At(Digits(w), d - 1, k) = At(Digits(t), d - 1, k)
    BY <1>7, <2>2, <2>4, AmongKeeps
  <2> QED  BY <1>5, <1>8, <2>2, <2>4, <2>5
<1> QED  BY <1>9, <1>10

\* What a proper number is: its own mantissa.
LEMMA ProperIsMantissa ==
  ASSUME NEW u, Proper(u)
  PROVE  Mantissa(u) = u /\ Shift(u) = 0
<1>1. u \in Text /\ \A i \in 1 .. Size(u) : Char(u, i) \in Digit \cup {"."}  BY ProperFacts
<1>2. \A i \in 1 .. Size(u) : Char(u, i) \notin {"e", "E"}  BY <1>1, NotE
<1> QED  BY <1>1, <1>2, ExponentIsNone

\* The point of a decimal number has a place, if only after its last digit.
LEMMA PointType ==
  ASSUME NEW m \in Text, IsDecimal(m)
  PROVE  Point(m) \in Nat
<1>1. CASE Whole(m)
  <2>1. Point(m) = Size(m) + 1  BY <1>1, MantissaWhole
  <2> QED  BY <2>1, SizeType
<1>2. ASSUME NEW d \in 1 .. Size(m), Split(m, d) PROVE Point(m) \in Nat
  <2>1. Point(m) = d  BY <1>2, MantissaSplit
  <2> QED  BY <2>1
<1> QED  BY <1>1, <1>2, DecimalShape

\* A digit that counts has a weight.
LEMMA CountsAt ==
  ASSUME NEW digs, Whole(digs), NonZero(digs), NEW point \in Int
  PROVE  \E k \in Int : At(digs, point, k) # "0"
<1>1. PICK i \in 1 .. Size(digs) : Char(digs, i) \notin {"0", "."}  BY DEF NonZero
<1>2. Size(digs) \in Nat  BY SizeType DEF Whole
<1>3. point - i \in Int /\ point - (point - i) = i  BY <1>2
<1>4. At(digs, point, point - i) = Char(digs, i)  BY <1>3 DEF At
<1> QED  BY <1>1, <1>3, <1>4

\* Zeros only, and the digit at every weight is zero.
LEMMA ZerosAt ==
  ASSUME NEW m \in Text, IsDecimal(m), ~NonZero(m), NEW point \in Int, NEW k \in Int
  PROVE  At(Digits(m), point, k) = "0"
<1> DEFINE digs == Digits(m)
           N == Size(m)
<1>1. \A i \in 1 .. N : Char(m, i) \in {"0", "."}  BY DEF NonZero
<1>2. ASSUME NEW i \in 1 .. Size(digs) PROVE Char(digs, i) = "0"
  <2>1. CASE Whole(m)
    <3>1. digs = m  BY <2>1, MantissaWhole
    <3>2. Char(m, i) \in Digit  BY <2>1, <3>1 DEF Whole
    <3> QED  BY <1>1, <3>1, <3>2, PointIsNoDigit
  <2>2. ASSUME NEW d \in 1 .. N, Split(m, d) PROVE Char(digs, i) = "0"
    <3>1. /\ Whole(digs) /\ Size(digs) = N - 1
          /\ \A j \in 1 .. d - 1 : Char(digs, j) = Char(m, j)
          /\ \A j \in 1 .. N - d : Char(digs, (d - 1) + j) = Char(m, d + j)
      BY <2>2, MantissaSplit
    <3>2. N \in Nat /\ d \in 2 .. N - 1  BY <2>2, SizeType DEF Split
    <3>3. Char(digs, i) \in Digit  BY <3>1 DEF Whole
    <3> HIDE DEF digs, N
    <3>4. Char(digs, i) \in {"0", "."}
      <4>1. CASE i <= d - 1
        <5>1. i \in 1 .. d - 1 /\ i \in 1 .. N  BY <3>1, <3>2, <4>1
        <5> QED  BY <1>1, <3>1, <5>1
      <4>2. CASE d - 1 < i
        <5>1. PICK j \in 1 .. N - d : i = (d - 1) + j /\ d + j \in 1 .. N
          <6>1. i - (d - 1) \in 1 .. N - d /\ i = (d - 1) + (i - (d - 1)) /\ d + (i - (d - 1)) \in 1 .. N
            BY <3>1, <3>2, <4>2
          <6> QED  BY <6>1
        <5> QED  BY <1>1, <3>1, <5>1
      <4> QED  BY <3>1, <3>2, <4>1, <4>2
    <3> QED  BY <3>3, <3>4, PointIsNoDigit
  <2> QED  BY <2>1, <2>2, DecimalShape
<1> QED  BY <1>2 DEF At

\* A number keeps its value: at every power of ten canonical_number leaves the
\* digit that the number had as it was read, with its point anywhere and any
\* exponent, and it keeps the sign, except of a zero, which is written "0".
\* (In the code this is of numbers whose digits a double gives back.)
THEOREM NumberKeepsItsDigits ==
  ASSUME NEW s \in Text, looks_numeric(s), NEW c, c = canonical_number(s)
  PROVE  /\ \A k \in Int : DigitAt(c, k) = DigitAt(s, k)
         /\ (\E k \in Int : DigitAt(s, k) # "0") => SignOf(c) = SignOf(s)
         /\ (\A k \in Int : DigitAt(s, k) = "0") => c = <<"0">>
<1> DEFINE u == Unsigned(s)
           m == Mantissa(u)
           e == Shift(u)
           digs == Digits(m)
           point == Point(m) - 1 + e
           t == strip_trailing_zeros(PutAt(digs, point))
           v == Unsigned(c)
<1>1. u \in Text  BY UnsignedIs
<1>2. \/ IsDecimal(u)
      \/ \E i \in DOMAIN u : u[i] \in {"e", "E"} /\ IsDecimal(Before(u, i)) /\ IsExponent(From(u, i + 1))
  BY DEF looks_numeric
<1>3. \A k \in Int : DigitAt(s, k) = At(digs, point, k)  BY DEF DigitAt
<1>4. c = IF ToSet(m) \subseteq {"0", "."} THEN <<"0">>
          ELSE SignOf(s) \o strip_trailing_zeros(expand_exponent(m, e))
  BY CanonicalIs
<1>5. expand_exponent(m, e) = PutAt(digs, point)  BY ExpandIs
<1>6. Canonical(c)  BY NumberIsCanonical
<1>7. Proper(v)  BY <1>6 DEF Canonical
<1>8. Mantissa(v) = v /\ Shift(v) = 0  BY <1>7, ProperIsMantissa
<1>9. \A k \in Int : DigitAt(c, k) = At(Digits(v), Point(v) - 1 + 0, k)  BY <1>8 DEF DigitAt
<1> HIDE DEF u, v
<1>10. m \in Text /\ IsDecimal(m) /\ e \in Int  BY <1>1, <1>2, NumberParts
<1> HIDE DEF m, e
<1>11. Point(m) \in Nat  BY <1>10, PointType
<1>12. point \in Int  BY <1>10, <1>11
<1> HIDE DEF point
<1>13. CASE ~NonZero(m)
  <2>1. ToSet(m) \subseteq {"0", "."}  BY <1>10, <1>13, SetIs DEF NonZero
  <2>2. c = <<"0">>  BY <1>4, <2>1
  <2>3. \A k \in Int : DigitAt(s, k) = "0"  BY <1>3, <1>10, <1>12, <1>13, ZerosAt
  <2>4. \A k \in Int : DigitAt(c, k) = "0"
    <3> DEFINE z == "0"
               w == <<z>>
    <3>1. z \in Character /\ z # "-"  BY Named DEF Digit
    <3> HIDE DEF z
    <3>2. w \in Text /\ Size(w) = 1 /\ Char(w, 1) = z /\ w[1] = z  BY <3>1, One DEF Char
    <3>3. c = w  BY <2>2 DEF z
    <3> HIDE DEF w
    <3>4. v = w  BY <3>1, <3>2, <3>3 DEF v, Unsigned
    <3>5. ~NonZero(w)
      <4>1. \A i \in 1 .. 1 : i = 1  OBVIOUS
      <4> QED  BY <3>2, <4>1 DEF NonZero, z
    <3>6. IsDecimal(w) /\ Point(w) - 1 + 0 \in Int
      <4>1. IsDecimal(w)  BY <1>7, <3>4, ProperFacts
      <4>2. Point(w) \in Nat  BY <3>2, <4>1, PointType
      <4> QED  BY <4>1, <4>2
    <3> QED  BY <1>9, <3>2, <3>4, <3>5, <3>6, ZerosAt
  <2> QED  BY <2>2, <2>3, <2>4
<1>14. CASE NonZero(m)
  <2>1. ~(ToSet(m) \subseteq {"0", "."})  BY <1>10, <1>14, SetIs DEF NonZero
  <2>2. Whole(digs) /\ NonZero(digs)  BY <1>10, <1>14, DigitsFacts
  <2>3. c = SignOf(s) \o t  BY <1>4, <1>5, <2>1
  <2> HIDE DEF digs
  <2>4. Proper(t)  BY <1>12, <2>2, PutIsProper
  <2>5. \A k \in Int : At(Digits(t), Point(t) - 1, k) = At(digs, point, k)
    BY <1>12, <2>2, PutKeepsDigits
  <2>6. \E k \in Int : At(digs, point, k) # "0"  BY <1>12, <2>2, CountsAt
  <2> HIDE DEF t
  <2>7. t \in Text /\ Size(t) >= 1 /\ Char(t, 1) \in Digit  BY <2>4, ProperFacts
  <2>8. v = t /\ SignOf(c) = SignOf(s)
    <3>1. CASE SignOf(s) = <<>>
      <4>1. c = t  BY <2>3, <2>7, <3>1 DEF Text
      <4>2. t[1] # "-"  BY <2>7, NotE DEF Char
      <4>3. Unsigned(t) = t /\ SignOf(t) = <<>>  BY <4>2 DEF Unsigned, SignOf
      <4> QED  BY <3>1, <4>1, <4>3 DEF v
    <3>2. CASE SignOf(s) = <<"-">>
      <4> DEFINE n == "-"
                 r == <<n>> \o t
      <4>1. n \in Character  BY Named
      <4> HIDE DEF n
      <4>2. r \in Text /\ r # <<>> /\ r[1] = n /\ Tail(r) = t  BY <2>7, <4>1, HeadFacts
      <4>3. c = r  BY <2>3, <3>2 DEF n
      <4> HIDE DEF r
      <4>4. Unsigned(r) = t  BY <4>2 DEF Unsigned, n
      <4>5. SignOf(r) = <<"-">>  BY <4>2 DEF SignOf, n
      <4> QED  BY <3>2, <4>3, <4>4, <4>5 DEF v
    <3>3. SignOf(s) = <<>> \/ SignOf(s) = <<"-">>  BY DEF SignOf
    <3> QED  BY <3>1, <3>2, <3>3
  <2>9. Point(t) - 1 + 0 = Point(t) - 1
    <3>1. IsDecimal(t)  BY <2>4, ProperFacts
    <3>2. Point(t) \in Nat  BY <2>7, <3>1, PointType
    <3> QED  BY <3>2
  <2> QED  BY <1>3, <1>9, <2>5, <2>6, <2>8, <2>9
<1> QED  BY <1>13, <1>14

-----------------------------------------------------------------------------
(* Values without structure: strings, numbers and literals. *)

\* A value without structure, as a parser can have made it.
Primitive(v) ==
  \/ \E s \in Text : v = Str(s)
  \/ \E s \in Text : Canonical(s) /\ v = Num(s)
  \/ \E s \in Reserved : v = Lit(s)

\* The characters of numbers and literals are no blanks, quotes or separators.
LEMMA PlainMarks ==
  /\ \A c \in Digit \cup {".", "-"} : c \notin Blank /\ c # Quote /\ c \notin {"t", "f", "n", ":", ",", "|"}
  /\ \A c \in {"t", "r", "u", "e", "f", "a", "l", "s", "n"} :
       c \notin Blank /\ c # Quote /\ c \notin {":", ",", "|"} /\ c \notin Digit \cup {"-"}
<1>1. \A c \in Digit \cup {".", "-"} : c # Quote  BY Zenon DEF Quote, Digit
<1>2. \A c \in {"t", "r", "u", "e", "f", "a", "l", "s", "n"} : c # Quote  BY Zenon DEF Quote
<1> QED  BY <1>1, <1>2 DEF Digit, Blank

\* How a number in canonical form looks.
LEMMA CanonicalFacts ==
  ASSUME NEW s, Canonical(s)
  PROVE  /\ s \in Text /\ s # <<>> /\ looks_numeric(s) /\ is_decodable_number(s)
         /\ s[1] \in Digit \cup {"-"} /\ s[Len(s)] \in Digit
         /\ \A i \in 1 .. Size(s) : Char(s, i) \in Digit \cup {".", "-"}
<1> DEFINE u == Unsigned(s)
<1>1. s \in Text /\ Proper(u)  BY DEF Canonical
<1>2. /\ u \in Text /\ Size(u) \in Nat /\ Size(u) >= 1 /\ IsDecimal(u)
      /\ \A i \in 1 .. Size(u) : Char(u, i) \in Digit \cup {"."}
      /\ Char(u, 1) \in Digit /\ Char(u, Size(u)) \in Digit
      /\ (Size(u) > 1 /\ Char(u, 1) = "0" => Char(u, 2) = ".")
  BY <1>1, ProperFacts
<1>3. looks_numeric(s)  BY <1>2 DEF looks_numeric
<1>4. is_decodable_number(s)
  <2>1. ~(Len(u) > 1 /\ u[1] = "0" /\ u[2] \in Digit)  BY <1>2, PointIsNoDigit DEF Size, Char
  <2> QED  BY <1>3, <2>1 DEF is_decodable_number
<1> HIDE DEF u
<1>5. CASE u = s
  <2>1. s # <<>> /\ s[1] \in Digit /\ s[Len(s)] \in Digit  BY <1>2, <1>5 DEF Size, Char, Text
  <2> QED  BY <1>1, <1>2, <1>3, <1>4, <1>5, <2>1
<1>6. CASE s # <<>> /\ s[1] = "-" /\ s = <<"-">> \o u
  <2> DEFINE m == "-"
             t == <<m>>
  <2>1. t \in Text /\ Size(t) = 1 /\ Char(t, 1) = m
    <3>1. m \in Character  BY Named
    <3> HIDE DEF m
    <3> QED  BY <3>1, One
  <2> HIDE DEF t
  <2>2. /\ Size(t \o u) = 1 + Size(u)
        /\ Char(t \o u, 1) = m
        /\ \A i \in 1 .. Size(u) : Char(t \o u, 1 + i) = Char(u, i)
    <3> HIDE DEF m
    <3>1. 1 \in 1 .. Size(t)  BY <2>1
    <3>2. /\ Size(t \o u) = Size(t) + Size(u)
          /\ \A i \in 1 .. Size(t) : Char(t \o u, i) = Char(t, i)
          /\ \A i \in 1 .. Size(u) : Char(t \o u, Size(t) + i) = Char(u, i)
      BY <1>2, <2>1, Concat
    <3> QED  BY <2>1, <3>1, <3>2
  <2>3. s = t \o u  BY <1>6 DEF t
  <2> HIDE DEF m
  <2>4. ASSUME NEW i \in 1 .. Size(s) PROVE Char(s, i) \in Digit \cup {".", "-"}
    <3>1. CASE i = 1  BY <2>2, <2>3, <3>1 DEF m
    <3>2. CASE i # 1
      <4>1. PICK j \in 1 .. Size(u) : i = 1 + j
        <5>1. i - 1 \in 1 .. Size(u) /\ i = 1 + (i - 1)  BY <1>2, <2>2, <2>3, <3>2
        <5> QED  BY <5>1
      <4> QED  BY <1>2, <2>2, <2>3, <4>1
    <3> QED  BY <3>1, <3>2
  <2>5. Char(s, Size(s)) \in Digit
    <3>1. Size(u) \in 1 .. Size(u)  BY <1>2
    <3> QED  BY <1>2, <2>2, <2>3, <3>1
  <2> QED  BY <1>1, <1>3, <1>4, <1>6, <2>4, <2>5 DEF Size, Char
<1> QED  BY <1>1, <1>5, <1>6, UnsignedIs DEF u

\* The canonical form of a number is stable: whatever looks like a number,
\* with zeros before and after, a point anywhere and any exponent, is made by
\* canonical_number into text that is still a number to is_decodable_number and
\* that canonical_number does not change again, where doubles do not round.
THEOREM NumberIsStable ==
  ASSUME NEW s \in Text, looks_numeric(s)
  PROVE  /\ is_decodable_number(canonical_number(s))
         /\ canonical_number(canonical_number(s)) = canonical_number(s)
<1>1. Canonical(canonical_number(s))  BY NumberIsCanonical
<1> QED  BY <1>1, CanonicalFacts, CanonicalStays

\* A number in canonical form is read as itself.
LEMMA CanonicalToken ==
  ASSUME NEW s, Canonical(s)
  PROVE  parse_primitive_token(s) = Num(s)
<1>1. /\ s \in Text /\ s # <<>> /\ is_decodable_number(s)
      /\ s[1] \in Digit \cup {"-"} /\ s[Len(s)] \in Digit
  BY CanonicalFacts
<1>2. s[1] \notin Blank /\ s[Len(s)] \notin Blank /\ s[1] # Quote /\ s[1] \notin {"t", "f", "n"}
  BY <1>1, PlainMarks
<1>3. Trim(s) = s  BY <1>1, <1>2, TrimKeeps
<1>4. s \notin Reserved  BY <1>2, ReservedStarts
<1>5. canonical_number(s) = s  BY CanonicalStays
<1> QED  BY <1>1, <1>2, <1>3, <1>4, <1>5 DEF parse_primitive_token

\* The literals are texts, of these letters.
LEMMA ReservedFacts ==
  ASSUME NEW s \in Reserved
  PROVE  /\ s \in Text /\ s # <<>>
         /\ \A i \in 1 .. Len(s) : s[i] \in {"t", "r", "u", "e", "f", "a", "l", "s", "n"}
<1> DEFINE L == {"t", "r", "u", "e", "f", "a", "l", "s", "n"}
<1>1. ASSUME NEW t, NEW a \in L, NEW b \in L, NEW c \in L, NEW d \in L, t = <<a, b, c, d>>
      PROVE  t \in Seq(L) /\ t # <<>>
  <2> HIDE DEF L
  <2> QED  BY <1>1
<1>2. ASSUME NEW t, NEW a \in L, NEW b \in L, NEW c \in L, NEW d \in L, NEW e \in L, t = <<a, b, c, d, e>>
      PROVE  t \in Seq(L) /\ t # <<>>
  <2> HIDE DEF L
  <2> QED  BY <1>2
<1>3. "t" \in L /\ "r" \in L /\ "u" \in L /\ "e" \in L /\ "f" \in L /\ "a" \in L /\ "l" \in L /\ "s" \in L /\ "n" \in L
  OBVIOUS
<1>4. L \subseteq Character  BY Named
<1> HIDE DEF L
<1>5. s \in Seq(L) /\ s # <<>>
  <2>1. s = <<"t", "r", "u", "e">> \/ s = <<"f", "a", "l", "s", "e">> \/ s = <<"n", "u", "l", "l">>
    BY DEF Reserved
  <2>2. CASE s = <<"t", "r", "u", "e">>  BY <1>1, <1>3, <2>2
  <2>3. CASE s = <<"f", "a", "l", "s", "e">>  BY <1>2, <1>3, <2>3
  <2>4. CASE s = <<"n", "u", "l", "l">>  BY <1>1, <1>3, <2>4
  <2> QED  BY <2>1, <2>2, <2>3, <2>4
<1>6. s \in Text  BY <1>4, <1>5 DEF Text
<1> QED  BY <1>5, <1>6 DEF L

\* A literal is read as itself.
LEMMA ReservedToken ==
  ASSUME NEW s \in Reserved
  PROVE  parse_primitive_token(s) = Lit(s)
<1> DEFINE L == {"t", "r", "u", "e", "f", "a", "l", "s", "n"}
<1>1. s \in Text /\ s # <<>> /\ \A i \in 1 .. Len(s) : s[i] \in L  BY ReservedFacts
<1> HIDE DEF L
<1>2. s[1] \in L /\ s[Len(s)] \in L
  <2>1. 1 \in 1 .. Len(s) /\ Len(s) \in 1 .. Len(s)  BY <1>1 DEF Text
  <2> QED  BY <1>1, <2>1
<1>3. \A c \in L : c \notin Blank /\ c # Quote /\ c \notin Digit \cup {"-"}  BY PlainMarks DEF L
<1>4. Trim(s) = s  BY <1>1, <1>2, <1>3, TrimKeeps
<1>5. s[1] # Quote  BY <1>2, <1>3
<1>6. ~is_decodable_number(s)
  <2>1. ~looks_numeric(s)  BY <1>1, <1>2, <1>3, NumberStarts
  <2> QED  BY <2>1 DEF is_decodable_number
<1> QED  BY <1>1, <1>4, <1>5, <1>6 DEF parse_primitive_token

\* A primitive is read back: what encode_primitive writes for a string, for a
\* number in the canonical form that canonical_number gives, or for null,
\* true or false is read as that value, under any delimiter.
THEOREM PrimitiveIsRead ==
  ASSUME NEW v, Primitive(v), NEW delim
  PROVE  parse_primitive_token(encode_primitive(v, delim)) = v
<1>1. ASSUME NEW s \in Text, v = Str(s)
      PROVE  parse_primitive_token(encode_primitive(v, delim)) = v
  BY <1>1, StringIsRead
<1>2. ASSUME NEW s \in Text, Canonical(s), v = Num(s)
      PROVE  parse_primitive_token(encode_primitive(v, delim)) = v
  <2>1. Num(s).kind = "number" /\ Num(s).text = s  BY DEF Num
  <2>2. encode_primitive(v, delim) = s  BY <1>2, <2>1 DEF encode_primitive
  <2> QED  BY <1>2, <2>2, CanonicalToken
<1>3. ASSUME NEW s \in Reserved, v = Lit(s)
      PROVE  parse_primitive_token(encode_primitive(v, delim)) = v
  <2>1. Lit(s).kind = "literal" /\ Lit(s).text = s  BY DEF Lit
  <2>2. encode_primitive(v, delim) = s  BY <1>3, <2>1 DEF encode_primitive
  <2> QED  BY <1>3, <2>2, ReservedToken
<1> QED  BY <1>1, <1>2, <1>3 DEF Primitive

\* What is written for a primitive has no separator outside its quotes.
LEMMA PrimitiveIsClosed ==
  ASSUME NEW v, Primitive(v), NEW delim \in Delim, NEW d \in {delim, ":"}
  PROVE  Closed(encode_primitive(v, delim), d)
<1>0. d \in {":", ",", "|"} \cup Blank  BY DEF Delim, Blank
<1>1. ASSUME NEW s \in Text, v = Str(s) PROVE Closed(encode_primitive(v, delim), d)
  BY <1>1, CellIsClosed, CellHasNoColon
<1>2. ASSUME NEW s \in Text, Canonical(s), v = Num(s) PROVE Closed(encode_primitive(v, delim), d)
  <2>1. Num(s).kind = "number" /\ Num(s).text = s  BY DEF Num
  <2>2. encode_primitive(v, delim) = s  BY <1>2, <2>1 DEF encode_primitive
  <2>3. \A i \in 1 .. Size(s) : Char(s, i) \in Digit \cup {".", "-"}  BY <1>2, CanonicalFacts
  <2>4. \A i \in 1 .. Size(s) : Char(s, i) # Quote /\ Char(s, i) # d  BY <1>0, <2>3, PlainMarks
  <2> QED  BY <2>2, <2>4, PlainIsClosed
<1>3. ASSUME NEW s \in Reserved, v = Lit(s) PROVE Closed(encode_primitive(v, delim), d)
  <2>1. Lit(s).kind = "literal" /\ Lit(s).text = s  BY DEF Lit
  <2>2. encode_primitive(v, delim) = s  BY <1>3, <2>1 DEF encode_primitive
  <2>3. s \in Text /\ \A i \in 1 .. Size(s) : Char(s, i) \in {"t", "r", "u", "e", "f", "a", "l", "s", "n"}
    BY ReservedFacts DEF Size, Char
  <2>4. \A i \in 1 .. Size(s) : Char(s, i) # Quote /\ Char(s, i) # d  BY <1>0, <2>3, PlainMarks
  <2> QED  BY <2>2, <2>3, <2>4, PlainIsClosed
<1> QED  BY <1>1, <1>2, <1>3 DEF Primitive

\* What trimming leaves is a text.
LEMMA TrimStartType ==
  ASSUME NEW s \in Text
  PROVE  TrimStart(s) \in Text
<1> DEFINE S == {n \in 1 .. Len(s) : s[n] \notin Blank} \cup {Len(s) + 1}
<1>1. Len(s) \in Nat /\ S \in SUBSET Nat /\ S # {} /\ \A i \in S : i \in 1 .. Len(s) + 1  BY DEF Text
<1>2. TrimStart(s) = From(s, Min(S))  BY DEF TrimStart, FirstAt
<1> HIDE DEF S
<1>3. PICK m \in S : \A j \in S : m <= j  BY <1>1, Least
<1>4. Min(S) = m  BY <1>1, <1>3, LeastIs
<1>5. m \in 1 .. Len(s) + 1  BY <1>1
<1>6. From(s, m) \in Text  BY <1>1, <1>5 DEF From, Text
<1> QED  BY <1>2, <1>4, <1>6

\* So is what trimming at both ends leaves.
LEMMA TrimType ==
  ASSUME NEW s \in Text
  PROVE  Trim(s) \in Text
<1>1. TrimStart(s) \in Text  BY TrimStartType
<1>2. Reverse(TrimStart(s)) \in Text  BY <1>1, ReverseFacts
<1>3. TrimStart(Reverse(TrimStart(s))) \in Text  BY <1>2, TrimStartType
<1>4. Reverse(TrimStart(Reverse(TrimStart(s)))) \in Text  BY <1>3, ReverseFacts
<1> QED  BY <1>4 DEF Trim, TrimEnd

\* What a character in a quoted part adds is a text.
LEMMA MeaningType ==
  ASSUME NEW s \in Text, NEW i \in 1 .. Len(s)
  PROVE  Meaning(s, i) \in Text
<1> DEFINE c == s[i]
<1>1. c \in Character  BY DEF Text
<1> HIDE DEF c
<1>2. EscapeMeans(c) \in Text
  <2>1. <<c>> \in Text /\ <<"\n">> \in Text /\ <<"\r">> \in Text /\ <<"\t">> \in Text /\ <<>> \in Text
    <3>1. "\n" \in Character /\ "\r" \in Character /\ "\t" \in Character  BY Named
    <3>2. \A d \in Character : <<d>> \in Text  BY One
    <3>3. <<>> \in Text  BY DEF Text
    <3> QED  BY <1>1, <3>1, <3>2, <3>3
  <2>2. \/ EscapeMeans(c) = <<c>> \/ EscapeMeans(c) = <<"\n">> \/ EscapeMeans(c) = <<"\r">>
        \/ EscapeMeans(c) = <<"\t">> \/ EscapeMeans(c) = <<>>
    BY DEF EscapeMeans
  <2> QED  BY <2>1, <2>2
<1>3. <<c>> \in Text /\ <<>> \in Text  BY <1>1 DEF Text
<1>4. Meaning(s, i) = EscapeMeans(c) \/ Meaning(s, i) = <<>> \/ Meaning(s, i) = <<c>>
  BY DEF Meaning, c
<1> QED  BY <1>2, <1>3, <1>4

\* A quoted string that is read is a text.
LEMMA QuotedType ==
  ASSUME NEW s \in Text, ~Failed(parse_quoted(s))
  PROVE  parse_quoted(s).text \in Text
<1> DEFINE end == Min(Closing(s))
           J == [i \in 1 .. end - 2 |-> Meaning(s, i + 1)]
<1>1. Failed(Fail)  BY DEF Failed, Fail
<1>2. Closing(s) # {}  BY <1>1, Zenon DEF parse_quoted
<1>3. Closing(s) \in SUBSET Nat /\ \A i \in Closing(s) : i \in 1 .. Len(s)
  BY DEF Closing, Text
<1>4. PICK m \in Closing(s) : \A j \in Closing(s) : m <= j  BY <1>2, <1>3, Least
<1>5. end = m  BY <1>3, <1>4, LeastIs
<1>6. end \in 1 .. Len(s) /\ Len(s) \in Nat  BY <1>3, <1>5 DEF Text
<1>7. parse_quoted(s) = [text |-> FlattenSeq(J), end |-> end]
  <2> DEFINE P == \E i \in 2 .. end - 1 : Scan(s)[i - 1] = "escape" /\ EscapeMeans(s[i]) = <<>>
             r == [text |-> FlattenSeq(J), end |-> end]
  <2>1. parse_quoted(s) = IF P THEN Fail ELSE r  BY <1>2 DEF parse_quoted
  <2> HIDE DEF P, r
  <2>2. ~P  BY <1>1, <2>1
  <2> QED  BY <2>1, <2>2 DEF r
<1> HIDE DEF end
<1>8. J \in Seq(Text)
  <2>1. ASSUME NEW i \in 1 .. end - 2 PROVE Meaning(s, i + 1) \in Text
    <3>1. i + 1 \in 1 .. Len(s)  BY <1>6
    <3> QED  BY <3>1, MeaningType
  <2>2. PICK n \in Nat : 1 .. end - 2 = 1 .. n
    <3>1. CASE end >= 2
      <4>1. end - 2 \in Nat  BY <1>6, <3>1
      <4> QED  BY <4>1
    <3>2. CASE end = 1
      <4>1. 1 .. end - 2 = 1 .. 0  BY <3>2
      <4> QED  BY <4>1
    <3> QED  BY <1>6, <3>1, <3>2
  <2> DEFINE h(i) == Meaning(s, i + 1)
  <2>3. \A i \in 1 .. n : h(i) \in Text  BY <2>1, <2>2
  <2>4. J = [i \in 1 .. n |-> h(i)]  BY <2>2
  <2> HIDE DEF h, J
  <2> QED  BY <2>3, <2>4
<1> HIDE DEF J
<1>9. PICK at : Pieces(FlattenSeq(J), at, J)  BY <1>8, FlattenPieces
<1>10. FlattenSeq(J) \in Text  BY <1>9 DEF Pieces
<1> QED  BY <1>7, <1>10

\* Whatever a token is, what it is read as is a primitive.
LEMMA TokenIsPrimitive ==
  ASSUME NEW token \in Text, ~Failed(parse_primitive_token(token))
  PROVE  Primitive(parse_primitive_token(token))
<1> DEFINE t == Trim(token)
           v == parse_primitive_token(token)
<1>1. t \in Text /\ Failed(Fail)  BY TrimType DEF Failed, Fail
<1>2. v = CASE t = <<>>                 -> Str(<<>>)
            [] t # <<>> /\ t[1] = Quote -> WholeQuoted(t)
            [] t \in Reserved           -> Lit(t)
            [] is_decodable_number(t)   -> Num(canonical_number(t))
            [] OTHER                    -> Str(t)
  BY DEF parse_primitive_token
<1>3. ~Failed(v)  OBVIOUS
<1> HIDE DEF t, v
<1>4. \/ v = Str(t) \/ (t = <<>> /\ v = Str(<<>>)) \/ v = WholeQuoted(t)
      \/ (t \in Reserved /\ v = Lit(t)) \/ (is_decodable_number(t) /\ v = Num(canonical_number(t)))
  BY <1>2
<1>5. Primitive(v)
  <2>1. CASE v = Str(t)  BY <1>1, <2>1 DEF Primitive
  <2>2. CASE t = <<>> /\ v = Str(<<>>)  BY <1>1, <2>2 DEF Primitive
  <2>3. CASE v = WholeQuoted(t)
    <3> DEFINE q == parse_quoted(t)
    <3>1. v = IF Failed(q) THEN Fail ELSE IF q.end # Len(t) THEN Fail ELSE Str(q.text)
      BY <2>3 DEF WholeQuoted, IfRead
    <3> HIDE DEF q
    <3>2. ~Failed(q) /\ v = Str(q.text)  BY <1>1, <1>3, <3>1
    <3>3. q.text \in Text  BY <1>1, <3>2, QuotedType DEF q
    <3> QED  BY <3>2, <3>3 DEF Primitive
  <2>4. CASE t \in Reserved /\ v = Lit(t)  BY <2>4 DEF Primitive
  <2>5. CASE is_decodable_number(t) /\ v = Num(canonical_number(t))
    <3>1. looks_numeric(t)  BY <2>5 DEF is_decodable_number
    <3>2. Canonical(canonical_number(t))  BY <1>1, <3>1, NumberIsCanonical
    <3>3. canonical_number(t) \in Text  BY <3>2 DEF Canonical
    <3> QED  BY <2>5, <3>2, <3>3 DEF Primitive
  <2> QED  BY <1>4, <2>1, <2>2, <2>3, <2>4, <2>5
<1> QED  BY <1>5 DEF v

\* A second pass changes nothing: what parse_primitive_token makes of a token is
\* written by encode_primitive in a way that is read as the same value.  Of the
\* code this holds for strings and literals, and for a number whose digits a
\* double gives back (up to 15 that count, in its range), wherever its point and
\* its exponent were: its canonical form is a fixed point.  It does not hold for
\* a number beyond the range, which is written as null and comes back as that.
THEOREM TokenIsStable ==
  ASSUME NEW token \in Text, NEW delim,
         NEW v, v = parse_primitive_token(token), ~Failed(v)
  PROVE  parse_primitive_token(encode_primitive(v, delim)) = v
  BY TokenIsPrimitive, PrimitiveIsRead

\* The cells of a row, as parse_tabular_rows and the inline arrays have them.
Cells(cells, vs, delim) ==
  cells = [i \in 1 .. Len(vs) |-> encode_primitive(vs[i], delim)]

\* Each cell holds no separator outside its quotes, and is read as its value.
LEMMA CellsAreClosed ==
  ASSUME NEW V, NEW vs \in Seq(V), \A v \in V : Primitive(v), NEW delim \in Delim,
         NEW cells, Cells(cells, vs, delim), NEW d \in {delim, ":"}
  PROVE  /\ cells \in Seq(Text) /\ Len(cells) = Len(vs)
         /\ \A i \in 1 .. Len(vs) : /\ Closed(cells[i], d)
                                    /\ parse_primitive_token(cells[i]) = vs[i]
<1>1. Len(vs) \in Nat /\ \A i \in 1 .. Len(vs) : Primitive(vs[i])  OBVIOUS
<1>2. \A i \in 1 .. Len(vs) : cells[i] = encode_primitive(vs[i], delim)  BY DEF Cells
<1>3. \A i \in 1 .. Len(vs) : Closed(cells[i], d)  BY <1>1, <1>2, PrimitiveIsClosed
<1>4. \A i \in 1 .. Len(vs) : parse_primitive_token(cells[i]) = vs[i]  BY <1>1, <1>2, PrimitiveIsRead
<1>5. cells \in Seq(Text) /\ Len(cells) = Len(vs)
  <2>1. \A i \in 1 .. Len(vs) : cells[i] \in Text  BY <1>3 DEF Closed
  <2>2. cells = [i \in 1 .. Len(vs) |-> cells[i]]  BY DEF Cells
  <2> QED  BY <1>1, <2>1, <2>2
<1> QED  BY <1>3, <1>4, <1>5

\* A row is read back: for any non-empty list of primitives and any of the
\* three delimiters, split_delimited takes the row apart into exactly the
\* cells that encode_primitive wrote, however many delimiters, quotes and
\* backslashes the strings contain, and parse_primitive_token makes of each
\* cell the value it was written for.
THEOREM RowIsRead ==
  ASSUME NEW V, NEW vs \in Seq(V), \A v \in V : Primitive(v), vs # <<>>,
         NEW delim \in Delim, NEW cells, Cells(cells, vs, delim)
  PROVE  /\ split_delimited(Joined(cells, delim), delim) = cells
         /\ \A i \in 1 .. Len(vs) : parse_primitive_token(cells[i]) = vs[i]
<1>1. delim \in Character /\ delim # Quote  BY QuoteFacts, Named DEF Delim
<1>2. cells \in Seq(Text) /\ Len(cells) = Len(vs)
      /\ \A i \in 1 .. Len(vs) : Closed(cells[i], delim) /\ parse_primitive_token(cells[i]) = vs[i]
  BY CellsAreClosed
<1>3. cells # <<>> /\ \A i \in 1 .. Len(cells) : Closed(cells[i], delim)  BY <1>2
<1>4. split_delimited(Joined(cells, delim), delim) = cells
  BY <1>1, <1>2, <1>3, SplitJoined
<1> QED  BY <1>2, <1>4

\* Among the lines of a table a row is not taken for a field: whatever its
\* cells hold, is_row_terminator does not stop parse_tabular_rows at it.
THEOREM RowIsNoField ==
  ASSUME NEW V, NEW vs \in Seq(V), \A v \in V : Primitive(v), NEW delim \in Delim,
         NEW cells, Cells(cells, vs, delim)
  PROVE  ~is_row_terminator(Joined(cells, delim), delim)
<1>1. delim \in Character /\ delim # Quote /\ delim # ":"
  BY Separators DEF Delim
<1>2. cells \in Seq(Text) /\ \A i \in 1 .. Len(cells) : Closed(cells[i], ":")
  BY CellsAreClosed
<1>3. Bare(Joined(cells, delim), ":") = {}  BY <1>1, <1>2, ClosedJoined, ClosedIsEmpty
<1> QED  BY <1>3 DEF is_row_terminator

-----------------------------------------------------------------------------
(* A value and a field on a line of their own. *)

\* What is written for a primitive is one quoted string, or has none of the
\* marks that give a line its structure.
LEMMA PrimitiveShape ==
  ASSUME NEW v, Primitive(v), NEW delim, NEW w, w = encode_primitive(v, delim)
  PROVE  \/ \E s \in Text : w = quote_string(s)
         \/ /\ w \in Text /\ w # <<>> /\ w[1] # Quote
            /\ \A i \in 1 .. Len(w) : w[i] \notin {":", "[", "]"}
<1> DEFINE Plain(t) == /\ t \in Text /\ t # <<>> /\ t[1] # Quote
                       /\ \A i \in 1 .. Len(t) : t[i] \notin {":", "[", "]"}
<1>1. ASSUME NEW s \in Text, v = Str(s) PROVE w = quote_string(s) \/ Plain(w)
  <2>1. Str(s).kind = "string" /\ Str(s).text = s  BY DEF Str
  <2>2. CASE needs_quoting(s, delim)  BY <1>1, <2>1, <2>2 DEF encode_primitive
  <2>3. CASE ~needs_quoting(s, delim)
    <3>1. w = s  BY <1>1, <2>1, <2>3 DEF encode_primitive
    <3>2. s # <<>> /\ \A i \in DOMAIN s : s[i] # Quote /\ s[i] \notin {":", "[", "]"}
      BY <2>3 DEF needs_quoting
    <3>3. DOMAIN s = 1 .. Len(s) /\ 1 \in 1 .. Len(s)  BY <3>2 DEF Text
    <3> QED  BY <3>1, <3>2, <3>3
  <2> QED  BY <2>2, <2>3
<1>2. ASSUME NEW s \in Text, Canonical(s), v = Num(s) PROVE Plain(w)
  <2>1. Num(s).kind = "number" /\ Num(s).text = s  BY DEF Num
  <2>2. w = s  BY <1>2, <2>1 DEF encode_primitive
  <2>3. s # <<>> /\ \A i \in 1 .. Len(s) : s[i] \in Digit \cup {".", "-"}
    BY <1>2, CanonicalFacts DEF Size, Char
  <2>4. \A c \in Digit \cup {".", "-"} : c # Quote /\ c \notin {":", "[", "]"}
    <3>1. \A c \in Digit \cup {".", "-"} : c \notin {":", "[", "]"}  BY DEF Digit
    <3> QED  BY <3>1, PlainMarks
  <2>5. 1 \in 1 .. Len(s)  BY <2>3 DEF Text
  <2> QED  BY <2>2, <2>3, <2>4, <2>5
<1>3. ASSUME NEW s \in Reserved, v = Lit(s) PROVE Plain(w)
  <2> DEFINE L == {"t", "r", "u", "e", "f", "a", "l", "s", "n"}
  <2>1. Lit(s).kind = "literal" /\ Lit(s).text = s  BY DEF Lit
  <2>2. w = s  BY <1>3, <2>1 DEF encode_primitive
  <2>3. s \in Text /\ s # <<>> /\ \A i \in 1 .. Len(s) : s[i] \in L  BY ReservedFacts
  <2>4. \A c \in L : c # Quote /\ c \notin {":", "[", "]"}
    <3>1. \A c \in L : c \notin {":", "[", "]"}  OBVIOUS
    <3> QED  BY <3>1, PlainMarks
  <2> HIDE DEF L
  <2>5. 1 \in 1 .. Len(s)  BY <2>3 DEF Text
  <2> QED  BY <2>2, <2>3, <2>4, <2>5
<1> QED  BY <1>1, <1>2, <1>3 DEF Primitive

\* A text in quotes alone is neither a header nor a field.
LEMMA QuotedAlone ==
  ASSUME NEW s \in Text, NEW w, w = quote_string(s)
  PROVE  ~is_key_value_line(w) /\ parse_array_header(w) = NotHeader
<1>1. w \in Text /\ w # <<>> /\ w[1] = Quote /\ Len(w) \in Nat  BY QuotedEnds DEF Text
<1>2. w \o <<>> = w /\ <<>> \in Text  BY <1>1 DEF Text
<1> DEFINE p == [text |-> s, end |-> Len(w)]
           k == [keyed |-> TRUE, quoted |-> TRUE, key |-> s, at |-> Len(w) + 1]
<1>3. parse_quoted(w) = p  BY <1>2, QuotedIsRead
<1>4. parse_optional_key_prefix(w) = k  BY <1>2, QuotedPrefix
<1>5. p.end = Len(w)  OBVIOUS
<1>6. ~Failed(k) /\ k.at = Len(w) + 1  BY DEF Failed
<1> HIDE DEF p, k
<1>7. ~is_key_value_line(w)  BY <1>1, <1>3, <1>5 DEF is_key_value_line
<1>8. FirstOf(w, k.at + 1, "]") = Size(w) + 1
  <2> DEFINE i == k.at + 1
  <2>1. i \in Nat /\ 1 <= i /\ \A j \in 1 .. Size(w) : ~(i <= j)  BY <1>1, <1>6 DEF Size
  <2> HIDE DEF i
  <2>2. FirstOf(w, i, "]") = Size(w) + 1  BY <1>1, <2>1, NoFirst
  <2> QED  BY <2>2 DEF i
<1> DEFINE close == Size(w) + 1
<1>9. close > Len(w)  BY <1>1 DEF Size
<1>10. FirstAt(w, k.at + 1, LAMBDA x : x = "]") = close  BY <1>8 DEF FirstOf, FirstAt
<1> HIDE DEF close
<1>11. PICK b : parse_array_header(w) = HeaderFrom(w, k, close, b)
  BY <1>4, <1>6, <1>10 DEF parse_array_header, IfRead
<1>12. HeaderFrom(w, k, close, b) = NotHeader  BY <1>9 DEF HeaderFrom
<1> QED  BY <1>7, <1>11, <1>12

\* Neither is a text without these marks.
LEMMA PlainAlone ==
  ASSUME NEW w \in Text, w # <<>>, w[1] # Quote,
         \A i \in 1 .. Len(w) : w[i] \notin {":", "[", "]"}
  PROVE  ~is_key_value_line(w) /\ parse_array_header(w) = NotHeader
<1>1. ~is_key_value_line(w)  BY DEF is_key_value_line, Contains
<1> DEFINE k == [keyed |-> FALSE, quoted |-> FALSE, key |-> <<>>, at |-> 1]
<1>2. FirstOf(w, 1, "[") = Size(w) + 1 /\ FirstOf(w, 2, "]") = Size(w) + 1
  <2>1. \A j \in 1 .. Size(w) : Char(w, j) # "[" /\ Char(w, j) # "]"  BY DEF Size, Char
  <2>2. 1 \in Nat /\ 2 \in Nat /\ 1 <= 1 /\ 1 <= 2  OBVIOUS
  <2> QED  BY <2>1, <2>2, NoFirst
<1>3. FirstAt(w, 1, LAMBDA c : c = "[") = Size(w) + 1 /\ FirstAt(w, 2, LAMBDA c : c = "]") = Size(w) + 1
  BY <1>2 DEF FirstOf, FirstAt
<1>4. Size(w) + 1 > Len(w)
  <2>1. Len(w) \in Nat  BY DEF Text
  <2> QED  BY <2>1 DEF Size
<1>5. parse_optional_key_prefix(w) = k  BY <1>3, <1>4 DEF parse_optional_key_prefix
<1>6. ~Failed(k) /\ k.at = 1  BY DEF Failed
<1> HIDE DEF k
<1> DEFINE close == Size(w) + 1
<1>7. FirstAt(w, k.at + 1, LAMBDA c : c = "]") = close
  <2>1. k.at + 1 = 2  BY <1>6
  <2> QED  BY <1>3, <2>1
<1>8. close > Len(w)  BY <1>4
<1> HIDE DEF close
<1>9. PICK b : parse_array_header(w) = HeaderFrom(w, k, close, b)
  BY <1>5, <1>6, <1>7 DEF parse_array_header, IfRead
<1>10. HeaderFrom(w, k, close, b) = NotHeader  BY <1>8 DEF HeaderFrom
<1> QED  BY <1>1, <1>9, <1>10

\* A primitive on a line of its own, at the root or as an item of a list, is
\* not taken for something else: whatever colons and brackets a string holds,
\* what encode_primitive wrote is no key-value line, and parse_array_header
\* finds no header in it and reports no error.
THEOREM PrimitiveIsNoField ==
  ASSUME NEW v, Primitive(v), NEW delim
  PROVE  /\ ~is_key_value_line(encode_primitive(v, delim))
         /\ parse_array_header(encode_primitive(v, delim)) = NotHeader
  BY PrimitiveShape, QuotedAlone, PlainAlone

\* What is written for a primitive begins and ends with no blank.
LEMMA PrimitiveEnds ==
  ASSUME NEW v, Primitive(v), NEW delim, NEW w, w = encode_primitive(v, delim)
  PROVE  w \in Text /\ w # <<>> /\ w[1] \notin Blank /\ w[Len(w)] \notin Blank
<1>1. ASSUME NEW s \in Text, v = Str(s)
      PROVE  w \in Text /\ w # <<>> /\ w[1] \notin Blank /\ w[Len(w)] \notin Blank
  <2>1. Str(s).kind = "string" /\ Str(s).text = s  BY DEF Str
  <2>2. CASE needs_quoting(s, delim)
    <3>1. w = quote_string(s)  BY <1>1, <2>1, <2>2 DEF encode_primitive
    <3> QED  BY <3>1, QuotedEnds, QuoteIsNoStart
  <2>3. CASE ~needs_quoting(s, delim)
    <3>1. w = s  BY <1>1, <2>1, <2>3 DEF encode_primitive
    <3> QED  BY <2>3, <3>1 DEF needs_quoting, IsBlank, Last
  <2> QED  BY <2>2, <2>3
<1>2. ASSUME NEW s \in Text, Canonical(s), v = Num(s)
      PROVE  w \in Text /\ w # <<>> /\ w[1] \notin Blank /\ w[Len(w)] \notin Blank
  <2>1. Num(s).kind = "number" /\ Num(s).text = s  BY DEF Num
  <2>2. w = s  BY <1>2, <2>1 DEF encode_primitive
  <2> QED  BY <1>2, <2>2, CanonicalFacts, PlainMarks
<1>3. ASSUME NEW s \in Reserved, v = Lit(s)
      PROVE  w \in Text /\ w # <<>> /\ w[1] \notin Blank /\ w[Len(w)] \notin Blank
  <2> DEFINE L == {"t", "r", "u", "e", "f", "a", "l", "s", "n"}
  <2>1. Lit(s).kind = "literal" /\ Lit(s).text = s  BY DEF Lit
  <2>2. w = s  BY <1>3, <2>1 DEF encode_primitive
  <2>3. s \in Text /\ s # <<>> /\ \A i \in 1 .. Len(s) : s[i] \in L  BY ReservedFacts
  <2>4. \A c \in L : c \notin Blank  BY PlainMarks
  <2> HIDE DEF L
  <2>5. 1 \in 1 .. Len(s) /\ Len(s) \in 1 .. Len(s)  BY <2>3 DEF Text
  <2> QED  BY <2>2, <2>3, <2>4, <2>5
<1> QED  BY <1>1, <1>2, <1>3 DEF Primitive

\* A blank before a text is trimmed, and nothing else.
LEMMA BlankIsTrimmed ==
  ASSUME NEW c \in Blank, NEW w \in Text, w # <<>>, w[1] \notin Blank, w[Len(w)] \notin Blank
  PROVE  Trim(<<c>> \o w) = w
<1> DEFINE r == <<c>> \o w
           S == {n \in 1 .. Len(r) : r[n] \notin Blank} \cup {Len(r) + 1}
<1>1. c \in Character  BY Named DEF Mark
<1>2. /\ r \in Text /\ r[1] = c /\ From(r, 2) = w /\ Len(r) = 1 + Len(w) /\ Len(w) \in Nat
      /\ Len(w) >= 1
  BY <1>1, HeadFacts DEF Text
<1>3. r[2] = w[1]  BY <1>1, <1>2 DEF Text
<1>4. TrimStart(r) = From(r, Min(S))  BY DEF TrimStart, FirstAt
<1> HIDE DEF r
<1>5. S \in SUBSET Nat /\ 2 \in S /\ \A i \in S : 2 <= i
  <2>1. S \in SUBSET Nat /\ 2 \in 1 .. Len(r)  BY <1>2
  <2>2. \A i \in S : i \in Nat /\ i >= 1 /\ i # 1  BY <1>2
  <2>3. \A i \in S : 2 <= i  BY <2>2
  <2> QED  BY <1>3, <2>1, <2>3
<1> HIDE DEF S
<1>6. Min(S) = 2  BY <1>5, LeastIs
<1>7. TrimStart(r) = w  BY <1>2, <1>4, <1>6
<1>8. TrimEnd(w) = w  BY TrimEndKeeps
<1> QED  BY <1>7, <1>8 DEF Trim, r

\* Before a colon that comes before every bracket there is no header's key.
LEMMA NoPrefixAtColon ==
  ASSUME NEW w \in Text, w[1] # Quote, NEW m \in 1 .. Len(w), w[m] = ":",
         \A i \in 1 .. Len(w) : i <= m => w[i] # "["
  PROVE  parse_array_header(w) = NotHeader
<1> DEFINE k == [keyed |-> FALSE, quoted |-> FALSE, key |-> <<>>, at |-> 1]
           S == {n \in 1 .. Len(w) : w[n] = "["} \cup {Len(w) + 1}
<1>1. Len(w) \in Nat /\ w # <<>> /\ m \in Nat /\ 1 \in 1 .. Len(w)  BY DEF Text
<1>2. S \in SUBSET Nat /\ S # {}  BY <1>1
<1>3. \A n \in S : n > m /\ n \in 1 .. Len(w) + 1
  <2>1. SUFFICES ASSUME NEW n \in S PROVE n > m /\ n \in 1 .. Len(w) + 1  OBVIOUS
  <2>2. CASE n \in 1 .. Len(w) /\ w[n] = "["  BY <1>1, <2>2
  <2>3. CASE n = Len(w) + 1  BY <1>1, <2>3
  <2> QED  BY <2>2, <2>3
<1>4. FirstAt(w, 1, LAMBDA c : c = "[") = Min(S)  BY DEF FirstAt
<1> HIDE DEF S
<1>5. PICK b \in S : \A n \in S : b <= n  BY <1>2, Least
<1>6. Min(S) = b  BY <1>2, <1>5, LeastIs
<1>7. b > m /\ b \in 1 .. Len(w) + 1  BY <1>3
<1>8. ~is_unquoted_key(Before(w, b))
  <2> DEFINE t == Before(w, b)
  <2>1. b \in 1 .. Size(w) + 1 /\ m \in 1 .. b - 1  BY <1>1, <1>7 DEF Size
  <2>2. t \in Text /\ Size(t) = b - 1 /\ Char(t, m) = Char(w, m)  BY <2>1, BeforeIs
  <2> HIDE DEF t
  <2>3. m \in DOMAIN t /\ t[m] = ":"
    <3>1. DOMAIN t = 1 .. Size(t)  BY <2>2, Places
    <3> QED  BY <2>1, <2>2, <3>1 DEF Char
  <2>4. ~Letter(":") /\ ":" \notin Digit \cup {"."}  BY Separators
  <2> QED  BY <2>3, <2>4 DEF is_unquoted_key, t
<1>9. parse_optional_key_prefix(w) = k
  BY <1>1, <1>4, <1>6, <1>8 DEF parse_optional_key_prefix
<1>10. ~Failed(k) /\ k.at = 1  BY DEF Failed
<1> HIDE DEF k
<1>11. PICK close, br : parse_array_header(w) = HeaderFrom(w, k, close, br)
  BY <1>9, <1>10 DEF parse_array_header, IfRead
<1>12. w[k.at] # "["  BY <1>1, <1>10
<1>13. HeaderFrom(w, k, close, br) = NotHeader  BY <1>12 DEF HeaderFrom
<1> QED  BY <1>11, <1>13

\* Where the parts of a text put together are.
LEMMA PartsAre ==
  ASSUME NEW a \in Text, a # <<>>, NEW b \in Text, b # <<>>, NEW w, w = a \o b
  PROVE  /\ w \in Text /\ w # <<>> /\ Len(w) = Len(a) + Len(b)
         /\ Len(a) \in Nat /\ 1 <= Len(a) /\ Len(b) \in Nat /\ 1 <= Len(b)
         /\ \A i \in 1 .. Len(a) : w[i] = a[i]
         /\ w[1] = a[1] /\ w[Len(a) + 1] = b[1]
<1>1. w \in Text /\ Len(w) = Len(a) + Len(b)  BY Concat DEF Text
<1>2. Len(a) \in Nat /\ 1 <= Len(a) /\ Len(b) \in Nat /\ 1 <= Len(b)  BY DEF Text
<1>3. w # <<>>  BY <1>1, <1>2
<1>4. \A i \in 1 .. Len(a) : w[i] = a[i]  BY DEF Text
<1>5. w[Len(a) + 1] = b[1]  BY <1>2 DEF Text
<1>6. w[1] = a[1]  BY <1>2, <1>4
<1> QED  BY <1>1, <1>2, <1>3, <1>4, <1>5, <1>6

\* The colon and the blank after a key.
LEMMA ColonSpace ==
  ASSUME NEW c \in Character, NEW d \in Character
  PROVE  <<c, d>> = <<c>> \o <<d>>
<1>1. <<c, d>> \in Seq(Character) /\ <<c>> \in Seq(Character) /\ <<d>> \in Seq(Character)
  OBVIOUS
<1>2. Len(<<c, d>>) = 2 /\ Len(<<c>> \o <<d>>) = 2  BY <1>1
<1>3. \A i \in 1 .. 2 : <<c, d>>[i] = (<<c>> \o <<d>>)[i]
  <2>1. <<c, d>>[1] = (<<c>> \o <<d>>)[1]  BY <1>1
  <2>2. <<c, d>>[2] = (<<c>> \o <<d>>)[2]  BY <1>1
  <2> QED  BY <2>1, <2>2
<1>4. <<c>> \o <<d>> \in Seq(Character)  BY <1>1
<1> QED  BY <1>1, <1>2, <1>3, <1>4, SeqEqual

\* A key with a colon after it is a key-value line, and no header.
LEMMA KeyIsNoHeader ==
  ASSUME NEW s \in Text, NEW r \in Text, r # <<>>, r[1] = ":", NEW w, w = encode_key(s) \o r
  PROVE  is_key_value_line(w) /\ parse_array_header(w) = NotHeader
<1>1. Len(r) \in Nat /\ Len(r) >= 1  BY DEF Text
<1>2. CASE is_unquoted_key(s)
  <2>1. w = s \o r  BY <1>2 DEF encode_key
  <2>2. s # <<>> /\ Letter(s[1]) /\ \A i \in DOMAIN s : Letter(s[i]) \/ s[i] \in Digit \cup {"."}
    BY <1>2 DEF is_unquoted_key
  <2> DEFINE m == Len(s) + 1
  <2>3. /\ w \in Text /\ w # <<>> /\ Len(w) = Len(s) + Len(r) /\ Len(s) \in Nat /\ 1 <= Len(s)
        /\ \A i \in 1 .. Len(s) : w[i] = s[i]
        /\ w[m] = ":"
    <3>1. w[Len(s) + 1] = r[1]  BY <1>1, <2>1, <2>2, PartsAre
    <3>2. w \in Text /\ w # <<>>
      <4>1. w \in Text  BY <2>1, Concat
      <4>2. w # <<>>  BY <1>1, <2>1, <2>2, PartsAre
      <4> QED  BY <4>1, <4>2
    <3>3. Len(w) = Len(s) + Len(r)  BY <1>1, <2>1, <2>2, PartsAre
    <3>4. Len(s) \in Nat /\ 1 <= Len(s)  BY <1>1, <2>1, <2>2, PartsAre
    <3>5. \A i \in 1 .. Len(s) : w[i] = s[i]  BY <1>1, <2>1, <2>2, PartsAre
    <3> QED  BY <1>1, <3>1, <3>2, <3>3, <3>4, <3>5
  <2>4. w[1] # Quote
    <3>1. s[1] # Quote  BY <2>2, PlainInKey
    <3> QED  BY <2>3, <3>1
  <2>5. \A i \in 1 .. Len(s) : s[i] # "["
    <3>1. "[" \notin Digit \cup {"."} /\ ~Letter("[")  BY Separators
    <3>2. DOMAIN s = 1 .. Len(s)  BY DEF Text
    <3> QED  BY <2>2, <3>1, <3>2
  <2>6. m \in 1 .. Len(w) /\ \A i \in 1 .. Len(w) : i <= m => i \in 1 .. Len(s) \/ i = m
    BY <1>1, <2>3
  <2> HIDE DEF m
  <2>7. \A i \in 1 .. Len(w) : i <= m => w[i] # "["  BY <2>3, <2>5, <2>6
  <2>8. parse_array_header(w) = NotHeader  BY <2>3, <2>4, <2>6, <2>7, NoPrefixAtColon
  <2>9. is_key_value_line(w)  BY <2>3, <2>4, <2>6 DEF is_key_value_line, Contains
  <2> QED  BY <2>8, <2>9
<1>3. CASE ~is_unquoted_key(s)
  <2> DEFINE q == quote_string(s)
             p == [text |-> s, end |-> Len(q)]
             k == [keyed |-> TRUE, quoted |-> TRUE, key |-> s, at |-> Len(q) + 1]
  <2>1. w = q \o r  BY <1>3 DEF encode_key
  <2>2. q \in Text /\ q # <<>> /\ q[1] = Quote  BY QuotedEnds
  <2>3. parse_quoted(w) = p  BY <1>1, <2>1, QuotedIsRead
  <2>4. parse_optional_key_prefix(w) = k  BY <1>1, <2>1, QuotedPrefix
  <2>5. ~Failed(p) /\ p.end = Len(q) /\ ~Failed(k) /\ k.at = Len(q) + 1  BY DEF Failed
  <2> HIDE DEF q, p, k
  <2>6. /\ Len(q) \in Nat /\ Len(w) = Len(q) + Len(r) /\ w[1] = Quote /\ w # <<>>
        /\ w[Len(q) + 1] = ":"
    <3>1. w[Len(q) + 1] = r[1]  BY <1>1, <2>1, <2>2, PartsAre
    <3>2. w # <<>> /\ Len(w) = Len(q) + Len(r)  BY <1>1, <2>1, <2>2, PartsAre
    <3>3. Len(q) \in Nat  BY <1>1, <2>1, <2>2, PartsAre
    <3>4. w[1] = q[1]  BY <1>1, <2>1, <2>2, PartsAre
    <3> QED  BY <1>1, <2>2, <3>1, <3>2, <3>3, <3>4
  <2>7. is_key_value_line(w)  BY <1>1, <2>3, <2>5, <2>6 DEF is_key_value_line
  <2>8. PICK close, b : parse_array_header(w) = HeaderFrom(w, k, close, b)
    BY <2>4, <2>5 DEF parse_array_header, IfRead
  <2>9. w[k.at] # "["  BY <2>5, <2>6
  <2>10. HeaderFrom(w, k, close, b) = NotHeader  BY <2>9 DEF HeaderFrom
  <2> QED  BY <2>7, <2>8, <2>10
<1> QED  BY <1>2, <1>3

\* A field is read back: the line encode_field_at writes for a primitive is a
\* key-value line and no header, parse_key gives its key and what follows the
\* colon, and parse_primitive_token makes of that the value, whatever colons,
\* brackets and quotes key and value hold.
THEOREM FieldIsRead ==
  ASSUME NEW s \in Text, NEW v, Primitive(v), NEW delim,
         NEW line, line = encode_key(s) \o <<":", " ">> \o encode_primitive(v, delim)
  PROVE  /\ is_key_value_line(line) /\ parse_array_header(line) = NotHeader
         /\ parse_key(line).key = s /\ parse_key(line).quoted = ~is_unquoted_key(s)
         /\ parse_primitive_token(parse_key(line).rest) = v
<1> DEFINE K == encode_key(s)
           w == encode_primitive(v, delim)
           colon == <<":">>
           space == <<" ">>
           rest == space \o w
<1>1. w \in Text /\ w # <<>> /\ w[1] \notin Blank /\ w[Len(w)] \notin Blank  BY PrimitiveEnds
<1>2. parse_primitive_token(w) = v  BY PrimitiveIsRead
<1>3. K \in Text  BY QuotedEnds DEF encode_key
<1>4. colon \in Text /\ space \in Text
  <2>1. ":" \in Character /\ " " \in Character  BY Named
  <2> QED  BY <2>1, One
<1>5. line = K \o (colon \o space) \o w
  <2>1. ":" \in Character /\ " " \in Character  BY Named
  <2>2. <<":", " ">> = colon \o space  BY <2>1, ColonSpace
  <2> QED  BY <2>2
<1>6. " " \in Blank  BY DEF Blank
<1> HIDE DEF K, w
<1>7. Trim(rest) = w  BY <1>1, <1>6, BlankIsTrimmed
<1> HIDE DEF colon, space
<1>8. rest \in Text  BY <1>1, <1>4, Concat
<1>9. line = K \o (colon \o rest) /\ line = K \o colon \o rest
  <2>1. K \o (colon \o space) \in Text /\ colon \o space \in Text /\ K \o colon \in Text
    BY <1>3, <1>4, Concat
  <2>2. (K \o (colon \o space)) \o w = K \o ((colon \o space) \o w)  BY <1>1, <1>3, <2>1, Assoc
  <2>3. (colon \o space) \o w = colon \o (space \o w)  BY <1>1, <1>4, Assoc
  <2>4. (K \o colon) \o rest = K \o (colon \o rest)  BY <1>3, <1>4, <1>8, Assoc
  <2> QED  BY <1>5, <2>2, <2>3, <2>4
<1>10. Trim(w) = w  BY <1>1, TrimKeeps
<1>11. parse_primitive_token(rest) = parse_primitive_token(w)
  <2> HIDE DEF rest
  <2> QED  BY <1>7, <1>10 DEF parse_primitive_token
<1> HIDE DEF rest
<1>12. is_key_value_line(line) /\ parse_array_header(line) = NotHeader
  <2>1. colon \o rest \in Text /\ colon \o rest # <<>> /\ (colon \o rest)[1] = ":"
    <3>1. ":" \in Character  BY Named
    <3> QED  BY <1>8, <3>1, HeadFacts DEF colon
  <2> QED  BY <1>9, <2>1, KeyIsNoHeader DEF K
<1> DEFINE p == [key |-> s, quoted |-> ~is_unquoted_key(s), rest |-> rest]
<1>13. parse_key(line) = p
  <2>1. parse_key(K \o colon \o rest) = p  BY <1>8, KeyIsRead DEF K, colon
  <2> QED  BY <1>9, <2>1
<1>14. p.key = s /\ p.rest = rest  OBVIOUS
<1>15. p.quoted = ~is_unquoted_key(s)  BY Zenon
<1> HIDE DEF p
<1>16. parse_key(line).key = s /\ parse_key(line).rest = rest  BY <1>13, <1>14
<1>17. parse_key(line).quoted = ~is_unquoted_key(s)  BY <1>13, <1>15, Zenon
<1>18. parse_primitive_token(parse_key(line).rest) = v  BY <1>2, <1>11, <1>16
<1> QED  BY <1>12, <1>16, <1>17, <1>18

=============================================================================
