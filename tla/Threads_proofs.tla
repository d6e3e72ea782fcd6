--------------------------- MODULE Threads_proofs ---------------------------
(***************************************************************************)
(* Proofs about Threads, for any number of peers, scripts and socket       *)
(* buffers: handlers run one at a time and no client outlives its thread   *)
(* (Discipline), no line is torn, lost or out of order (Lines), and the    *)
(* threads implement LineLog.                                              *)
(***************************************************************************)
EXTENDS Threads, SequenceTheorems, WellFoundedInduction, TLAPS

Piece == Line \cup {Crlf}

\* An entry of the log.
Entry == [line : Line, to : SUBSET Peer]

-----------------------------------------------------------------------------
(* Induction over the naturals, for a set instead of a predicate. *)

LEMMA Least ==
  ASSUME NEW T \in SUBSET Nat, T # {}
  PROVE  \E m \in T : \A n \in T : m <= n
<1> DEFINE R == OpToRel(<, Nat)
<1>1. IsWellFoundedOn(R, Nat)  BY NatLessThanWellFounded
<1>2. \A m, n \in Nat : n < m => <<n, m>> \in R  BY DEF OpToRel
<1> HIDE DEF R
<1>3. PICK m \in T : \A n \in T : ~ (<<n, m>> \in R)  BY <1>1, WFMin
<1>4. \A n \in T : ~(n < m)  BY <1>2, <1>3
<1> QED  BY <1>4

LEMMA Induct ==
  ASSUME NEW T \in SUBSET Nat, 0 \in T, \A n \in T : n + 1 \in T
  PROVE  T = Nat
<1>1. SUFFICES ASSUME Nat \ T # {} PROVE FALSE  OBVIOUS
<1>2. PICK m \in Nat \ T : \A n \in Nat \ T : m <= n  BY <1>1, Least
<1>3. m - 1 \in T  BY <1>2
<1> QED  BY <1>2, <1>3

-----------------------------------------------------------------------------
(* The lines meant for a peer: what the recursive function in For computes. *)

Filters(f, l, p) ==
  f = [n \in 0 .. Len(l) |->
         IF n = 0 THEN <<>>
         ELSE IF p \in l[n].to THEN Append(f[n - 1], l[n].line)
         ELSE f[n - 1]]

Filtered(l, p) == (CHOOSE f : Filters(f, l, p))[Len(l)]

LEMMA ForIsFiltered == \A p : Log!For(p) = Filtered(log, p)
  BY DEF Log!For, Filtered, Filters

LEMMA FilterAt ==
  ASSUME NEW l \in Seq(Entry), NEW p, NEW f, Filters(f, l, p)
  PROVE  /\ f[0] = <<>>
         /\ \A n \in 1 .. Len(l) :
              f[n] = IF p \in l[n].to THEN Append(f[n - 1], l[n].line) ELSE f[n - 1]
<1> DEFINE R(n) == IF n = 0 THEN <<>>
                   ELSE IF p \in l[n].to THEN Append(f[n - 1], l[n].line)
                   ELSE f[n - 1]
<1>1. f = [n \in 0 .. Len(l) |-> R(n)]  BY DEF Filters
<1> HIDE DEF R
<1>2. \A n \in 0 .. Len(l) : f[n] = R(n)  BY <1>1
<1>3. \A n \in 1 .. Len(l) : n \in 0 .. Len(l) /\ n # 0 /\ 0 \in 0 .. Len(l)  OBVIOUS
<1>4. Len(l) \in Nat  OBVIOUS
<1> QED  BY <1>2, <1>3, <1>4 DEF R

LEMMA FilterStep ==
  ASSUME NEW l \in Seq(Entry), NEW p, NEW f, Filters(f, l, p), NEW e \in Entry
  PROVE  LET k == Len(l) + 1
             g == [n \in 0 .. k |->
                     IF n < k THEN f[n]
                     ELSE IF p \in e.to THEN Append(f[k - 1], e.line) ELSE f[k - 1]]
         IN Filters(g, Append(l, e), p)
<1> DEFINE k == Len(l) + 1
           g == [n \in 0 .. k |->
                  IF n < k THEN f[n]
                  ELSE IF p \in e.to THEN Append(f[k - 1], e.line) ELSE f[k - 1]]
           a == Append(l, e)
<1>1. /\ Len(l) \in Nat /\ Len(a) = k
      /\ a[k] = e
      /\ \A n \in 1 .. Len(l) : a[n] = l[n]
  BY AppendProperties
<1>2. \A n \in 0 .. k :
        g[n] = IF n = 0 THEN <<>>
               ELSE IF p \in a[n].to THEN Append(g[n - 1], a[n].line)
               ELSE g[n - 1]
  <2> TAKE n \in 0 .. k
  <2>0. f[0] = <<>>  BY FilterAt
  <2>1. CASE n = 0  BY <2>1, <2>0, <1>1
  <2>2. CASE n = k  BY <2>2, <1>1
  <2>3. CASE n \in 1 .. Len(l)
    <3>1. f[n] = IF p \in l[n].to THEN Append(f[n - 1], l[n].line) ELSE f[n - 1]
      BY <2>3, FilterAt
    <3>2. g[n] = f[n] /\ g[n - 1] = f[n - 1]  BY <2>3, <1>1
    <3> QED  BY <2>3, <3>1, <3>2, <1>1
  <2> QED  BY <2>1, <2>2, <2>3, <1>1
<1> HIDE DEF g, a
<1>3. g = [n \in 0 .. k |-> g[n]]  BY DEF g
<1>4. Filters(g, a, p)  BY <1>1, <1>2, <1>3 DEF Filters
<1> QED  BY <1>4 DEF g, a

LEMMA FilterExists ==
  ASSUME NEW p, NEW l \in Seq(Entry)
  PROVE  \E f : Filters(f, l, p)
<1> DEFINE T == {n \in Nat : \A s \in Seq(Entry) : Len(s) = n => \E f : Filters(f, s, p)}
<1>1. 0 \in T
  <2>1. SUFFICES ASSUME NEW s \in Seq(Entry), Len(s) = 0 PROVE \E f : Filters(f, s, p)
    OBVIOUS
  <2>2. Filters([n \in 0 .. Len(s) |-> <<>>], s, p)  BY <2>1 DEF Filters
  <2> QED  BY <2>2
<1>2. ASSUME NEW n \in T PROVE n + 1 \in T
  <2>1. SUFFICES ASSUME NEW s \in Seq(Entry), Len(s) = n + 1 PROVE \E f : Filters(f, s, p)
    OBVIOUS
  <2>2. PICK r \in Seq(Entry), e \in Entry : s = Append(r, e) /\ Len(r) = n
    <3> DEFINE r == SubSeq(s, 1, n)
    <3>1. r \in Seq(Entry) /\ s[n + 1] \in Entry /\ Len(r) = n /\ s = Append(r, s[n + 1])
      BY <2>1
    <3> QED  BY <3>1
  <2>3. PICK f : Filters(f, r, p)  BY <2>2
  <2> QED  BY <2>2, <2>3, FilterStep
<1> HIDE DEF T
<1>3. T = Nat  BY <1>1, <1>2, Induct DEF T
<1>4. Len(l) \in T  BY <1>3
<1> QED  BY <1>4 DEF T

LEMMA FilterUnique ==
  ASSUME NEW p, NEW l \in Seq(Entry), NEW f, NEW g, Filters(f, l, p), Filters(g, l, p)
  PROVE  f = g
<1> DEFINE T == {n \in Nat : n <= Len(l) => f[n] = g[n]}
<1>1. 0 \in T  BY FilterAt
<1>2. ASSUME NEW n \in T PROVE n + 1 \in T
  <2>1. SUFFICES ASSUME n + 1 <= Len(l) PROVE f[n + 1] = g[n + 1]  OBVIOUS
  <2>2. n + 1 \in 1 .. Len(l) /\ (n + 1) - 1 = n /\ f[n] = g[n]  BY <2>1
  <2> QED  BY <2>2, FilterAt
<1> HIDE DEF T
<1>3. T = Nat  BY <1>1, <1>2, Induct DEF T
<1>4. \A n \in 0 .. Len(l) : f[n] = g[n]  BY <1>3 DEF T
<1>5. f = [n \in 0 .. Len(l) |-> f[n]] /\ g = [n \in 0 .. Len(l) |-> g[n]]  BY DEF Filters
<1> HIDE DEF Filters
<1> QED  BY ONLY <1>4, <1>5

\* An entry at the end of the log is one more line for those it is meant for,
\* and nothing for the others.
LEMMA FilteredAppend ==
  ASSUME NEW l \in Seq(Entry), NEW e \in Entry, NEW p
  PROVE  Filtered(Append(l, e), p) =
           IF p \in e.to THEN Append(Filtered(l, p), e.line) ELSE Filtered(l, p)
<1> DEFINE f == CHOOSE h : Filters(h, l, p)
           k == Len(l) + 1
           g == [n \in 0 .. k |->
                  IF n < k THEN f[n]
                  ELSE IF p \in e.to THEN Append(f[k - 1], e.line) ELSE f[k - 1]]
           c == CHOOSE h : Filters(h, Append(l, e), p)
<1>1. Filters(f, l, p)  BY FilterExists
<1>2. Filters(g, Append(l, e), p)  BY <1>1, FilterStep
<1>3. Filters(c, Append(l, e), p)  BY <1>2
<1>4. Append(l, e) \in Seq(Entry) /\ Len(Append(l, e)) = k /\ k \in Nat /\ k - 1 = Len(l)
  BY AppendProperties
<1>5. c = g  BY <1>2, <1>3, <1>4, FilterUnique
<1> HIDE DEF f, c
<1>6. g[k] = IF p \in e.to THEN Append(f[Len(l)], e.line) ELSE f[Len(l)]  BY <1>4
<1>7. Filtered(l, p) = f[Len(l)]  BY DEF Filtered, f
<1>8. Filtered(Append(l, e), p) = c[k]  BY <1>4 DEF Filtered, c
<1> QED  BY ONLY <1>5, <1>6, <1>7, <1>8

LEMMA FilteredEmpty == \A p : Filtered(<<>>, p) = <<>>
<1> TAKE p
<1> DEFINE c == CHOOSE h : Filters(h, <<>>, p)
<1>1. <<>> \in Seq(Entry)  OBVIOUS
<1>2. Filters(c, <<>>, p)  BY <1>1, FilterExists
<1> QED  BY <1>2 DEF Filters, Filtered

LEMMA FilteredType ==
  ASSUME NEW l \in Seq(Entry), NEW p
  PROVE  Filtered(l, p) \in Seq(Line)
<1> DEFINE f == CHOOSE h : Filters(h, l, p)
           T == {n \in Nat : n <= Len(l) => f[n] \in Seq(Line)}
<1>1. Filters(f, l, p)  BY FilterExists
<1> HIDE DEF f
<1>2. 0 \in T
  <2>1. f[0] = <<>> /\ <<>> \in Seq(Line)  BY <1>1, FilterAt

  <2> QED  BY <2>1
<1>3. ASSUME NEW n \in T PROVE n + 1 \in T
  <2>1. SUFFICES ASSUME n + 1 <= Len(l) PROVE f[n + 1] \in Seq(Line)  OBVIOUS
  <2>2. n + 1 \in 0 .. Len(l) /\ n + 1 # 0 /\ (n + 1) - 1 = n /\ f[n] \in Seq(Line)  BY <2>1
  <2>3. n + 1 \in 1 .. Len(l) /\ l[n + 1] \in Entry  BY <2>1
  <2>4. l[n + 1].line \in Line
    <3>1. \A e \in Entry : e.line \in Line  BY DEF Entry
    <3> QED  BY <2>3, <3>1
  <2>5. f[n + 1] = IF p \in l[n + 1].to THEN Append(f[n], l[n + 1].line) ELSE f[n]
    BY <1>1, <2>2, <2>3, FilterAt
  <2> QED  BY <2>2, <2>4, <2>5
<1> HIDE DEF T
<1>4. T = Nat  BY <1>2, <1>3, Induct DEF T
<1>5. f[Len(l)] \in Seq(Line)  BY <1>4 DEF T
<1> QED  BY <1>5 DEF f, Filtered
-----------------------------------------------------------------------------
(* Pieces. *)

LEMMA CrlfIsNoLine == \A l \in Line : l # Crlf
  BY ThreadAssumption DEF Line

-----------------------------------------------------------------------------
(* The member list. *)

LEMMA RemoveFirstFacts ==
  ASSUME NEW S, NEW s \in Seq(S), IsInjective(s), NEW e
  PROVE  /\ RemoveFirst(s, e) \in Seq(S) /\ IsInjective(RemoveFirst(s, e))
         /\ Range(RemoveFirst(s, e)) = Range(s) \ {e}
<1>1. CASE ~ \E i \in 1 .. Len(s) : s[i] = e
  BY <1>1 DEF RemoveFirst, Range
<1>2. CASE \E i \in 1 .. Len(s) : s[i] = e
  <2>1. PICK i \in 1 .. Len(s) : s[i] = e  BY <1>2
  <2> DEFINE I == {j \in 1 .. Len(s) : s[j] = e}
             u == SubSeq(s, 1, i - 1)
             v == SubSeq(s, i + 1, Len(s))
             r == u \o v
  <2>2. I = {i}  BY <2>1 DEF IsInjective
  <2>3. SelectInSeq(s, LAMBDA x : x = e) = i
    BY <2>1, <2>2 DEF SelectInSeq, Min
  <2>4. RemoveFirst(s, e) = r  BY <1>2, <2>3 DEF RemoveFirst, RemoveAt
  <2>5. /\ r \in Seq(S) /\ Len(r) = Len(s) - 1
        /\ \A j \in 1 .. Len(r) : r[j] = IF j < i THEN s[j] ELSE s[j + 1]
    <3>1. /\ Len(s) \in Nat /\ i \in Nat
          /\ u \in Seq(S) /\ Len(u) = i - 1 /\ \A j \in 1 .. i - 1 : u[j] = s[j]
      BY <2>1
    <3>2. /\ v \in Seq(S) /\ Len(v) = Len(s) - i
          /\ \A j \in 1 .. Len(s) - i : v[j] = s[j + i]
      BY <2>1
    <3> HIDE DEF u, v
    <3>3. /\ r \in Seq(S) /\ Len(r) = Len(u) + Len(v)
          /\ \A j \in 1 .. Len(u) + Len(v) : r[j] = IF j <= Len(u) THEN u[j] ELSE v[j - Len(u)]
      BY <3>1, <3>2, ConcatProperties
    <3> QED  BY <2>1, <3>1, <3>2, <3>3
  <2> HIDE DEF r
  <2>6. IsInjective(r)  BY <2>1, <2>5 DEF IsInjective
  <2>7. Range(r) \subseteq Range(s) \ {e}  BY <2>1, <2>5 DEF IsInjective, Range
  <2>8. ASSUME NEW j \in 1 .. Len(s), s[j] # e PROVE \E k \in 1 .. Len(r) : r[k] = s[j]
    <3>1. CASE j < i  BY <3>1, <2>1, <2>5
    <3>2. CASE j > i
      <4>1. j - 1 \in 1 .. Len(r) /\ r[j - 1] = s[j]  BY <3>2, <2>1, <2>5
      <4> QED  BY <4>1
    <3>3. j # i  BY <2>1, <2>8
    <3> QED  BY <3>1, <3>2, <3>3, <2>1
  <2>9. Range(s) \ {e} \subseteq Range(r)
    <3>1. DOMAIN s = 1 .. Len(s) /\ DOMAIN r = 1 .. Len(r)  BY <2>5
    <3> QED  BY <3>1, <2>8 DEF Range
  <2> QED  BY <2>4, <2>5, <2>6, <2>7, <2>9
<1> QED  BY <1>1, <1>2

LEMMA ConsInjective ==
  ASSUME NEW S, NEW s \in Seq(S), IsInjective(s), NEW e \in S, e \notin Range(s)
  PROVE  <<e>> \o s \in Seq(S) /\ IsInjective(<<e>> \o s)
<1> DEFINE r == <<e>> \o s
<1>1. r \in Seq(S) /\ Len(r) = Len(s) + 1 /\ r[1] = e /\ \A i \in 2 .. Len(r) : r[i] = s[i - 1]
  OBVIOUS
<1> HIDE DEF r
<1>2. \A i \in 2 .. Len(r) : r[i] # e  BY <1>1 DEF Range
<1>3. IsInjective(r)  BY <1>1, <1>2 DEF IsInjective
<1> QED  BY <1>1, <1>3 DEF r

LEMMA MembersAfterFacts ==
  ASSUME members \in Seq(Peer), IsInjective(members), NEW p \in Peer, NEW cmd
  PROVE  MembersAfter(p, cmd) \in Seq(Peer) /\ IsInjective(MembersAfter(p, cmd))
<1>1. CASE cmd = "JOIN" /\ p \in clients /\ ~Contains(members, p)
  <2>1. /\ Append(members, p) \in Seq(Peer) /\ Len(Append(members, p)) = Len(members) + 1
        /\ \A i \in 1 .. Len(members) : Append(members, p)[i] = members[i]
        /\ Append(members, p)[Len(members) + 1] = p
    BY AppendProperties
  <2>2. \A i \in 1 .. Len(members) : members[i] # p  BY <1>1 DEF Contains
  <2>3. IsInjective(Append(members, p))  BY <2>1, <2>2 DEF IsInjective
  <2> QED  BY <1>1, <2>1, <2>3 DEF MembersAfter
<1>2. CASE cmd = "QUIT"  BY <1>2, RemoveFirstFacts DEF MembersAfter
<1> QED  BY <1>1, <1>2 DEF MembersAfter

LEMMA WrittenToFacts ==
  ASSUME members \in Seq(Peer), IsInjective(members), NEW p \in Peer, NEW cmd
  PROVE  WrittenTo(p, cmd) \in Seq(Peer) /\ IsInjective(WrittenTo(p, cmd))
<1> DEFINE others == RemoveFirst(members, p)
<1>1. others \in Seq(Peer) /\ IsInjective(others) /\ p \notin Range(others)
  BY RemoveFirstFacts
<1> HIDE DEF others
<1>2. <<p>> \o others \in Seq(Peer) /\ IsInjective(<<p>> \o others)  BY <1>1, ConsInjective
<1>3. /\ <<>> \in Seq(Peer) /\ IsInjective(<<>>)
      /\ <<p>> \in Seq(Peer) /\ IsInjective(<<p>>)
  BY DEF IsInjective
<1>4. WrittenTo(p, cmd) \in {<<>>, <<p>> \o others, <<p>>, others}
  BY DEF WrittenTo, others
<1> QED  BY <1>1, <1>2, <1>3, <1>4

-----------------------------------------------------------------------------
(* What a handler has still to write. *)

IsRest(s, l) ==
  /\ \A i \in 1 .. Len(s) : s[i][2] \in {l, Crlf}
  /\ \A i \in 1 .. Len(s) : s[i][2] = l => i < Len(s) /\ s[i + 1] = <<s[i][1], Crlf>>
  /\ \A i, j \in 1 .. Len(s) :
       i < j /\ s[i][1] = s[j][1] => s[i][2] = l /\ s[j][2] = Crlf

Left(s, l, q) ==
  IF Contains(s, <<q, l>>) THEN <<l, Crlf>>
  ELSE IF Contains(s, <<q, Crlf>>) THEN <<Crlf>>
  ELSE <<>>

LEMMA WritesFacts ==
  ASSUME NEW to \in Seq(Peer), IsInjective(to), NEW l \in Line
  PROVE  /\ Writes(to, l) \in Seq(Peer \X Piece)
         /\ IsRest(Writes(to, l), l)
         /\ \A q : Left(Writes(to, l), l, q) = IF q \in Range(to) THEN <<l, Crlf>> ELSE <<>>
<1> DEFINE w == Writes(to, l)
           at(n) == (n + 1) \div 2
<1>1. /\ \A n \in 1 .. 2 * Len(to) : at(n) \in 1 .. Len(to)
      /\ \A n \in 1 .. 2 * Len(to) : n % 2 = 1 => n + 1 \in 1 .. 2 * Len(to) /\ at(n + 1) = at(n) /\ (n + 1) % 2 # 1
      /\ \A m, n \in 1 .. 2 * Len(to) : m < n /\ at(m) = at(n) => m % 2 = 1 /\ n % 2 # 1
      /\ \A k \in 1 .. Len(to) : 2 * k - 1 \in 1 .. 2 * Len(to) /\ at(2 * k - 1) = k /\ (2 * k - 1) % 2 = 1
  OBVIOUS
<1>2. w = [n \in 1 .. 2 * Len(to) |-> <<to[at(n)], IF n % 2 = 1 THEN l ELSE Crlf>>]
  BY DEF Writes
<1> HIDE DEF at, w
<1>3. \A n \in 1 .. 2 * Len(to) : w[n] = <<to[at(n)], IF n % 2 = 1 THEN l ELSE Crlf>>
  BY <1>2
<1>4. \A n \in 1 .. 2 * Len(to) : w[n] \in Peer \X Piece
  <2> TAKE n \in 1 .. 2 * Len(to)
  <2>1. to[at(n)] \in Peer  BY <1>1
  <2>2. l \in Piece /\ Crlf \in Piece  BY DEF Piece
  <2> DEFINE x == IF n % 2 = 1 THEN l ELSE Crlf
  <2>3. x \in Piece /\ w[n] = <<to[at(n)], x>>  BY <1>3, <2>2
  <2> HIDE DEF x
  <2> QED  BY <2>1, <2>3
<1>5. w \in Seq(Peer \X Piece) /\ Len(w) = 2 * Len(to)  BY <1>2, <1>4
<1>6. IsRest(w, l)
  <2>1. \A n \in 1 .. Len(w) : w[n][1] = to[at(n)] /\ w[n][2] = IF n % 2 = 1 THEN l ELSE Crlf
    BY <1>3, <1>5
  <2>2. l # Crlf  BY CrlfIsNoLine
  <2>3. \A i \in 1 .. Len(w) : w[i][2] = l => i < Len(w) /\ w[i + 1] = <<w[i][1], Crlf>>
    <3> TAKE i \in 1 .. Len(w)
    <3> HAVE w[i][2] = l
    <3>1. i % 2 = 1  BY <2>1, <2>2
    <3>2. i + 1 \in 1 .. 2 * Len(to) /\ at(i + 1) = at(i) /\ (i + 1) % 2 # 1
      BY <1>1, <1>5, <3>1
    <3>3. w[i + 1] = <<to[at(i)], Crlf>> /\ w[i][1] = to[at(i)]  BY <1>3, <1>5, <2>1, <3>2
    <3> QED  BY <1>5, <3>2, <3>3
  <2>4. \A i, j \in 1 .. Len(w) : i < j /\ w[i][1] = w[j][1] => w[i][2] = l /\ w[j][2] = Crlf
    <3> TAKE i, j \in 1 .. Len(w)
    <3> HAVE i < j /\ w[i][1] = w[j][1]
    <3>1. at(i) = at(j)
      <4>1. to[at(i)] = to[at(j)] /\ at(i) \in 1 .. Len(to) /\ at(j) \in 1 .. Len(to)
        BY <1>1, <1>5, <2>1
      <4> QED  BY <4>1 DEF IsInjective
    <3> QED  BY <1>1, <1>5, <2>1, <3>1
  <2> QED  BY <2>1, <2>3, <2>4 DEF IsRest
<1>7. ASSUME NEW q PROVE Left(w, l, q) = IF q \in Range(to) THEN <<l, Crlf>> ELSE <<>>
  <2>1. CASE q \in Range(to)
    <3>1. PICK k \in 1 .. Len(to) : to[k] = q  BY <2>1 DEF Range
    <3>2. w[2 * k - 1] = <<q, l>> /\ 2 * k - 1 \in 1 .. Len(w)  BY <3>1, <1>1, <1>3, <1>5
    <3> QED  BY <2>1, <3>2 DEF Left, Contains
  <2>2. CASE q \notin Range(to)
    <3>1. \A n \in 1 .. Len(w) : w[n][1] # q  BY <2>2, <1>1, <1>3, <1>5 DEF Range
    <3> QED  BY <2>2, <3>1 DEF Left, Contains
  <2> QED  BY <2>1, <2>2
<1> QED  BY <1>5, <1>6, <1>7 DEF w

LEMMA TailFacts ==
  ASSUME NEW s \in Seq(Peer \X Piece), s # <<>>, NEW l \in Line, IsRest(s, l)
  PROVE  /\ Tail(s) \in Seq(Peer \X Piece)
         /\ IsRest(Tail(s), l)
         /\ \A q : Left(s, l, q) = IF q = Head(s)[1] THEN <<Head(s)[2]>> \o Left(Tail(s), l, q)
                                   ELSE Left(Tail(s), l, q)
<1> DEFINE t == Tail(s)
<1>1. /\ t \in Seq(Peer \X Piece) /\ Len(t) = Len(s) - 1 /\ Len(s) \in Nat \ {0}
      /\ \A i \in 1 .. Len(t) : t[i] = s[i + 1]
      /\ Head(s) = s[1] /\ s[1] \in Peer \X Piece
  OBVIOUS
<1> HIDE DEF t
<1>2. IsRest(t, l)
  <2>1. \A i \in 1 .. Len(t) : i + 1 \in 1 .. Len(s)  BY <1>1
  <2>2. \A i \in 1 .. Len(t) : t[i][2] \in {l, Crlf}  BY <1>1, <2>1 DEF IsRest
  <2>3. ASSUME NEW i \in 1 .. Len(t), t[i][2] = l
        PROVE  i < Len(t) /\ t[i + 1] = <<t[i][1], Crlf>>
    <3>1. s[i + 1][2] = l  BY <1>1, <2>3
    <3>2. i + 1 < Len(s) /\ s[(i + 1) + 1] = <<s[i + 1][1], Crlf>>
      BY <2>1, <3>1 DEF IsRest
    <3>3. i + 1 \in 1 .. Len(t)  BY <1>1, <3>2
    <3> QED  BY <1>1, <3>2, <3>3
  <2>4. \A i, j \in 1 .. Len(t) : i < j /\ t[i][1] = t[j][1] => t[i][2] = l /\ t[j][2] = Crlf
    <3> TAKE i, j \in 1 .. Len(t)
    <3> HAVE i < j /\ t[i][1] = t[j][1]
    <3>1. /\ t[i] = s[i + 1] /\ t[j] = s[j + 1] /\ i + 1 < j + 1
          /\ i + 1 \in 1 .. Len(s) /\ j + 1 \in 1 .. Len(s)
      BY <1>1, <2>1
    <3> QED  BY <3>1 DEF IsRest
  <2> QED  BY <2>2, <2>3, <2>4 DEF IsRest
<1>3. \A w : Contains(s, w) <=> w = s[1] \/ Contains(t, w)
  <2> TAKE w
  <2>1. ASSUME NEW i \in 1 .. Len(s), s[i] = w PROVE w = s[1] \/ Contains(t, w)
    <3>1. CASE i = 1  BY <2>1, <3>1
    <3>2. CASE i # 1
      <4>1. i - 1 \in 1 .. Len(t) /\ t[i - 1] = w  BY <1>1, <2>1, <3>2
      <4> QED  BY <4>1 DEF Contains
    <3> QED  BY <3>1, <3>2
  <2>2. ASSUME NEW i \in 1 .. Len(t), t[i] = w PROVE Contains(s, w)
    <3>1. i + 1 \in 1 .. Len(s) /\ s[i + 1] = w  BY <1>1, <2>2
    <3> QED  BY <3>1 DEF Contains
  <2>3. 1 \in 1 .. Len(s)  BY <1>1
  <2> QED  BY <2>1, <2>2, <2>3 DEF Contains
<1>4. s[1] = <<s[1][1], s[1][2]>>  BY <1>1
<1>5. s[1][2] \in {l, Crlf} /\ l # Crlf  BY <1>1, CrlfIsNoLine DEF IsRest
<1>6. ASSUME NEW q, q # s[1][1] PROVE Left(s, l, q) = Left(t, l, q)
  BY <1>3, <1>4, <1>6 DEF Left
<1>7. \A n \in 1 .. Len(t) : t[n][1] = s[1][1] => s[1][2] = l /\ t[n][2] = Crlf
  <2> TAKE n \in 1 .. Len(t)
  <2>1. n + 1 \in 1 .. Len(s) /\ 1 \in 1 .. Len(s) /\ 1 < n + 1 /\ t[n] = s[n + 1]  BY <1>1
  <2> QED  BY <2>1 DEF IsRest
<1>8. ~Contains(t, <<s[1][1], l>>)  BY <1>5, <1>7 DEF Contains
<1>9. CASE s[1][2] = l
  <2>1. 1 < Len(s) /\ s[2] = <<s[1][1], Crlf>>
    <3>1. 1 \in 1 .. Len(s) /\ 1 + 1 = 2  BY <1>1
    <3> QED  BY <1>9, <3>1 DEF IsRest
  <2>2. 1 \in 1 .. Len(t) /\ t[1] = s[2]  BY <1>1, <2>1
  <2>3. Contains(t, <<s[1][1], Crlf>>)  BY <2>1, <2>2 DEF Contains
  <2>4. Left(t, l, s[1][1]) = <<Crlf>>  BY <1>8, <2>3 DEF Left
  <2>5. Left(s, l, s[1][1]) = <<l, Crlf>>  BY <1>3, <1>4, <1>9 DEF Left
  <2>6. <<l>> \o <<Crlf>> = <<l, Crlf>>
    <3> DEFINE u == <<l>> \o <<Crlf>>
               v == <<l, Crlf>>
    <3>1. /\ <<l>> \in Seq(Piece) /\ <<Crlf>> \in Seq(Piece) /\ v \in Seq(Piece)
          /\ Len(<<l>>) = 1 /\ Len(<<Crlf>>) = 1 /\ Len(v) = 2
          /\ <<l>>[1] = l /\ <<Crlf>>[1] = Crlf /\ v[1] = l /\ v[2] = Crlf
      BY DEF Piece
    <3>2. u \in Seq(Piece) /\ Len(u) = 2 /\ u[1] = l /\ u[2] = Crlf
      BY <3>1, ConcatProperties
    <3> HIDE DEF u, v
    <3>3. u = v  BY <3>1, <3>2, SeqEqual
    <3> QED  BY <3>3 DEF u, v
  <2> QED  BY <1>1, <1>2, <1>6, <1>9, <2>4, <2>5, <2>6 DEF t
<1>10. CASE s[1][2] = Crlf
  <2>1. ~Contains(t, <<s[1][1], Crlf>>)  BY <1>5, <1>7, <1>10 DEF Contains
  <2>2. Left(t, l, s[1][1]) = <<>>  BY <1>8, <2>1 DEF Left
  <2>3. ~Contains(s, <<s[1][1], l>>) /\ Contains(s, <<s[1][1], Crlf>>)
    BY <1>3, <1>4, <1>5, <1>8, <1>10
  <2>4. Left(s, l, s[1][1]) = <<Crlf>>  BY <2>3 DEF Left
  <2>5. <<Crlf>> \o <<>> = <<Crlf>>  OBVIOUS
  <2> QED  BY <1>1, <1>2, <1>6, <1>10, <2>2, <2>4, <2>5 DEF t
<1> QED  BY <1>5, <1>9, <1>10

-----------------------------------------------------------------------------
(* The pieces meant for a peer, of the lines meant for it. *)

PiecesOf(s) == [n \in 1 .. 2 * Len(s) |-> IF n % 2 = 1 THEN s[(n + 1) \div 2] ELSE Crlf]

LEMMA PiecesFacts ==
  ASSUME NEW s \in Seq(Line)
  PROVE  /\ PiecesOf(s) \in Seq(Piece) /\ Len(PiecesOf(s)) = 2 * Len(s)
         /\ \A l \in Line : PiecesOf(Append(s, l)) = PiecesOf(s) \o <<l, Crlf>>
<1>1. \A n \in 1 .. 2 * Len(s) : (n + 1) \div 2 \in 1 .. Len(s)  OBVIOUS
<1>2. \A n \in 1 .. 2 * Len(s) : PiecesOf(s)[n] \in Piece  BY <1>1 DEF PiecesOf, Piece
<1>3. PiecesOf(s) \in Seq(Piece) /\ Len(PiecesOf(s)) = 2 * Len(s)  BY <1>2 DEF PiecesOf
<1>4. ASSUME NEW l \in Line PROVE PiecesOf(Append(s, l)) = PiecesOf(s) \o <<l, Crlf>>
  <2> DEFINE a == Append(s, l)
             k == Len(s)
  <2>1. /\ k \in Nat /\ a \in Seq(Line) /\ Len(a) = k + 1 /\ a[k + 1] = l
        /\ \A n \in 1 .. k : a[n] = s[n]
    BY AppendProperties
  <2> HIDE DEF a
  <2>2. PiecesOf(a) \in Seq(Piece) /\ Len(PiecesOf(a)) = 2 * k + 2
    <3>1. \A n \in 1 .. 2 * Len(a) : (n + 1) \div 2 \in 1 .. Len(a)  BY <2>1
    <3>2. \A n \in 1 .. 2 * Len(a) : PiecesOf(a)[n] \in Piece  BY <2>1, <3>1 DEF PiecesOf, Piece
    <3> QED  BY <2>1, <3>2 DEF PiecesOf
  <2>3. <<l, Crlf>> \in Seq(Piece)  BY DEF Piece
  <2>4. /\ PiecesOf(s) \o <<l, Crlf>> \in Seq(Piece)
        /\ Len(PiecesOf(s) \o <<l, Crlf>>) = 2 * k + 2
    BY <1>3, <2>1, <2>3
  <2>5. ASSUME NEW n \in 1 .. 2 * k + 2
        PROVE  PiecesOf(a)[n] = (PiecesOf(s) \o <<l, Crlf>>)[n]
    <3>1. CASE n \in 1 .. 2 * k
      <4>1. (PiecesOf(s) \o <<l, Crlf>>)[n] = PiecesOf(s)[n]  BY <1>3, <2>1, <2>3, <3>1
      <4>2. (n + 1) \div 2 \in 1 .. k  BY <1>1, <3>1
      <4> QED  BY <2>1, <3>1, <4>1, <4>2 DEF PiecesOf
    <3>2. CASE n = 2 * k + 1
      <4>1. (PiecesOf(s) \o <<l, Crlf>>)[n] = l  BY <1>3, <2>1, <2>3, <3>2
      <4>2. (n + 1) \div 2 = k + 1 /\ n % 2 = 1  BY <2>1, <3>2
      <4> QED  BY <2>1, <3>2, <4>1, <4>2 DEF PiecesOf
    <3>3. CASE n = 2 * k + 2
      <4>1. (PiecesOf(s) \o <<l, Crlf>>)[n] = Crlf  BY <1>3, <2>1, <2>3, <3>3
      <4>2. n % 2 # 1  BY <2>1, <3>3
      <4> QED  BY <2>1, <3>3, <4>1, <4>2 DEF PiecesOf
    <3>4. n \in 1 .. 2 * k \/ n = 2 * k + 1 \/ n = 2 * k + 2  BY <2>1
    <3> QED  BY <3>1, <3>2, <3>3, <3>4
  <2> QED  BY <2>2, <2>4, <2>5 DEF a
<1> QED  BY <1>3, <1>4
-----------------------------------------------------------------------------
(* The discipline of the threads. *)

Types ==
  /\ open \subseteq Peer /\ clients \subseteq Peer
  /\ members \in Seq(Peer) /\ IsInjective(members)
  /\ taken \in [Peer -> Nat] /\ \A p \in Peer : taken[p] <= Len(Script[p])
  /\ pc \in [Peer -> {"none", "read", "lock", "write", "ended"}]
  /\ line \in [Peer -> Line \cup {NoLine}]
  /\ lock \in Peer \cup {Free}
  /\ todo \in [Peer -> Seq(Peer \X Piece)]
  /\ wire \in [Peer -> Seq(Piece)] /\ \A p \in Peer : Len(wire[p]) <= Capacity
  /\ got \in [Peer -> Seq(Piece)]
  /\ log \in Seq(Entry)

\* The three facts hold together: only the holder of the mutex is written off
\* or taken out of the map, and it is the one that is at a command.
Discipline == Types /\ OneAtATime /\ ClientsAreServed /\ AtOwnCommand

LEMMA InitDiscipline == Init => Discipline
<1> SUFFICES ASSUME Init PROVE Discipline  OBVIOUS
<1> USE DEF Init
<1>1. Types
  <2>1. /\ \A p \in Peer : Script[p] \in Seq(Command)
        /\ Capacity \in Nat
    BY ThreadAssumption
  <2>2. \A p \in Peer : Len(Script[p]) \in Nat  BY <2>1
  <2>3. <<>> \in Seq(Peer) /\ IsInjective(<<>>)  BY DEF IsInjective
  <2>4. <<>> \in Seq(Peer \X Piece) /\ <<>> \in Seq(Piece) /\ <<>> \in Seq(Entry) /\ Len(<<>>) = 0
    OBVIOUS
  <2> QED  BY <2>1, <2>2, <2>3, <2>4 DEF Types
<1>2. OneAtATime /\ ClientsAreServed /\ AtOwnCommand
  BY ThreadAssumption DEF OneAtATime, ClientsAreServed, AtOwnCommand
<1> QED  BY <1>1, <1>2 DEF Discipline

\* A thread at the end of its connection handles it as a QUIT.
LEMMA EndIsQuit ==
  ASSUME NEW l, l[2] = 0
  PROVE  CommandOf(l) = "QUIT"
  BY DEF CommandOf

\* Room for one more write.
LEMMA AppendPiece ==
  ASSUME NEW S, NEW f \in [Peer -> Seq(S)], NEW q \in Peer, NEW e \in S
  PROVE  LET g == [f EXCEPT ![q] = Append(@, e)]
         IN /\ g \in [Peer -> Seq(S)]
            /\ Len(g[q]) = Len(f[q]) + 1
            /\ \A p \in Peer \ {q} : g[p] = f[p]
  BY AppendProperties

LEMMA PeerReadsKeeps ==
  ASSUME Discipline, NEW p \in Peer, PeerReads(p)
  PROVE  Discipline'
<1>1. /\ wire[p] # <<>> /\ wire' = [wire EXCEPT ![p] = Tail(@)]
      /\ got' = [got EXCEPT ![p] = Append(@, Head(wire[p]))]
      /\ UNCHANGED <<clients, members, lock, log, taken, pc, line, todo, open>>
  BY DEF PeerReads, server, threads
<1>2. Types'
  <2>1. wire[p] \in Seq(Piece)  BY DEF Discipline, Types
  <2>2. Head(wire[p]) \in Piece /\ Tail(wire[p]) \in Seq(Piece) /\ Len(Tail(wire[p])) = Len(wire[p]) - 1
    BY <1>1, <2>1
  <2>3. got' \in [Peer -> Seq(Piece)]  BY <1>1, <2>2, AppendPiece DEF Discipline, Types
  <2>4. wire' \in [Peer -> Seq(Piece)]  BY <1>1, <2>2 DEF Discipline, Types
  <2>5. \A q \in Peer : Len(wire'[q]) <= Len(wire[q]) /\ Len(wire[q]) \in Nat /\ Len(wire'[q]) \in Nat
    BY <1>1, <2>1, <2>2 DEF Discipline, Types
  <2>6. \A q \in Peer : Len(wire'[q]) <= Capacity  BY <2>5, ThreadAssumption DEF Discipline, Types
  <2> QED  BY <1>1, <2>3, <2>4, <2>6 DEF Discipline, Types
<1>3. (OneAtATime /\ ClientsAreServed /\ AtOwnCommand)'
  BY <1>1 DEF Discipline, OneAtATime, ClientsAreServed, AtOwnCommand
<1> QED  BY <1>2, <1>3 DEF Discipline

LEMMA PeerClosesKeeps ==
  ASSUME Discipline, NEW p \in Peer, PeerCloses(p)
  PROVE  Discipline'
  BY DEF PeerCloses, server, threads, Discipline, Types, OneAtATime, ClientsAreServed, AtOwnCommand

LEMMA AcceptKeeps ==
  ASSUME Discipline, NEW p \in Peer, Accept(p)
  PROVE  Discipline'
<1> USE DEF Discipline, Accept, sockets
<1>1. Types'  BY DEF Types
<1>2. OneAtATime'  BY ThreadAssumption DEF Types, OneAtATime, LockFree
<1>3. ClientsAreServed'  BY DEF Types, ClientsAreServed
<1>4. AtOwnCommand'  BY DEF Types, AtOwnCommand
<1> QED  BY <1>1, <1>2, <1>3, <1>4

LEMMA TakeLineKeeps ==
  ASSUME Discipline, NEW p \in Peer, TakeLine(p)
  PROVE  Discipline'
<1> USE DEF Discipline, TakeLine, server, sockets
<1>1. Types'
  <2>1. Len(Script[p]) \in Nat  BY ThreadAssumption
  <2>2. taken' \in [Peer -> Nat] /\ \A q \in Peer : taken'[q] <= Len(Script[q])
    <3>1. taken \in [Peer -> Nat] /\ \A q \in Peer : taken[q] <= Len(Script[q])  BY DEF Types
    <3>2. taken[p] < Len(Script[p]) /\ taken' = [taken EXCEPT ![p] = taken[p] + 1]  OBVIOUS
    <3> QED  BY ONLY <2>1, <3>1, <3>2
  <2>3. line' \in [Peer -> Line \cup {NoLine}]  BY DEF Types, Line
  <2> QED  BY <2>2, <2>3 DEF Types
<1>2. OneAtATime'  BY DEF Types, OneAtATime
<1>3. ClientsAreServed'  BY DEF Types, ClientsAreServed
<1>4. AtOwnCommand'  BY DEF Types, AtOwnCommand
<1> QED  BY <1>1, <1>2, <1>3, <1>4

LEMMA ReadEndsKeeps ==
  ASSUME Discipline, NEW p \in Peer, ReadEnds(p)
  PROVE  Discipline'
<1> USE DEF Discipline, ReadEnds, server, sockets
<1>1. Types'
  <2>1. line' \in [Peer -> Line \cup {NoLine}]  BY DEF Types, Line
  <2> QED  BY <2>1 DEF Types
<1>2. OneAtATime'  BY DEF Types, OneAtATime
<1>3. ClientsAreServed'  BY DEF Types, ClientsAreServed
<1>4. AtOwnCommand'  BY DEF Types, AtOwnCommand
<1> QED  BY <1>1, <1>2, <1>3, <1>4

\* What a handler does under the mutex, up to its writes.
LEMMA LockFacts ==
  ASSUME Discipline, NEW p \in Peer, Lock(p)
  PROVE  LET cmd == CommandOf(line[p])
             to  == WrittenTo(p, cmd)
             e   == [line |-> line[p], to |-> Range(to)]
         IN /\ pc[p] = "lock" /\ lock = Free /\ lock' = p
            /\ pc' = [pc EXCEPT ![p] = "write"]
            /\ members' = MembersAfter(p, cmd)
            /\ todo' = [todo EXCEPT ![p] = Writes(to, line[p])]
            /\ log' = Append(log, e)
            /\ UNCHANGED <<clients, taken, line, open, wire, got>>
            /\ line[p] \in Line /\ line[p] \in {p} \X (0 .. taken[p])
            /\ to \in Seq(Peer) /\ IsInjective(to)
            /\ e \in Entry /\ log' \in Seq(Entry)
<1> DEFINE cmd == CommandOf(line[p])
           to  == WrittenTo(p, cmd)
           e   == [line |-> line[p], to |-> Range(to)]
<1>1. line[p] \in {p} \X (0 .. taken[p]) /\ taken[p] \in Nat
  BY DEF Lock, Discipline, Types, AtOwnCommand
<1>2. line[p] \in Line  BY <1>1 DEF Line
<1>3. to \in Seq(Peer) /\ IsInjective(to)  BY WrittenToFacts DEF Discipline, Types
<1>4. e \in Entry
  <2>1. Range(to) \in SUBSET Peer  BY <1>3 DEF Range
  <2> QED  BY <1>2, <2>1 DEF Entry
<1>5. Append(log, e) \in Seq(Entry)  BY <1>4, AppendProperties DEF Discipline, Types
<1> QED  BY <1>1, <1>2, <1>3, <1>4, <1>5 DEF Lock, LockFree, sockets

LEMMA LockKeeps ==
  ASSUME Discipline, NEW p \in Peer, Lock(p)
  PROVE  Discipline'
<1> DEFINE to == WrittenTo(p, CommandOf(line[p]))
<1>1. /\ pc[p] = "lock" /\ lock = Free /\ lock' = p
      /\ pc' = [pc EXCEPT ![p] = "write"]
      /\ todo' = [todo EXCEPT ![p] = Writes(to, line[p])]
      /\ UNCHANGED <<clients, taken, line, open, wire, got>>
      /\ log' \in Seq(Entry)
  BY LockFacts
<1>2. members' \in Seq(Peer) /\ IsInjective(members')
  <2>1. members' = MembersAfter(p, CommandOf(line[p]))  BY LockFacts
  <2> QED  BY <2>1, MembersAfterFacts DEF Discipline, Types
<1>3. Writes(to, line[p]) \in Seq(Peer \X Piece)  BY LockFacts, WritesFacts
<1> HIDE DEF to
<1> USE DEF Discipline
<1>4. Types'  BY <1>1, <1>2, <1>3 DEF Types
<1>5. OneAtATime'  BY <1>1, ThreadAssumption DEF Types, OneAtATime
<1>6. ClientsAreServed'  BY <1>1 DEF Types, ClientsAreServed
<1>7. AtOwnCommand'  BY <1>1 DEF Types, AtOwnCommand
<1> QED  BY <1>4, <1>5, <1>6, <1>7

\* What one write does: the head of what is left, for a peer that may have
\* closed.
LEMMA WriteFacts ==
  ASSUME Discipline, NEW p \in Peer, Write(p)
  PROVE  LET q == Head(todo[p])[1]
             w == Head(todo[p])[2]
         IN /\ lock = p /\ pc[p] = "write"
            /\ todo[p] \in Seq(Peer \X Piece) /\ todo[p] # <<>>
            /\ Tail(todo[p]) \in Seq(Peer \X Piece)
            /\ q \in Peer /\ w \in Piece
            /\ todo' = [todo EXCEPT ![p] = Tail(@)]
            /\ q \in open => /\ Len(wire[q]) < Capacity
                             /\ wire' = [wire EXCEPT ![q] = Append(@, w)]
            /\ q \notin open => wire' = wire
            /\ UNCHANGED <<clients, members, lock, log, taken, pc, line, open, got>>
<1>1. todo[p] \in Seq(Peer \X Piece)  BY DEF Discipline, Types
<1>2. todo[p] # <<>>  BY DEF Write
<1>3. Head(todo[p]) \in Peer \X Piece /\ Tail(todo[p]) \in Seq(Peer \X Piece)  BY <1>1, <1>2
<1> QED  BY <1>1, <1>2, <1>3 DEF Write, server, Discipline, OneAtATime

LEMMA WriteKeeps ==
  ASSUME Discipline, NEW p \in Peer, Write(p)
  PROVE  Discipline'
<1> DEFINE q == Head(todo[p])[1]
           w == Head(todo[p])[2]
<1>1. /\ pc[p] = "write" /\ todo[p] # <<>> /\ Tail(todo[p]) \in Seq(Peer \X Piece)
      /\ todo' = [todo EXCEPT ![p] = Tail(@)]
      /\ UNCHANGED <<clients, members, lock, log, taken, pc, line, open, got>>
  BY WriteFacts
<1>2. wire' \in [Peer -> Seq(Piece)] /\ \A r \in Peer : Len(wire'[r]) <= Capacity
  <2>1. q \in Peer /\ w \in Piece  BY WriteFacts
  <2>2. CASE q \in open
    <3>1. Len(wire[q]) < Capacity /\ wire' = [wire EXCEPT ![q] = Append(@, w)]
      BY <2>2, WriteFacts
    <3>2. wire \in [Peer -> Seq(Piece)] /\ \A r \in Peer : Len(wire[r]) <= Capacity
      BY DEF Discipline, Types
    <3>3. Len(wire[q]) \in Nat /\ Capacity \in Nat  BY <2>1, <3>2, ThreadAssumption
    <3> HIDE DEF q, w
    <3>4. /\ wire' \in [Peer -> Seq(Piece)] /\ Len(wire'[q]) = Len(wire[q]) + 1
          /\ \A r \in Peer \ {q} : wire'[r] = wire[r]
      BY <2>1, <3>1, <3>2, AppendPiece
    <3> QED  BY <2>1, <3>1, <3>2, <3>3, <3>4
  <2>3. CASE q \notin open  BY <2>3, WriteFacts DEF Discipline, Types
  <2> QED  BY <2>2, <2>3
<1>3. Types'  BY <1>1, <1>2 DEF Discipline, Types
<1>4. OneAtATime'  BY <1>1 DEF Discipline, Types, OneAtATime
<1>5. ClientsAreServed' /\ AtOwnCommand'
  BY <1>1 DEF Discipline, Types, ClientsAreServed, AtOwnCommand
<1> QED  BY <1>3, <1>4, <1>5 DEF Discipline

LEMMA UnlockKeeps ==
  ASSUME Discipline, NEW p \in Peer, Unlock(p)
  PROVE  Discipline'
<1> USE DEF Discipline, Unlock, sockets
<1>1. Types'  BY DEF Types
<1>2. OneAtATime'  BY ThreadAssumption DEF Types, OneAtATime
<1>3. ClientsAreServed'
  <2>1. line[p][2] = 0 => p \notin clients'  BY EndIsQuit
  <2> QED  BY <2>1 DEF Types, ClientsAreServed
<1>4. AtOwnCommand'  BY DEF Types, AtOwnCommand
<1> QED  BY <1>1, <1>2, <1>3, <1>4

LEMMA NextDiscipline == Discipline /\ [Next]_vars => Discipline'
<1>1. SUFFICES ASSUME Discipline, [Next]_vars PROVE Discipline'  OBVIOUS
<1>2. CASE UNCHANGED vars
  BY <1>1, <1>2 DEF vars, server, threads, sockets, Discipline, Types, OneAtATime,
                    ClientsAreServed, AtOwnCommand
<1> QED
  BY <1>1, <1>2, PeerReadsKeeps, PeerClosesKeeps, AcceptKeeps, TakeLineKeeps, ReadEndsKeeps,
     LockKeeps, WriteKeeps, UnlockKeeps DEF Next, Thread

\* Types, and the discipline of the mutex: no socket holds more than its
\* buffer, a member is in the channel's list once, and no thread takes more
\* commands than its peer has sent (ServerState in server.rs, serve in
\* client.rs).
THEOREM ThreadsTyped == Spec => []TypeOK
<1>1. Discipline => TypeOK  BY DEF Discipline, Types, TypeOK
<1> QED  BY <1>1, InitDiscipline, NextDiscipline, PTL DEF Spec

\* Handlers run one at a time, and what a handler has still to write is
\* written under the mutex (serve in client.rs, send in server.rs).
THEOREM HandlersExclude == Spec => []OneAtATime
<1>1. Discipline => OneAtATime  BY DEF Discipline
<1> QED  BY <1>1, InitDiscipline, NextDiscipline, PTL DEF Spec

\* No client outlives its thread: whoever is in the map is served, so that a
\* thread that ends has dropped its client (serve in client.rs).
THEOREM ClientsServed == Spec => []ClientsAreServed
<1>1. Discipline => ClientsAreServed  BY DEF Discipline
<1> QED  BY <1>1, InitDiscipline, NextDiscipline, PTL DEF Spec

-----------------------------------------------------------------------------
(* No line is torn, lost or out of order. *)

\* What a handler has still to write is the rest of its line to each peer.
HandlerShape == \A p \in Peer : IsRest(todo[p], line[p])

Lines == HandlerShape /\ NothingIsLost

Inv == Discipline /\ Lines

LEMMA Glue ==
  /\ \A a, b \in Seq(Piece) : a \o b \in Seq(Piece)
  /\ \A a \in Seq(Piece), e \in Piece : Append(a, e) = a \o <<e>>
  /\ \A a, b, c \in Seq(Piece) : (a \o b) \o c = a \o (b \o c)
<1>1. \A a, b \in Seq(Piece) : a \o b \in Seq(Piece)  BY ConcatProperties
<1>2. \A a \in Seq(Piece), e \in Piece : Append(a, e) = a \o <<e>>  BY AppendIsConcat
<1>3. \A a, b, c \in Seq(Piece) : (a \o b) \o c = a \o (b \o c)  BY ConcatAssociative
<1> QED  BY <1>1, <1>2, <1>3

LEMMA PrefixOf ==
  ASSUME NEW S, NEW s \in Seq(S), NEW t \in Seq(S)
  PROVE  /\ IsPrefix(s, t) <=> Len(s) <= Len(t) /\ \A i \in 1 .. Len(s) : s[i] = t[i]
         /\ IsPrefix(s, s \o t)
         /\ \A u \in Seq(S) : IsPrefix(s, t) => IsPrefix(s, t \o u)
<1>1. ASSUME NEW t1 \in Seq(S)
      PROVE  IsPrefix(s, t1) <=> Len(s) <= Len(t1) /\ \A i \in 1 .. Len(s) : s[i] = t1[i]
  <2>1. SUFFICES ASSUME Len(s) <= Len(t1)
                 PROVE  SubSeq(s, 1, Len(s)) = SubSeq(t1, 1, Len(s))
                          <=> \A i \in 1 .. Len(s) : s[i] = t1[i]
    BY DEF IsPrefix
  <2> DEFINE a == SubSeq(s, 1, Len(s))
             b == SubSeq(t1, 1, Len(s))
  <2>2. /\ a \in Seq(S) /\ Len(a) = Len(s) /\ \A i \in 1 .. Len(s) : a[i] = s[i]
        /\ b \in Seq(S) /\ Len(b) = Len(s) /\ \A i \in 1 .. Len(s) : b[i] = t1[i]
    BY <2>1
  <2> HIDE DEF a, b
  <2>3. (\A i \in 1 .. Len(s) : s[i] = t1[i]) => a = b  BY <2>2, SeqEqual
  <2>4. a = b => \A i \in 1 .. Len(s) : s[i] = t1[i]  BY <2>2
  <2> QED  BY <2>3, <2>4 DEF a, b
<1>2. IsPrefix(s, s \o t)
  <2> DEFINE c == s \o t
  <2>1. /\ c \in Seq(S) /\ Len(c) = Len(s) + Len(t) /\ Len(s) \in Nat /\ Len(t) \in Nat
        /\ \A i \in 1 .. Len(s) : c[i] = s[i]
    BY ConcatProperties
  <2> HIDE DEF c
  <2>2. Len(s) <= Len(c)  BY <2>1
  <2>3. IsPrefix(s, c)  BY <1>1, <2>1, <2>2
  <2> QED  BY <2>3 DEF c
<1>3. ASSUME NEW u \in Seq(S), IsPrefix(s, t) PROVE IsPrefix(s, t \o u)
  <2> DEFINE c == t \o u
  <2>1. /\ c \in Seq(S) /\ Len(c) = Len(t) + Len(u) /\ Len(t) \in Nat /\ Len(u) \in Nat
        /\ \A i \in 1 .. Len(t) : c[i] = t[i]
    BY ConcatProperties
  <2>2. Len(s) <= Len(t) /\ \A i \in 1 .. Len(s) : s[i] = t[i]  BY <1>1, <1>3
  <2> HIDE DEF c
  <2>3. Len(s) <= Len(c) /\ \A i \in 1 .. Len(s) : s[i] = c[i]  BY <2>1, <2>2
  <2>4. IsPrefix(s, c)  BY <1>1, <2>1, <2>3
  <2> QED  BY <2>4 DEF c
<1> QED  BY <1>1, <1>2, <1>3

\* The properties' operators by way of the ones the lemmas are about.
LEMMA MeantIs == \A p : Meant(p) = PiecesOf(Filtered(log, p))
  BY DEF Meant, PiecesOf, Log!For, Filtered, Filters

LEMMA MeantNext == \A p : Meant(p)' = PiecesOf(Filtered(log', p))
  BY DEF Meant, PiecesOf, Log!For, Filtered, Filters

LEMMA PendingIs ==
  \A p : Pending(p) = IF lock = Free THEN <<>> ELSE Left(todo[lock], line[lock], p)
  BY DEF Pending, Left

LEMMA PendingNext ==
  \A p : Pending(p)' = IF lock' = Free THEN <<>> ELSE Left(todo'[lock'], line'[lock'], p)
  BY DEF Pending, Left

LEMMA NothingLeft == \A l, p : Left(<<>>, l, p) = <<>> /\ IsRest(<<>>, l)
  BY DEF Left, IsRest, Contains

\* A step that writes nothing, reads nothing and ends no handler.
LEMMA LinesKept ==
  ASSUME Discipline, Lines, HandlerShape',
         \A p \in Peer : Pending(p)' = Pending(p),
         log' = log, got' = got, wire' = wire, open' \subseteq open
  PROVE  Lines'
<1>1. \A p \in Peer : Meant(p)' = Meant(p)  BY MeantIs, MeantNext
<1> QED  BY <1>1 DEF Lines, NothingIsLost

\* A thread that is at no handler's writes comes to another command.
LEMMA LineMoves ==
  ASSUME Discipline, Lines, NEW p \in Peer, pc[p] # "write", NEW l \in Line,
         line' = [line EXCEPT ![p] = l],
         UNCHANGED <<server, todo, sockets>>
  PROVE  Lines'
<1>1. lock # p /\ todo[p] = <<>> /\ lock \in Peer \cup {Free}
      /\ line \in [Peer -> Line \cup {NoLine}]
  BY DEF Discipline, Types, OneAtATime
<1>2. HandlerShape'  BY <1>1, NothingLeft DEF Lines, HandlerShape, sockets, server
<1>3. \A q \in Peer : Pending(q)' = Pending(q)
  BY <1>1, PendingIs, PendingNext DEF server
<1> QED  BY <1>2, <1>3, LinesKept DEF server, sockets

LEMMA TakeLineLines ==
  ASSUME Discipline, Lines, NEW p \in Peer, TakeLine(p)
  PROVE  Lines'
<1>1. <<p, taken[p] + 1>> \in Line  BY DEF Discipline, Types, Line
<1> QED  BY <1>1, LineMoves DEF TakeLine

LEMMA ReadEndsLines ==
  ASSUME Discipline, Lines, NEW p \in Peer, ReadEnds(p)
  PROVE  Lines'
<1>1. <<p, 0>> \in Line  BY DEF Line
<1> QED  BY <1>1, LineMoves DEF ReadEnds

LEMMA UnlockLines ==
  ASSUME Discipline, Lines, NEW p \in Peer, Unlock(p)
  PROVE  Lines'
<1>1. /\ todo[p] = <<>> /\ lock = p /\ lock' = Free
      /\ line' = [line EXCEPT ![p] = NoLine]
      /\ UNCHANGED <<log, todo, open, wire, got>>
  BY DEF Unlock, Discipline, OneAtATime, sockets
<1>2. HandlerShape'
  BY <1>1, NothingLeft DEF Discipline, Types, Lines, HandlerShape
<1>3. \A q \in Peer : Pending(q)' = Pending(q)
  BY <1>1, PendingIs, PendingNext, NothingLeft
<1> QED  BY <1>1, <1>2, <1>3, LinesKept

LEMMA LockLines ==
  ASSUME Discipline, Lines, NEW p \in Peer, Lock(p)
  PROVE  Lines'
<1> DEFINE to == WrittenTo(p, CommandOf(line[p]))
           l  == line[p]
           e  == [line |-> l, to |-> Range(to)]
<1>1. /\ lock = Free /\ lock' = p
      /\ todo' = [todo EXCEPT ![p] = Writes(to, l)]
      /\ log' = Append(log, e)
      /\ UNCHANGED <<line, open, wire, got>>
      /\ l \in Line /\ to \in Seq(Peer) /\ IsInjective(to) /\ e \in Entry
  BY LockFacts
<1>2. /\ IsRest(Writes(to, l), l)
      /\ \A q : Left(Writes(to, l), l, q) = IF q \in Range(to) THEN <<l, Crlf>> ELSE <<>>
  BY <1>1, WritesFacts
<1>3. e.line = l /\ e.to = Range(to)  OBVIOUS
<1>4. /\ todo \in [Peer -> Seq(Peer \X Piece)] /\ log \in Seq(Entry)
      /\ got \in [Peer -> Seq(Piece)] /\ wire \in [Peer -> Seq(Piece)]
  BY DEF Discipline, Types
<1>5. Free \notin Peer  BY ThreadAssumption
<1> HIDE DEF to, l, e
<1>6. HandlerShape'  BY <1>1, <1>2, <1>4 DEF Lines, HandlerShape, l
<1>7. ASSUME NEW q \in Peer
      PROVE  /\ Pending(q) = <<>>
             /\ Pending(q)' = IF q \in Range(to) THEN <<l, Crlf>> ELSE <<>>
  BY <1>1, <1>2, <1>4, <1>5, PendingIs, PendingNext DEF l
<1>8. ASSUME NEW q \in Peer
      PROVE  /\ Meant(q) \in Seq(Piece)
             /\ Meant(q)' = IF q \in Range(to) THEN Meant(q) \o <<l, Crlf>> ELSE Meant(q)
  <2>1. Filtered(log, q) \in Seq(Line)  BY <1>4, FilteredType
  <2>2. Filtered(log', q) = IF q \in Range(to) THEN Append(Filtered(log, q), l)
                            ELSE Filtered(log, q)
    BY <1>1, <1>3, <1>4, FilteredAppend
  <2> QED  BY <1>1, <2>1, <2>2, MeantIs, MeantNext, PiecesFacts
<1>9. <<l, Crlf>> \in Seq(Piece)  BY <1>1 DEF Piece
<1>10. ASSUME NEW q \in Peer
       PROVE  /\ (q \in open => got[q] \o wire[q] \o Pending(q) = Meant(q))'
              /\ IsPrefix(got[q], Meant(q))'
  <2>1. IsPrefix(got[q], Meant(q))  BY DEF Lines, NothingIsLost
  <2>2. got[q] \in Seq(Piece) /\ wire[q] \in Seq(Piece) /\ got[q] \o wire[q] \in Seq(Piece)
    BY <1>4, ConcatProperties
  <2>3. IsPrefix(got[q], Meant(q)')
    <3>1. Meant(q) \in Seq(Piece)  BY <1>8
    <3>2. IsPrefix(got[q], Meant(q) \o <<l, Crlf>>)  BY <1>9, <2>1, <2>2, <3>1, PrefixOf
    <3> QED  BY <1>8, <2>1, <3>2
  <2>4. ASSUME q \in open PROVE got[q] \o wire[q] \o Pending(q)' = Meant(q)'
    <3>1. (got[q] \o wire[q]) \o <<>> = Meant(q)  BY <1>7, <2>4 DEF Lines, NothingIsLost
    <3>2. got[q] \o wire[q] = Meant(q)  BY <2>2, <3>1, ConcatEmptySeq
    <3> QED  BY <1>7, <1>8, <3>1, <3>2
  <2> QED  BY <1>1, <2>3, <2>4
<1> QED  BY <1>6, <1>10 DEF Lines, NothingIsLost

LEMMA WriteLines ==
  ASSUME Discipline, Lines, NEW p \in Peer, Write(p)
  PROVE  Lines'
<1> DEFINE s == todo[p]
           l == line[p]
           q == Head(s)[1]
           w == Head(s)[2]
<1>1. /\ lock = p /\ s \in Seq(Peer \X Piece) /\ s # <<>> /\ q \in Peer /\ w \in Piece
      /\ Tail(s) \in Seq(Peer \X Piece)
      /\ todo' = [todo EXCEPT ![p] = Tail(s)]
      /\ q \in open => wire' = [wire EXCEPT ![q] = Append(@, w)]
      /\ q \notin open => wire' = wire
      /\ UNCHANGED <<lock, log, line, open, got>>
  BY WriteFacts
<1>2. l \in Line /\ Free \notin Peer
  BY ThreadAssumption, <1>1 DEF Discipline, Types, OneAtATime, AtOwnCommand, Line
<1>3. IsRest(s, l)  BY DEF Lines, HandlerShape
<1>4. /\ IsRest(Tail(s), l)
      /\ \A r : Left(s, l, r) = IF r = q THEN <<w>> \o Left(Tail(s), l, r)
                               ELSE Left(Tail(s), l, r)
  BY <1>1, <1>2, <1>3, TailFacts
<1>5. /\ todo \in [Peer -> Seq(Peer \X Piece)] /\ log \in Seq(Entry)
      /\ got \in [Peer -> Seq(Piece)] /\ wire \in [Peer -> Seq(Piece)]
  BY DEF Discipline, Types
<1>6. HandlerShape'  BY <1>1, <1>4, <1>5 DEF Lines, HandlerShape
<1>7. ASSUME NEW r \in Peer
      PROVE  Pending(r) = Left(s, l, r) /\ Pending(r)' = Left(Tail(s), l, r)
  BY <1>1, <1>2, <1>5, PendingIs, PendingNext
<1>8. \A r \in Peer : Meant(r)' = Meant(r)  BY <1>1, MeantIs, MeantNext
<1>9. \A r : Left(Tail(s), l, r) \in Seq(Piece)
  <2>1. <<l, Crlf>> \in Seq(Piece) /\ <<Crlf>> \in Seq(Piece) /\ <<>> \in Seq(Piece)
    BY <1>2 DEF Piece
  <2> QED  BY <2>1 DEF Left
<1> HIDE DEF s, l, q, w
<1>10. ASSUME NEW r \in Peer, r \in open
       PROVE  got[r] \o wire'[r] \o Pending(r)' = Meant(r)
  <2>1. got[r] \o wire[r] \o Pending(r) = Meant(r)  BY <1>10 DEF Lines, NothingIsLost
  <2>2. CASE r # q
    <3>1. wire'[r] = wire[r]  BY <1>1, <1>5, <2>2
    <3>2. Pending(r)' = Pending(r)  BY <1>4, <1>7, <2>2
    <3> QED  BY <2>1, <3>1, <3>2
  <2>3. CASE r = q
    <3> DEFINE rest == Left(Tail(s), l, r)
    <3>1. /\ got[r] \in Seq(Piece) /\ wire[r] \in Seq(Piece) /\ <<w>> \in Seq(Piece)
          /\ w \in Piece /\ rest \in Seq(Piece)
      BY <1>1, <1>5, <1>9
    <3>2. wire'[r] = Append(wire[r], w)  BY <1>1, <1>5, <1>10, <2>3
    <3>3. wire'[r] = wire[r] \o <<w>>  BY <3>1, <3>2, Glue
    <3>4. Pending(r) = <<w>> \o rest /\ Pending(r)' = rest  BY <1>4, <1>7, <2>3
    <3> HIDE DEF rest
    <3>5. (got[r] \o (wire[r] \o <<w>>)) \o rest = (got[r] \o wire[r]) \o (<<w>> \o rest)
      <4> DEFINE gv  == got[r] \o wire[r]
                 one == <<w>>
      <4>1. gv \in Seq(Piece) /\ one \in Seq(Piece) /\ rest \in Seq(Piece)  BY <3>1, Glue
      <4>2. gv \o one = got[r] \o (wire[r] \o one)  BY <3>1, Glue
      <4> HIDE DEF gv, one
      <4>3. (gv \o one) \o rest = gv \o (one \o rest)  BY <4>1, Glue
      <4> QED  BY <4>2, <4>3 DEF gv, one
    <3> QED  BY <2>1, <3>3, <3>4, <3>5
  <2> QED  BY <2>2, <2>3
<1> QED  BY <1>1, <1>6, <1>8, <1>10 DEF Lines, NothingIsLost

LEMMA PeerReadsLines ==
  ASSUME Discipline, Lines, NEW p \in Peer, PeerReads(p)
  PROVE  Lines'
<1>1. /\ wire[p] # <<>> /\ wire' = [wire EXCEPT ![p] = Tail(@)] /\ p \in open
      /\ got' = [got EXCEPT ![p] = Append(@, Head(wire[p]))]
      /\ UNCHANGED <<lock, log, line, todo, open>>
  BY DEF PeerReads, server, threads
<1>2. /\ got \in [Peer -> Seq(Piece)] /\ wire \in [Peer -> Seq(Piece)]
      /\ todo \in [Peer -> Seq(Peer \X Piece)]
      /\ lock \in Peer \cup {Free} /\ log \in Seq(Entry)
  BY DEF Discipline, Types
<1>3. HandlerShape'  BY <1>1 DEF Lines, HandlerShape
<1>4. \A q \in Peer : Meant(q)' = Meant(q) /\ Pending(q)' = Pending(q)
  BY <1>1, MeantIs, MeantNext, PendingIs, PendingNext
<1>5. ASSUME NEW q \in Peer PROVE Meant(q) \in Seq(Piece)
  BY <1>2, MeantIs, FilteredType, PiecesFacts
<1>6. ASSUME NEW q \in Peer PROVE Pending(q) \in Seq(Piece)
  <2>1. lock # Free => line[lock] \in Line
    BY <1>2 DEF Discipline, Types, OneAtATime, AtOwnCommand, Line
  <2>2. \A l \in Line : <<l, Crlf>> \in Seq(Piece)  BY DEF Piece
  <2>3. <<Crlf>> \in Seq(Piece) /\ <<>> \in Seq(Piece)  BY DEF Piece
  <2> QED  BY <2>1, <2>2, <2>3 DEF Pending
<1>7. got'[p] \in Seq(Piece) /\ wire'[p] \in Seq(Piece) /\ got'[p] \o wire'[p] = got[p] \o wire[p]
  <2> DEFINE h == Head(wire[p])
             t == Tail(wire[p])
  <2>1. h \in Piece /\ t \in Seq(Piece) /\ wire[p] = <<h>> \o t /\ <<h>> \in Seq(Piece)
    BY <1>1, <1>2, HeadTailProperties
  <2>2. got'[p] = got[p] \o <<h>> /\ wire'[p] = t /\ got[p] \in Seq(Piece)
    BY <1>1, <1>2, <2>1, AppendIsConcat
  <2> HIDE DEF h, t
  <2>3. (got[p] \o <<h>>) \o t = got[p] \o (<<h>> \o t)
    <3>1. <<h>> \in Seq(Piece) /\ t \in Seq(Piece) /\ got[p] \in Seq(Piece)  BY <2>1, <2>2
    <3> QED  BY <3>1, Glue
  <2>4. got[p] \o <<h>> \in Seq(Piece)  BY <2>1, <2>2, ConcatProperties
  <2> QED  BY <2>1, <2>2, <2>3, <2>4
<1>8. got'[p] \o wire'[p] \o Pending(p) = Meant(p)  BY <1>1, <1>7 DEF Lines, NothingIsLost
<1>9. IsPrefix(got'[p], Meant(p))
  <2>1. got'[p] \o (wire'[p] \o Pending(p)) = Meant(p)
    <3>1. Pending(p) \in Seq(Piece)  BY <1>6
    <3>2. got'[p] \in Seq(Piece) /\ wire'[p] \in Seq(Piece)  BY <1>7
    <3>3. (got'[p] \o wire'[p]) \o Pending(p) = got'[p] \o (wire'[p] \o Pending(p))
      BY <3>1, <3>2, Glue
    <3> QED  BY <1>8, <3>3
  <2>2. wire'[p] \o Pending(p) \in Seq(Piece)  BY <1>6, <1>7, ConcatProperties
  <2> QED  BY <1>7, <2>1, <2>2, PrefixOf
<1>10. \A q \in Peer \ {p} : got'[q] = got[q] /\ wire'[q] = wire[q]  BY <1>1, <1>2
<1> QED  BY <1>1, <1>3, <1>4, <1>8, <1>9, <1>10 DEF Lines, NothingIsLost

LEMMA InitLines == Init => Lines
<1> SUFFICES ASSUME Init PROVE Lines  OBVIOUS
<1>1. HandlerShape  BY NothingLeft DEF Init, HandlerShape
<1>2. \A p \in Peer : Meant(p) = <<>> /\ Pending(p) = <<>> /\ got[p] = <<>> /\ wire[p] = <<>>
  <2>1. PiecesOf(<<>>) = <<>>
    <3>1. <<>> \in Seq(Line) /\ Len(<<>>) = 0  OBVIOUS
    <3>2. PiecesOf(<<>>) \in Seq(Piece) /\ Len(PiecesOf(<<>>)) = 2 * 0  BY <3>1, PiecesFacts
    <3> QED  BY <3>2
  <2> QED  BY <2>1, MeantIs, PendingIs, FilteredEmpty DEF Init
<1>3. <<>> \o <<>> \o <<>> = <<>> /\ IsPrefix(<<>>, <<>>)
  BY PrefixOf, ConcatEmptySeq DEF IsPrefix
<1> QED  BY <1>1, <1>2, <1>3 DEF Lines, NothingIsLost

LEMMA NextInv == Inv /\ [Next]_vars => Inv'
<1> SUFFICES ASSUME Discipline, Lines, [Next]_vars PROVE Lines'
  BY NextDiscipline DEF Inv
<1>1. ASSUME NEW p \in Peer, Accept(p) \/ PeerCloses(p) PROVE Lines'
  <2>1. /\ UNCHANGED <<lock, log, todo, line, got, wire>> /\ open' \subseteq open
    BY <1>1 DEF Accept, PeerCloses, server, threads, sockets
  <2>2. \A q \in Peer : Pending(q)' = Pending(q)  BY <2>1, PendingIs, PendingNext
  <2>3. HandlerShape'  BY <2>1 DEF Lines, HandlerShape
  <2> QED  BY <2>1, <2>2, <2>3, LinesKept
<1>2. CASE UNCHANGED vars
  <2>1. UNCHANGED <<lock, log, todo, line, got, wire, open>>
    BY <1>2 DEF vars, server, threads, sockets
  <2>2. \A q \in Peer : Pending(q)' = Pending(q)  BY <2>1, PendingIs, PendingNext
  <2>3. HandlerShape'  BY <2>1 DEF Lines, HandlerShape
  <2> QED  BY <2>1, <2>2, <2>3, LinesKept
<1> QED
  BY <1>1, <1>2, PeerReadsLines, TakeLineLines, ReadEndsLines, LockLines, WriteLines,
     UnlockLines DEF Next, Thread

\* No line is torn, lost or out of order, whatever the threads do and however
\* full the sockets are (send and broadcast in server.rs).
THEOREM LinesArrive == Spec => []NothingIsLost
<1>1. Init => Inv  BY InitDiscipline, InitLines DEF Inv
<1>2. Inv => NothingIsLost  BY DEF Inv, Lines
<1> QED  BY <1>1, <1>2, NextInv, PTL DEF Spec

-----------------------------------------------------------------------------
(* The threads implement LineLog. *)

LEMMA InitLineLog == Init => Log!Init
  BY DEF Init, Log!Init, LastRead

\* What a peer has read, if it is the start of what is meant for it: of each
\* line its text, then CRLF.
LEMMA ReadSoFar ==
  ASSUME NEW g \in Seq(Piece), NEW for \in Seq(Line), IsPrefix(g, PiecesOf(for))
  PROVE  /\ Len(g) <= 2 * Len(for)
         /\ \A n \in 1 .. Len(g) : g[n] = IF n % 2 = 1 THEN for[(n + 1) \div 2] ELSE Crlf
<1>1. PiecesOf(for) \in Seq(Piece) /\ Len(PiecesOf(for)) = 2 * Len(for)  BY PiecesFacts
<1>2. Len(g) <= 2 * Len(for) /\ \A n \in 1 .. Len(g) : g[n] = PiecesOf(for)[n]
  BY <1>1, PrefixOf
<1>3. \A n \in 1 .. Len(g) : n \in 1 .. 2 * Len(for)  BY <1>2
<1> QED  BY <1>2, <1>3 DEF PiecesOf

LEMMA Halves ==
  \A k \in Nat :
     /\ k % 2 = 0 \/ k % 2 = 1
     /\ k % 2 = 0 => (k + 1) \div 2 = k \div 2 /\ 2 * (k \div 2) = k
     /\ k % 2 = 1 => /\ (k + 1) \div 2 = (k \div 2) + 1 /\ 2 * ((k + 1) \div 2) = k + 1
                     /\ (k + 1) % 2 # 1 /\ k # 0
  OBVIOUS

\* A read is half a line, which LineLog does not see, or completes the next
\* line of the log.
LEMMA ReadIsReceive ==
  ASSUME Inv, Inv', NEW p \in Peer, PeerReads(p)
  PROVE  [Log!Next]_Log!vars
<1> DEFINE g   == got[p]
           h   == Head(wire[p])
           k   == Len(g)
           for == Filtered(log, p)
<1>1. /\ p \in open /\ wire[p] # <<>> /\ UNCHANGED <<log, open>>
      /\ got' = [got EXCEPT ![p] = Append(@, h)]
  BY DEF PeerReads, server, threads
<1>2. got \in [Peer -> Seq(Piece)] /\ wire[p] \in Seq(Piece) /\ log \in Seq(Entry)
  BY DEF Inv, Discipline, Types
<1>3. h \in Piece  BY <1>1, <1>2
<1>4. for \in Seq(Line) /\ for = Log!For(p)  BY <1>2, FilteredType, ForIsFiltered
<1>5. IsPrefix(got'[p], PiecesOf(for))
  BY <1>1, MeantNext DEF Inv, Lines, NothingIsLost
<1> HIDE DEF h, for
<1>6. /\ k \in Nat /\ got'[p] \in Seq(Piece) /\ Len(got'[p]) = k + 1
      /\ \A n \in 1 .. k : got'[p][n] = g[n]
      /\ \A q \in Peer \ {p} : got'[q] = got[q]
  BY <1>1, <1>2, <1>3, AppendProperties
<1>7. /\ k + 1 <= 2 * Len(for)
      /\ \A n \in 1 .. k + 1 :
           got'[p][n] = IF n % 2 = 1 THEN for[(n + 1) \div 2] ELSE Crlf
  BY <1>4, <1>5, <1>6, ReadSoFar
<1> HIDE DEF k
<1>8. \A q \in Peer \ {p} : LastRead(q)' = LastRead(q)  BY <1>6 DEF LastRead
<1>9. CASE k % 2 = 0
  <2>1. (k + 1) \div 2 = k \div 2 /\ 2 * (k \div 2) = k  BY <1>6, <1>9, Halves
  <2>2. LastRead(p)' = LastRead(p)
    <3>1. k # 0 => k \in 1 .. k /\ k - 1 \in 1 .. k  BY <1>6, <1>9
    <3>2. Len(got[p]) = k  BY DEF k
    <3> QED  BY <1>6, <2>1, <3>1, <3>2 DEF LastRead
  <2>3. [q \in Peer |-> Len(got[q]) \div 2]' = [q \in Peer |-> Len(got[q]) \div 2]
    <3>1. Len(got[p]) = k  BY DEF k
    <3> QED  BY <1>6, <2>1, <3>1
  <2>4. [q \in Peer |-> LastRead(q)]' = [q \in Peer |-> LastRead(q)]  BY <1>8, <2>2
  <2> QED  BY <1>1, <2>3, <2>4 DEF Log!vars
<1>10. CASE k % 2 = 1
  <2>1. /\ (k + 1) \div 2 = (k \div 2) + 1 /\ 2 * ((k + 1) \div 2) = k + 1
        /\ (k + 1) % 2 # 1 /\ k \in 1 .. k + 1 /\ k + 1 \in 1 .. k + 1
    BY <1>6, <1>10, Halves
  <2>2. k \div 2 < Len(for)  BY <1>4, <1>6, <1>7, <2>1
  <2>3. got'[p][k + 1] = Crlf /\ got'[p][k] = for[(k \div 2) + 1]  BY <1>7, <1>10, <2>1
  <2>4. LastRead(p)' = for[(k \div 2) + 1]  BY <1>6, <2>1, <2>3 DEF LastRead
  <2>5. [q \in Peer |-> Len(got[q]) \div 2]'
          = [[q \in Peer |-> Len(got[q]) \div 2] EXCEPT ![p] = @ + 1]
    <3>1. Len(got[p]) = k  BY DEF k
    <3> QED  BY <1>6, <2>1, <3>1
  <2>6. [q \in Peer |-> LastRead(q)]'
          = [[q \in Peer |-> LastRead(q)] EXCEPT ![p] = for[(k \div 2) + 1]]
    BY <1>8, <2>4
  <2>7. [q \in Peer |-> Len(got[q]) \div 2][p] = k \div 2  BY DEF k
  <2>8. Log!Receive(p)  BY <1>1, <1>4, <2>2, <2>5, <2>6, <2>7 DEF Log!Receive
  <2> QED  BY <2>8 DEF Log!Next
<1> QED  BY <1>6, Halves, <1>9, <1>10

\* A handler's critical section is one entry of the log.
LEMMA LockIsHandle ==
  ASSUME Inv, NEW p \in Peer, Lock(p)
  PROVE  Log!Next
<1> DEFINE to == Range(WrittenTo(p, CommandOf(line[p])))
           Lines2 == UNION {{q} \X (0 .. Len(Script[q])) : q \in Peer}
<1>1. /\ log' = Append(log, [line |-> line[p], to |-> to]) /\ UNCHANGED <<open, got>>
      /\ line[p] \in {p} \X (0 .. taken[p])
      /\ WrittenTo(p, CommandOf(line[p])) \in Seq(Peer)
  BY LockFacts DEF Inv
<1>2. to \in SUBSET Peer  BY <1>1 DEF Range
<1>3. line[p] \in Lines2
  <2>1. taken[p] \in Nat /\ taken[p] <= Len(Script[p]) /\ Len(Script[p]) \in Nat
    BY ThreadAssumption DEF Inv, Discipline, Types
  <2>2. line[p] \in {p} \X (0 .. Len(Script[p]))  BY <1>1, <2>1
  <2> QED  BY <2>2
<1>4. [q \in Peer |-> Len(got[q]) \div 2]' = [q \in Peer |-> Len(got[q]) \div 2]  BY <1>1
<1>5. [q \in Peer |-> LastRead(q)]' = [q \in Peer |-> LastRead(q)]  BY <1>1 DEF LastRead
<1> HIDE DEF to, Lines2
<1>6. Log!Handle  BY <1>1, <1>2, <1>3, <1>4, <1>5 DEF Log!Handle, Lines2
<1> QED  BY <1>6 DEF Log!Next

LEMMA CloseIsClose ==
  ASSUME NEW p \in Peer, PeerCloses(p)
  PROVE  Log!Next
<1>1. Log!Close(p)  BY DEF PeerCloses, server, threads, Log!Close, LastRead
<1> QED  BY <1>1 DEF Log!Next

LEMMA Unseen ==
  ASSUME UNCHANGED <<log, got, open>>
  PROVE  UNCHANGED Log!vars
  BY DEF Log!vars, LastRead

LEMMA NextLineLog == Inv /\ Inv' /\ [Next]_vars => [Log!Next]_Log!vars
<1> SUFFICES ASSUME Inv, Inv', [Next]_vars PROVE [Log!Next]_Log!vars  OBVIOUS
<1>1. ASSUME NEW p \in Peer, Accept(p) \/ TakeLine(p) \/ ReadEnds(p) \/ Write(p) \/ Unlock(p)
      PROVE  UNCHANGED <<log, got, open>>
  BY <1>1 DEF Accept, TakeLine, ReadEnds, Write, Unlock, server, sockets
<1>2. CASE UNCHANGED vars
  BY <1>2, Unseen DEF vars, server, sockets
<1> QED
  BY <1>1, <1>2, Unseen, ReadIsReceive, LockIsHandle, CloseIsClose DEF Next, Thread

\* For its peers the threads are one sequence of commands: whatever the
\* interleaving, every connection reads the lines meant for it complete and
\* in the order of the critical sections (serve in client.rs, broadcast in
\* server.rs).
THEOREM ThreadsImplementLineLog == Spec => ImplementsLineLog
<1>1. Init => Inv  BY InitDiscipline, InitLines DEF Inv
<1> QED  BY <1>1, InitLineLog, NextInv, NextLineLog, PTL DEF Spec, ImplementsLineLog, Log!Spec
=============================================================================
