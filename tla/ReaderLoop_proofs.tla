------------------------- MODULE ReaderLoop_proofs --------------------------
(***************************************************************************)
(* Proofs about ReaderLoop: for every stream, chunk size, buffer limit and *)
(* line limit, the buffer is bounded and what is handled are the ends of   *)
(* lines, whole ones unless the line has outgrown the buffer.              *)
(***************************************************************************)
EXTENDS ReaderLoop, TLAPS

-----------------------------------------------------------------------------
(* Types. *)

Numbers ==
  /\ from \in 0 .. N /\ read \in 0 .. N /\ from <= read
  /\ pc \in {"read", "scan", "closed"}

LEMMA LineEndBounds ==
  ASSUME Numbers, NEW p \in Newlines
  PROVE  /\ p \in Int /\ from + 1 <= p /\ p <= read /\ p <= N
         /\ LineEnd(p) \in Int /\ LineEnd(p) < p
         /\ from <= LineEnd(p)
<1>1. p \in Int /\ from + 1 <= p /\ p <= read /\ p <= N
  BY SizeAssumption DEF Numbers, Newlines
<1>2. CASE p > from + 1 /\ stream[p - 1] = "cr"
  BY <1>1, <1>2, SizeAssumption DEF LineEnd, Numbers
<1>3. CASE ~(p > from + 1 /\ stream[p - 1] = "cr")
  BY <1>1, <1>3, SizeAssumption DEF LineEnd, Numbers
<1> QED  BY <1>1, <1>2, <1>3

\* TypeOK in every reachable state.
THEOREM TypeCorrect == Spec => []TypeOK
<1>1. Init => TypeOK
  BY SizeAssumption DEF Init, TypeOK
<1>2. TypeOK /\ [Next]_vars => TypeOK'
  <2> SUFFICES ASSUME TypeOK, [Next]_vars PROVE TypeOK'
    OBVIOUS
  <2> USE SizeAssumption DEF TypeOK
  <2>1. CASE Read  BY <2>1 DEF Read
  <2>2. CASE TakeLine
    <3>1. PICK p \in Newlines :
            /\ handled' = IF Accepted(from + 1, LineEnd(p))
                            THEN Append(handled, <<from + 1, LineEnd(p)>>)
                            ELSE handled
            /\ from' = p
      BY <2>2 DEF TakeLine
    <3>2. /\ p \in Int /\ from + 1 <= p /\ p <= read /\ p <= N
          /\ LineEnd(p) \in Int /\ LineEnd(p) < p
      BY LineEndBounds DEF Numbers
    <3>3. from' \in 0 .. N /\ from' <= read'  BY <2>2, <3>1, <3>2 DEF TakeLine
    <3>4. handled' \in Seq((1 .. N) \X (1 .. N))
      <4>1. CASE Accepted(from + 1, LineEnd(p))
        <5>1. <<from + 1, LineEnd(p)>> \in (1 .. N) \X (1 .. N)
          BY <3>2, <4>1 DEF Accepted
        <5> QED  BY <3>1, <4>1, <5>1
      <4>2. CASE ~Accepted(from + 1, LineEnd(p))  BY <3>1, <4>2
      <4> QED  BY <4>1, <4>2
    <3> QED  BY <2>2, <3>3, <3>4 DEF TakeLine
  <2>3. CASE Scanned  BY <2>3 DEF Scanned
  <2>4. CASE Close  BY <2>4 DEF Close
  <2>5. CASE UNCHANGED vars  BY <2>5 DEF vars
  <2> QED  BY <2>1, <2>2, <2>3, <2>4, <2>5 DEF Next
<1> QED  BY <1>1, <1>2, PTL DEF Spec

-----------------------------------------------------------------------------
(* The buffer. *)

\* BufferBounded in every reachable state: one chunk is all that comes on top
\* of MAX_BUFFER, because the rest of a scan is measured before the next read.
THEOREM BufferStaysBounded == Spec => []BufferBounded
<1> DEFINE Inv == BufferBounded /\ (pc # "scan" => read - from <= MaxBuffer)
<1>1. Init => Inv
  BY SizeAssumption DEF Init, BufferBounded
<1>2. TypeOK /\ Inv /\ [Next]_vars => Inv'
  <2> SUFFICES ASSUME TypeOK, Inv, [Next]_vars PROVE Inv'
    OBVIOUS
  <2> USE SizeAssumption DEF TypeOK, BufferBounded
  <2>1. CASE Read  BY <2>1 DEF Read
  <2>2. CASE TakeLine
    <3>1. PICK p \in Newlines : from' = p  BY <2>2 DEF TakeLine
    <3>2. p \in Int /\ from + 1 <= p  BY LineEndBounds DEF Numbers
    <3> QED  BY <2>2, <3>1, <3>2 DEF TakeLine
  <2>3. CASE Scanned  BY <2>3 DEF Scanned, Oversized
  <2>4. CASE Close  BY <2>4 DEF Close
  <2>5. CASE UNCHANGED vars  BY <2>5 DEF vars
  <2> QED  BY <2>1, <2>2, <2>3, <2>4, <2>5 DEF Next
<1> QED  BY <1>1, <1>2, TypeCorrect, PTL DEF Spec

-----------------------------------------------------------------------------
(* The lines.  What HandledAreLines says of one line, as an operator of the *)
(* stream s, which never changes, strengthened by where the line ends:      *)
(* before everything that is still in the buffer.                           *)

StartIn(s, a) == a = 1 \/ s[a - 1] = "nl"

\* A line of s starts at t, goes on up to a, and has outgrown the buffer there.
LongBefore(s, t, a) ==
  StartIn(s, t) /\ a - t > MaxBuffer /\ \A q \in t .. a - 1 : s[q] # "nl"

WholeIn(s, a) == StartIn(s, a) \/ \E t \in 1 .. a - 1 : LongBefore(s, t, a)

LengthIn(s, a, b) == (b - a + 1) + 2 * Cardinality({q \in a .. b : s[q] = "raw"})

CutIn(s, a, b) ==
  /\ \/ s[b + 1] = "nl"
     \/ s[b + 1] = "cr" /\ s[b + 2] = "nl"
  /\ \A q \in a .. b : s[q] # "nl"
  /\ LengthIn(s, a, b) <= MaxLine
  /\ WholeIn(s, a)

HandledInv ==
  /\ \A h \in 1 .. Len(handled) :
       /\ CutIn(stream, handled[h][1], handled[h][2])
       /\ handled[h][2] <= from
       /\ h > 1 => handled[h - 1][2] < handled[h][1]
  /\ WholeIn(stream, from + 1)

\* The first newline in the buffer ends a line without newlines.
LEMMA FirstLineIsCut ==
  ASSUME TypeOK, WholeIn(stream, from + 1),
         NEW p \in Newlines, \A q \in Newlines : p <= q,
         Accepted(from + 1, LineEnd(p))
  PROVE  CutIn(stream, from + 1, LineEnd(p))
<1>1. /\ p \in Int /\ from + 1 <= p /\ p <= read /\ p <= N
      /\ LineEnd(p) \in Int /\ LineEnd(p) < p
  BY LineEndBounds DEF TypeOK, Numbers
<1>2. stream[p] = "nl"  BY DEF Newlines
<1>3. \/ stream[LineEnd(p) + 1] = "nl"
      \/ stream[LineEnd(p) + 1] = "cr" /\ stream[LineEnd(p) + 2] = "nl"
  <2>1. CASE p > from + 1 /\ stream[p - 1] = "cr"
    <3>1. LineEnd(p) = p - 2  BY <2>1 DEF LineEnd
    <3>2. LineEnd(p) + 1 = p - 1 /\ LineEnd(p) + 2 = p  BY <1>1, <3>1
    <3> QED  BY <1>2, <2>1, <3>2
  <2>2. CASE ~(p > from + 1 /\ stream[p - 1] = "cr")
    <3>1. LineEnd(p) = p - 1  BY <2>2 DEF LineEnd
    <3>2. LineEnd(p) + 1 = p  BY <1>1, <3>1
    <3> QED  BY <1>2, <3>2
  <2> QED  BY <2>1, <2>2
<1>4. ASSUME NEW q \in from + 1 .. LineEnd(p) PROVE stream[q] # "nl"
  <2>1. q \in from + 1 .. read /\ ~(p <= q)  BY <1>1 DEF TypeOK
  <2> QED  BY <2>1 DEF Newlines
<1>5. LengthIn(stream, from + 1, LineEnd(p)) <= MaxLine
  BY DEF Accepted, TextLength, LengthIn
<1> QED  BY <1>3, <1>4, <1>5 DEF CutIn

LEMMA TakeLineKeeps ==
  ASSUME TypeOK, HandledInv, TakeLine PROVE HandledInv'
<1>1. PICK p \in Newlines :
        /\ \A q \in Newlines : p <= q
        /\ handled' = IF Accepted(from + 1, LineEnd(p))
                        THEN Append(handled, <<from + 1, LineEnd(p)>>)
                        ELSE handled
        /\ from' = p
  BY DEF TakeLine
<1>2. /\ p \in Int /\ from + 1 <= p /\ p <= read /\ p <= N
      /\ LineEnd(p) \in Int /\ LineEnd(p) < p /\ from \in Int
  BY LineEndBounds DEF TypeOK, Numbers
<1>3. stream' = stream  BY DEF TakeLine
<1>4. WholeIn(stream, p + 1)
  <2>1. stream[p] = "nl"  BY DEF Newlines
  <2>2. (p + 1) - 1 = p  BY <1>2
  <2> QED  BY <2>1, <2>2 DEF WholeIn, StartIn
<1>5. \A h \in 1 .. Len(handled) :
        /\ handled[h][1] \in Int /\ handled[h][2] \in Int
        /\ CutIn(stream, handled[h][1], handled[h][2])
        /\ handled[h][2] <= p
        /\ handled[h][2] <= from
        /\ h > 1 => handled[h - 1][2] < handled[h][1]
  <2> TAKE h \in 1 .. Len(handled)
  <2>1. handled[h] \in (1 .. N) \X (1 .. N)  BY DEF TypeOK
  <2>2. handled[h][1] \in Int /\ handled[h][2] \in Int  BY <2>1, SizeAssumption
  <2>3. handled[h][2] <= from  BY DEF HandledInv
  <2>4. handled[h][2] <= p  BY <1>2, <2>2, <2>3
  <2> QED  BY <2>2, <2>3, <2>4 DEF HandledInv
<1>6. CASE ~Accepted(from + 1, LineEnd(p))
  <2>1. handled' = handled /\ from' = p  BY <1>1, <1>6
  <2> QED  BY <1>3, <1>4, <1>5, <2>1 DEF HandledInv
<1>7. CASE Accepted(from + 1, LineEnd(p))
  <2> DEFINE new == <<from + 1, LineEnd(p)>>
  <2>1. handled' = Append(handled, new) /\ from' = p  BY <1>1, <1>7
  <2>2. CutIn(stream, new[1], new[2])
    BY <1>1, <1>7, FirstLineIsCut DEF HandledInv
  <2>3. Len(handled) \in Nat /\ Len(handled') = Len(handled) + 1
    BY <2>1 DEF TypeOK
  <2>4. /\ \A h \in 1 .. Len(handled) : handled'[h] = handled[h]
        /\ handled'[Len(handled) + 1] = new
    BY <2>1 DEF TypeOK
  <2> HIDE DEF new
  <2>5. ASSUME NEW h \in 1 .. Len(handled')
        PROVE  /\ CutIn(stream, handled'[h][1], handled'[h][2])
               /\ handled'[h][2] <= p
               /\ h > 1 => handled'[h - 1][2] < handled'[h][1]
    <3>1. CASE h \in 1 .. Len(handled)
      <4>1. h > 1 => h - 1 \in 1 .. Len(handled)  BY <2>3, <3>1
      <4> QED  BY <1>5, <2>4, <3>1, <4>1
    <3>2. CASE h = Len(handled) + 1
      <4>1. handled'[h] = new  BY <2>4, <3>2
      <4>2. new[2] <= p /\ new[1] = from + 1  BY <1>2 DEF new
      <4>3. ASSUME h > 1 PROVE handled'[h - 1][2] < from + 1
        <5>1. h - 1 \in 1 .. Len(handled)  BY <2>3, <3>2, <4>3
        <5> QED  BY <1>2, <1>5, <2>4, <5>1
      <4> QED  BY <2>2, <4>1, <4>2, <4>3
    <3> QED  BY <2>3, <3>1, <3>2
  <2> QED  BY <1>3, <1>4, <2>1, <2>5 DEF HandledInv
<1> QED  BY <1>6, <1>7

\* A clear throws away more than MaxBuffer bytes of the line that is under way.
LEMMA ScannedKeeps ==
  ASSUME TypeOK, HandledInv, Scanned PROVE HandledInv'
<1>1. stream' = stream /\ handled' = handled  BY DEF Scanned
<1>2. /\ from \in Int /\ read \in Int /\ from <= read /\ 0 <= from
      /\ MaxBuffer \in Nat
  BY SizeAssumption DEF TypeOK
<1>3. ASSUME NEW h \in 1 .. Len(handled)
      PROVE  handled[h][2] \in Int /\ handled[h][2] <= from
  <2>1. handled[h] \in (1 .. N) \X (1 .. N)  BY DEF TypeOK
  <2> QED  BY <2>1, SizeAssumption DEF HandledInv
<1>4. CASE ~Oversized
  BY <1>1, <1>4 DEF Scanned, HandledInv
<1>5. CASE Oversized
  <2>1. from' = read /\ read - from > MaxBuffer  BY <1>5 DEF Scanned, Oversized
  <2>2. WholeIn(stream, read + 1)
    <3>1. ASSUME NEW q \in from + 1 .. read PROVE stream[q] # "nl"
      BY <3>1 DEF Scanned, Newlines
    <3>2. CASE StartIn(stream, from + 1)
      <4>1. from + 1 \in 1 .. (read + 1) - 1 /\ (read + 1) - (from + 1) > MaxBuffer
            /\ (read + 1) - 1 = read
        BY <1>2, <2>1
      <4> QED  BY <3>1, <3>2, <4>1 DEF WholeIn, LongBefore
    <3>3. CASE ~StartIn(stream, from + 1)
      <4>1. PICK t \in 1 .. (from + 1) - 1 : LongBefore(stream, t, from + 1)
        BY <3>3 DEF HandledInv, WholeIn
      <4>2. t \in 1 .. (read + 1) - 1 /\ (read + 1) - t > MaxBuffer
        BY <1>2, <2>1, <4>1 DEF LongBefore
      <4>3. ASSUME NEW q \in t .. (read + 1) - 1 PROVE stream[q] # "nl"
        <5>1. q \in t .. (from + 1) - 1 \/ q \in from + 1 .. read
          BY <1>2, <4>1, <4>3
        <5> QED  BY <3>1, <4>1, <5>1 DEF LongBefore
      <4> QED  BY <4>1, <4>2, <4>3 DEF WholeIn, LongBefore
    <3> QED  BY <3>2, <3>3
  <2>3. \A h \in 1 .. Len(handled) : handled[h][2] <= read
    BY <1>2, <1>3
  <2> QED  BY <1>1, <2>1, <2>2, <2>3 DEF HandledInv
<1> QED  BY <1>4, <1>5

\* HandledAreLines in every reachable state: whatever the chunks, a handled
\* line is never a join of two lines nor the head of one, and it lacks its
\* own head only if that was longer than MAX_BUFFER.  No other line of the
\* stream, however long, excuses a torn one.
THEOREM LinesCorrect == Spec => []HandledAreLines
<1>1. Init => HandledInv
  <2> SUFFICES ASSUME Init PROVE HandledInv
    OBVIOUS
  <2>1. Len(handled) = 0 /\ from + 1 = 1  BY DEF Init
  <2> QED  BY <2>1 DEF HandledInv, WholeIn, StartIn
<1>2. TypeOK /\ HandledInv /\ [Next]_vars => HandledInv'
  <2> SUFFICES ASSUME TypeOK, HandledInv, [Next]_vars PROVE HandledInv'
    OBVIOUS
  <2>1. CASE Read  BY <2>1 DEF Read, HandledInv
  <2>2. CASE TakeLine  BY <2>2, TakeLineKeeps
  <2>3. CASE Scanned  BY <2>3, ScannedKeeps
  <2>4. CASE Close  BY <2>4 DEF Close, HandledInv
  <2>5. CASE UNCHANGED vars  BY <2>5 DEF vars, HandledInv
  <2> QED  BY <2>1, <2>2, <2>3, <2>4, <2>5 DEF Next
<1>3. HandledInv => HandledAreLines
  BY DEF HandledInv, HandledAreLines, CutIn, WholeIn, LongBefore, StartIn, LineStart,
         LengthIn, TextLength
<1> QED  BY <1>1, <1>2, <1>3, TypeCorrect, PTL DEF Spec
=============================================================================
