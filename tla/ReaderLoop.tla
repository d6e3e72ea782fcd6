----------------------------- MODULE ReaderLoop -----------------------------
(***************************************************************************)
(* The read loop of one connection, serve in erc-llmd/src/client.rs, up to *)
(* the length check of handle_line in server.rs.                           *)
(*                                                                         *)
(* The peer's bytes are stream, fixed from the start; they arrive in       *)
(* chunks of any size up to the read buffer.  The accumulation buffer buf  *)
(* always holds a contiguous piece of the stream, so it is kept as its two *)
(* ends: bytes from+1 .. read.  A complete line is taken out under the     *)
(* shared lock, one line at a time, so other connections' handlers run     *)
(* between any two steps of this module.                                   *)
(***************************************************************************)
EXTENDS Integers, FiniteSets, Sequences

CONSTANTS
  N,          \* how many bytes the peer sends
  ChunkSize,  \* size of the read buffer (4096)
  MaxBuffer,  \* MAX_BUFFER (1 MiB)
  MaxLine     \* Config::max_line_bytes (8192)

ASSUME SizeAssumption ==
  /\ N \in Nat /\ ChunkSize \in Nat \ {0} /\ MaxLine \in Nat
  /\ MaxBuffer \in Nat /\ MaxLine < MaxBuffer

\* Any byte, the two that frame lines, and a byte that is not UTF-8.
Byte == {"x", "nl", "cr", "raw"}

VARIABLES
  stream,    \* everything the peer sends
  from,      \* bytes drained or cleared from the buffer so far
  read,      \* bytes read from the socket so far
  pc,        \* "read", "scan" or "closed"
  handled    \* the lines handle_line let through, as <<first, last>> byte

vars == <<stream, from, read, pc, handled>>

Newlines == {p \in from + 1 .. read : stream[p] = "nl"}

\* The last byte of the line that ends before p, without its '\r'.
LineEnd(p) == IF p > from + 1 /\ stream[p - 1] = "cr" THEN p - 2 ELSE p - 1

\* Length in bytes after from_utf8_lossy: a stray byte becomes U+FFFD.
TextLength(a, b) == (b - a + 1) + 2 * Cardinality({p \in a .. b : stream[p] = "raw"})

\* Seeded faults: a line of exactly the cap is dropped; empty lines are not
\* skipped.
AcceptedBelowCap(a, b) == a <= b /\ TextLength(a, b) < MaxLine
AcceptedEmpty(a, b)    == TextLength(a, b) <= MaxLine

\* Empty lines are skipped, over-long ones dropped.
Accepted(a, b) == a <= b /\ TextLength(a, b) <= MaxLine

-----------------------------------------------------------------------------
Init ==
  /\ stream \in [1 .. N -> Byte]
  /\ from = 0 /\ read = 0
  /\ pc = "read"
  /\ handled = <<>>

\* stream.read() returns n > 0 bytes.
Read ==
  /\ pc = "read"
  /\ \E n \in 1 .. ChunkSize : read + n <= N /\ read' = read + n
  /\ pc' = "scan"
  /\ UNCHANGED <<stream, from, handled>>

\* One turn of the inner loop: drain a line, strip it, hand it over.
TakeLine ==
  /\ pc = "scan"
  /\ \E p \in Newlines :
       /\ \A q \in Newlines : p <= q
       /\ handled' = IF Accepted(from + 1, LineEnd(p))
                       THEN Append(handled, <<from + 1, LineEnd(p)>>) ELSE handled
       /\ from' = p
  /\ UNCHANGED <<stream, read, pc>>

\* Seeded faults: the buffer is never cleared; it is cleared beyond the line
\* cap already.
NeverOversized == FALSE
OverLineCap    == read - from > MaxLine

Oversized == read - from > MaxBuffer

\* No complete line is left: an oversized rest is thrown away.
Scanned ==
  /\ pc = "scan" /\ Newlines = {}
  /\ from' = IF Oversized THEN read ELSE from
  /\ pc' = "read"
  /\ UNCHANGED <<stream, read, handled>>

\* EOF, when the peer has sent everything, or a read error at any time.  The
\* unfinished line goes with the buffer.
Close ==
  /\ pc = "read"
  /\ pc' = "closed"
  /\ UNCHANGED <<stream, from, read, handled>>

Next == Read \/ TakeLine \/ Scanned \/ Close

\* The thread runs while it has something to do; the connection need not end.
Spec == Init /\ [][Next]_vars /\ WF_vars(Read) /\ WF_vars(TakeLine \/ Scanned)

-----------------------------------------------------------------------------
(* Properties. *)

LineStart(a) == a = 1 \/ stream[a - 1] = "nl"

\* The lines of the stream: first and last byte, without the line ending.
Lines == {l \in (1 .. N) \X (1 .. N) :
            /\ LineStart(l[1]) /\ l[1] <= l[2]
            /\ \A q \in l[1] .. l[2] : stream[q] # "nl"
            /\ LET b == l[2]
               IN \/ b < N /\ stream[b] # "cr" /\ stream[b + 1] = "nl"
                  \/ b < N - 1 /\ stream[b + 1] = "cr" /\ stream[b + 2] = "nl"}

TypeOK ==
  /\ stream \in [1 .. N -> Byte]
  /\ from \in 0 .. N /\ read \in 0 .. N /\ from <= read
  /\ pc \in {"read", "scan", "closed"}
  /\ handled \in Seq((1 .. N) \X (1 .. N))

\* The buffer is bounded whatever the peer sends, also by one that never
\* sends a newline.
BufferBounded ==
  /\ read - from <= MaxBuffer + ChunkSize
  /\ pc = "read" => read - from <= MaxBuffer

\* What is handled is never cut at the end nor joined from two lines, and
\* comes in the order of the stream; it is a whole line, or else the tail of
\* one of which more than MaxBuffer bytes come before it: only a clear of the
\* buffer cuts a line, and only one that has outgrown it.
HandledAreLines ==
  \A h \in 1 .. Len(handled) :
    LET a == handled[h][1]
        b == handled[h][2]
    IN /\ \/ stream[b + 1] = "nl"
          \/ stream[b + 1] = "cr" /\ stream[b + 2] = "nl"
       /\ \A q \in a .. b : stream[q] # "nl"
       /\ TextLength(a, b) <= MaxLine
       /\ h > 1 => handled[h - 1][2] < a
       /\ \/ LineStart(a)
          \/ \E s \in 1 .. a - 1 :
               /\ LineStart(s) /\ a - s > MaxBuffer
               /\ \A q \in s .. a - 1 : stream[q] # "nl"

\* A peer that keeps the connection gets every line within the cap handled,
\* counting a stray byte as the three bytes it is decoded to.
ShortLinesAreHandled ==
  <>(pc = "closed" \/ \A l \in Lines :
       TextLength(l[1], l[2]) <= MaxLine
       => \E h \in 1 .. Len(handled) : handled[h] = l)

\* README.md: "inbound lines over 8192 bytes are dropped": nothing that is
\* handled is a piece of a line longer than the cap.
LongLinesAreDropped ==
  \A h \in 1 .. Len(handled) :
    \E l \in Lines : /\ l[1] <= handled[h][1] /\ handled[h][2] <= l[2]
                     /\ l[2] - l[1] + 1 <= MaxLine
=============================================================================
