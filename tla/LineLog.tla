------------------------------ MODULE LineLog -------------------------------
(***************************************************************************)
(* What the daemon promises about the lines it writes, whatever its        *)
(* threads do: there is one order in which it handles commands, and every  *)
(* connection reads the lines meant for it complete and in that order, up  *)
(* to the point where it closes.                                           *)
(***************************************************************************)
EXTENDS Naturals, Sequences

CONSTANTS
  Peer,
  Line,    \* the commands there can be
  Unread   \* what a peer has read before its first line

VARIABLES
  log,     \* the commands handled, each with the peers it wrote a line to
  count,   \* how many complete lines each peer has read
  latest,  \* the last of them
  open     \* the peers that have not closed their end

vars == <<log, count, latest, open>>

Init ==
  /\ log = <<>>
  /\ count = [p \in Peer |-> 0]
  /\ latest = [p \in Peer |-> Unread]
  /\ open = Peer

\* The lines meant for p, in that order.
For(p) ==
  LET upto[n \in 0 .. Len(log)] ==
        IF n = 0 THEN <<>>
        ELSE IF p \in log[n].to THEN Append(upto[n - 1], log[n].line)
        ELSE upto[n - 1]
  IN upto[Len(log)]

Handle ==
  /\ \E line \in Line, to \in SUBSET Peer :
       log' = Append(log, [line |-> line, to |-> to])
  /\ UNCHANGED <<count, latest, open>>

Receive(p) ==
  /\ p \in open
  /\ count[p] < Len(For(p))
  /\ count' = [count EXCEPT ![p] = @ + 1]
  /\ latest' = [latest EXCEPT ![p] = For(p)[count[p] + 1]]
  /\ UNCHANGED <<log, open>>

Close(p) ==
  /\ p \in open
  /\ open' = open \ {p}
  /\ UNCHANGED <<log, count, latest>>

Next == Handle \/ \E p \in Peer : Receive(p) \/ Close(p)

Spec == Init /\ [][Next]_vars
=============================================================================
