------------------------------ MODULE Threads -------------------------------
(***************************************************************************)
(* The threads of the daemon: the accept loop (lib.rs), one serve thread   *)
(* per connection (client.rs) and the writes a handler makes to the        *)
(* sockets of its peers while it holds the one mutex (send and broadcast   *)
(* in server.rs).                                                          *)
(*                                                                         *)
(* Ircd takes a handler as one step; here it is as many steps as it has    *)
(* writes, a line being two of them (the text, then CRLF), each of which   *)
(* blocks while the peer's socket is full.  One channel stands for the     *)
(* audience of every command, and one line for all that a handler writes   *)
(* to one connection.                                                      *)
(*                                                                         *)
(* A peer reads its socket whatever else it does; one of Mute may stop     *)
(* reading for good.  What a peer sends, its script, is fixed.             *)
(***************************************************************************)
EXTENDS Naturals, FiniteSets, Sequences, SequencesExt

CONSTANTS
  Peer,
  Mute,     \* the peers that may stop reading what is written to them
  Script,   \* by peer: the commands it sends, in order
  Capacity, \* how many writes a peer's socket buffers
  Free,     \* no thread holds the mutex
  NoLine,
  Crlf      \* what follows the text of every line

Command == {"JOIN", "PRIVMSG", "PING", "QUIT"}

ASSUME ThreadAssumption ==
  /\ IsFiniteSet(Peer) /\ Mute \subseteq Peer
  /\ Script \in [Peer -> Seq(Command)]
  /\ Capacity \in Nat \ {0}
  /\ Free \notin Peer
  /\ {NoLine, Crlf} \cap (Peer \X Nat) = {}

\* A command: whose it is and its place in the script; place 0 is the drop
\* at the end of the connection.
Line == Peer \X Nat

VARIABLES
  open,     \* peers that have not closed their end
  clients,  \* keys of ServerState.clients
  members,  \* Channel.members of the one channel
  taken,    \* how many commands of its script a peer's thread has taken
  pc,       \* thread by peer: "none", "read", "lock", "write" or "ended"
  line,     \* the command the thread is at
  lock,     \* who holds the mutex
  todo,     \* by thread: the writes left, as <<peer, piece>>
  wire,     \* by peer: what has been written to it and not read yet
  got,      \* by peer: what it has read
  log       \* history: the commands in the order of their critical sections

server  == <<clients, members, lock, log>>
threads == <<taken, pc, line, todo>>
sockets == <<open, wire, got>>
vars    == <<server, threads, sockets>>

-----------------------------------------------------------------------------
Init ==
  /\ open = Peer
  /\ clients = {} /\ members = <<>>
  /\ taken = [p \in Peer |-> 0]
  /\ pc = [p \in Peer |-> "none"]
  /\ line = [p \in Peer |-> NoLine]
  /\ lock = Free
  /\ todo = [p \in Peer |-> <<>>]
  /\ wire = [p \in Peer |-> <<>>] /\ got = [p \in Peer |-> <<>>]
  /\ log = <<>>

(* The peers. *)

PeerReads(p) ==
  /\ p \in open /\ wire[p] # <<>>
  /\ got' = [got EXCEPT ![p] = Append(@, Head(wire[p]))]
  /\ wire' = [wire EXCEPT ![p] = Tail(@)]
  /\ UNCHANGED <<server, threads, open>>

PeerCloses(p) ==
  /\ p \in open
  /\ open' = open \ {p}
  /\ UNCHANGED <<server, threads, wire, got>>

(* The daemon. *)

\* Seeded fault: the critical sections are not exclusive.
LockIgnored == TRUE

LockFree == lock = Free

\* The accept loop: add_client under the mutex, then spawn.
Accept(p) ==
  /\ pc[p] = "none" /\ LockFree
  /\ clients' = clients \cup {p}
  /\ pc' = [pc EXCEPT ![p] = "read"]
  /\ UNCHANGED <<members, lock, log, taken, line, todo, sockets>>

\* The next complete line has arrived; a peer may have closed since it sent
\* it.
TakeLine(p) ==
  /\ pc[p] = "read" /\ taken[p] < Len(Script[p])
  /\ taken' = [taken EXCEPT ![p] = @ + 1]
  /\ line' = [line EXCEPT ![p] = <<p, taken[p] + 1>>]
  /\ pc' = [pc EXCEPT ![p] = "lock"]
  /\ UNCHANGED <<server, todo, sockets>>

\* Seeded fault: the thread ends without dropping its client.
EndQuietly(p) ==
  /\ pc[p] = "read" /\ p \notin open
  /\ pc' = [pc EXCEPT ![p] = "ended"]
  /\ UNCHANGED <<server, taken, line, todo, sockets>>

\* EOF, or a read error that loses what was still to be read.
ReadEnds(p) ==
  /\ pc[p] = "read" /\ p \notin open
  /\ line' = [line EXCEPT ![p] = <<p, 0>>]
  /\ pc' = [pc EXCEPT ![p] = "lock"]
  /\ UNCHANGED <<server, taken, todo, sockets>>

CommandOf(l) == IF l[2] = 0 THEN "QUIT" ELSE Script[l[1]][l[2]]

\* The member list after a command of p, who is in it once at most.
MembersAfter(p, cmd) ==
  CASE cmd = "JOIN" /\ p \in clients /\ ~Contains(members, p) -> Append(members, p)
    [] cmd = "QUIT" -> RemoveFirst(members, p)
    [] OTHER        -> members

\* Who is written to, in which order: the joiner's echo comes first; PING is
\* answered; everything else goes to the other members; a client that is not
\* in the map hears nothing and says nothing.
WrittenTo(p, cmd) ==
  LET others == RemoveFirst(members, p)
  IN IF p \notin clients THEN <<>>
     ELSE CASE cmd = "JOIN" -> <<p>> \o others
            [] cmd = "PING" -> <<p>>
            [] cmd = "QUIT" -> IF Contains(members, p) THEN others ELSE <<>>
            [] OTHER        -> others

\* One line is two writes.
Writes(dests, l) ==
  [n \in 1 .. 2 * Len(dests) |->
     <<dests[(n + 1) \div 2], IF n % 2 = 1 THEN l ELSE Crlf>>]

\* lock() returns: the handler runs, up to its writes.
Lock(p) ==
  LET cmd == CommandOf(line[p])
      to  == WrittenTo(p, cmd)
  IN /\ pc[p] = "lock" /\ LockFree
     /\ lock' = p
     /\ pc' = [pc EXCEPT ![p] = "write"]
     /\ members' = MembersAfter(p, cmd)
     /\ todo' = [todo EXCEPT ![p] = Writes(to, line[p])]
     /\ log' = Append(log, [line |-> line[p], to |-> Range(to)])
     /\ UNCHANGED <<clients, taken, line, sockets>>

\* Seeded fault: a write to a peer that has gone waits for it.
WriteWaits(p) ==
  /\ pc[p] = "write" /\ todo[p] # <<>>
  /\ LET q == Head(todo[p])[1]
     IN /\ q \in open /\ Len(wire[q]) < Capacity
        /\ wire' = [wire EXCEPT ![q] = Append(@, Head(todo[p])[2])]
  /\ todo' = [todo EXCEPT ![p] = Tail(@)]
  /\ UNCHANGED <<server, taken, pc, line, open, got>>

\* One write_all: it waits for room, and fails, unnoticed, when the peer has
\* closed.
Write(p) ==
  /\ pc[p] = "write" /\ todo[p] # <<>>
  /\ LET q == Head(todo[p])[1]
     IN IF q \in open
          THEN /\ Len(wire[q]) < Capacity
               /\ wire' = [wire EXCEPT ![q] = Append(@, Head(todo[p])[2])]
          ELSE wire' = wire
  /\ todo' = [todo EXCEPT ![p] = Tail(@)]
  /\ UNCHANGED <<server, taken, pc, line, open, got>>

\* Seeded fault: the guard outlives the handler.
KeepLock(p) ==
  /\ pc[p] = "write" /\ todo[p] = <<>>
  /\ pc' = [pc EXCEPT ![p] = IF line[p][2] = 0 THEN "ended" ELSE "read"]
  /\ clients' = IF CommandOf(line[p]) = "QUIT" THEN clients \ {p} ELSE clients
  /\ line' = [line EXCEPT ![p] = NoLine]
  /\ UNCHANGED <<members, lock, log, taken, todo, sockets>>

\* The handler returns and the guard is dropped: drop_client removes the
\* client last.  After EOF the thread ends; after a QUIT line it goes on
\* reading.
Unlock(p) ==
  /\ pc[p] = "write" /\ todo[p] = <<>>
  /\ lock' = Free
  /\ pc' = [pc EXCEPT ![p] = IF line[p][2] = 0 THEN "ended" ELSE "read"]
  /\ clients' = IF CommandOf(line[p]) = "QUIT" THEN clients \ {p} ELSE clients
  /\ line' = [line EXCEPT ![p] = NoLine]
  /\ UNCHANGED <<members, log, taken, todo, sockets>>

Thread(p) == ReadEnds(p) \/ Lock(p) \/ Write(p) \/ Unlock(p)

Next ==
  \E p \in Peer :
    \/ PeerReads(p) \/ PeerCloses(p)
    \/ Accept(p) \/ TakeLine(p) \/ Thread(p)

\* Every thread runs when it can, and what is written to a peer is read unless
\* the peer is mute.  Nothing makes a peer send or close.  The mutex is not fair; a
\* thread is sure to get it because the others run out of commands.
Fairness ==
  /\ \A p \in Peer : WF_vars(Accept(p)) /\ WF_vars(Thread(p))
  /\ \A p \in Peer \ Mute : WF_vars(PeerReads(p))

Spec == Init /\ [][Next]_vars /\ Fairness

-----------------------------------------------------------------------------
(* Properties. *)

\* The mutex is held exactly while one thread is in its critical section,
\* and only that thread has writes to make.
OneAtATime ==
  /\ \A p \in Peer : lock = p <=> pc[p] = "write"
  /\ \A p \in Peer : todo[p] # <<>> => lock = p

\* A client is in the map only while a thread serves its connection.
ClientsAreServed == \A p \in clients : pc[p] \notin {"none", "ended"}

\* A thread that waits for the mutex, or has it, is at a command it has taken
\* from its own connection, or at the end of that.
AtOwnCommand ==
  \A p \in Peer :
    IF pc[p] \in {"lock", "write"}
      THEN line[p] \in {p} \X (0 .. taken[p])
      ELSE line[p] = NoLine

\* Types, and what every thread does with the mutex and its client.
TypeOK ==
  /\ open \subseteq Peer /\ clients \subseteq Peer
  /\ members \in Seq(Peer) /\ IsInjective(members)
  /\ \A p \in Peer : taken[p] <= Len(Script[p])
  /\ pc \in [Peer -> {"none", "read", "lock", "write", "ended"}]
  /\ \A p \in Peer : Len(wire[p]) <= Capacity
  /\ OneAtATime /\ ClientsAreServed /\ AtOwnCommand

\* What a peer has read last, if it is a whole line.
LastRead(p) ==
  LET k == 2 * (Len(got[p]) \div 2)
  IN IF k = 0 THEN NoLine
     ELSE IF got[p][k] = Crlf THEN got[p][k - 1] ELSE Crlf

Log == INSTANCE LineLog WITH
  Line   <- UNION {{p} \X (0 .. Len(Script[p])) : p \in Peer},
  Unread <- NoLine,
  count  <- [p \in Peer |-> Len(got[p]) \div 2],
  latest <- [p \in Peer |-> LastRead(p)]

\* The pieces meant for p, in the order of the critical sections.
Meant(p) ==
  [n \in 1 .. 2 * Len(Log!For(p)) |->
     IF n % 2 = 1 THEN Log!For(p)[(n + 1) \div 2] ELSE Crlf]

\* What the running handler has still to write to p: its line, the end of
\* it, or nothing.
Pending(p) ==
  IF lock = Free THEN <<>>
  ELSE IF Contains(todo[lock], <<p, line[lock]>>) THEN <<line[lock], Crlf>>
  ELSE IF Contains(todo[lock], <<p, Crlf>>) THEN <<Crlf>>
  ELSE <<>>

\* No line is torn, lost or out of order: what a connected peer has read,
\* what lies in its socket and what is still to be written are together the
\* lines meant for it.  A peer that has closed has read a prefix of them.
NothingIsLost ==
  \A p \in Peer :
    /\ p \in open => got[p] \o wire[p] \o Pending(p) = Meant(p)
    /\ IsPrefix(got[p], Meant(p))

\* For its peers the threads are one sequence of commands.
ImplementsLineLog == Log!Spec

\* A peer that does not read stalls everyone, but only until it closes: if
\* every such peer closes in the end, every command a thread has taken off
\* its socket is handled to the end.  (There are finitely many commands, so
\* in the end none is under way.)
StallsEnd ==
  (\A m \in Mute : <>(m \notin open))
  => <>[](\A p \in Peer : pc[p] \in {"none", "read", "ended"})

\* Likewise a peer that has closed is dropped in the end: it leaves the
\* client map and the channel, for good, and its thread ends.
ClosedPeersLeave ==
  (\A m \in Mute : <>(m \notin open))
  => <>[](\A p \in Peer \ open :
            p \notin clients /\ ~Contains(members, p) /\ pc[p] = "ended")
=============================================================================
