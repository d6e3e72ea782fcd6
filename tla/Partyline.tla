------------------------------ MODULE Partyline ------------------------------
(***************************************************************************)
(* What the partyline promises its participants, without connections,      *)
(* commands or registration: named people in rooms, where everybody in a   *)
(* room sees the same people and the same topic.  Each step is one thing   *)
(* one participant did, and all rosters follow in the same step.           *)
(***************************************************************************)
CONSTANTS Person, Name, Lower, Room, Topic, NoName, NoTopic

VARIABLES
  name,     \* the name a present participant goes by, NoName for the others
  room,     \* the people in each room
  board,    \* the topic of each room
  shown,    \* whom each participant sees in each room
  shownBoard

vars == <<name, room, board, shown, shownBoard>>

People(k) == {name[p] : p \in room[k]}

\* n differs from the name of everybody else who is present.
Free(n, p) == \A q \in Person \ {p} : name[q] # NoName => Lower[name[q]] # Lower[n]

\* Everybody sees the rooms they are in, and nothing of the others.
InStep ==
  /\ shown = [p \in Person |-> [k \in Room |->
                IF p \in room[k] THEN People(k) ELSE {}]]
  /\ shownBoard = [p \in Person |-> [k \in Room |->
                IF p \in room[k] THEN board[k] ELSE NoTopic]]

Init ==
  /\ name = [p \in Person |-> NoName]
  /\ room = [k \in Room |-> {}]
  /\ board \in [Room -> Topic]
  /\ InStep

Arrive(p, n) ==
  /\ name[p] = NoName /\ Free(n, p)
  /\ name' = [name EXCEPT ![p] = n]
  /\ UNCHANGED <<room, board>>

Rename(p, n) ==
  /\ name[p] # NoName /\ Free(n, p)
  /\ name' = [name EXCEPT ![p] = n]
  /\ UNCHANGED <<room, board>>

Enter(p, ks) ==
  /\ name[p] # NoName
  /\ room' = [k \in Room |-> IF k \in ks THEN room[k] \cup {p} ELSE room[k]]
  /\ UNCHANGED <<name, board>>

Leave(p, ks) ==
  /\ name[p] # NoName
  /\ room' = [k \in Room |-> IF k \in ks THEN room[k] \ {p} ELSE room[k]]
  /\ UNCHANGED <<name, board>>

Depart(p) ==
  /\ name[p] # NoName
  /\ name' = [name EXCEPT ![p] = NoName]
  /\ room' = [k \in Room |-> room[k] \ {p}]
  /\ UNCHANGED board

\* Anybody may change any topic, from outside the room too.
Retitle(k, t) ==
  /\ board' = [board EXCEPT ![k] = t]
  /\ UNCHANGED <<name, room>>

Act ==
  \/ \E p \in Person, n \in Name : Arrive(p, n) \/ Rename(p, n)
  \/ \E p \in Person, ks \in SUBSET Room : Enter(p, ks) \/ Leave(p, ks)
  \/ \E p \in Person : Depart(p)
  \/ \E k \in Room, t \in Topic : Retitle(k, t)

Spec == Init /\ [][Act /\ InStep']_vars
=============================================================================
