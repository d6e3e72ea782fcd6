--------------------------- MODULE IrcdRefinement ---------------------------
(***************************************************************************)
(* Ircd implements Partyline: a participant is a registered client, the    *)
(* people of a room are the member list of its channel, and what is shown  *)
(* to a participant is what the lines written to its socket say.           *)
(***************************************************************************)
EXTENDS Ircd

NameOf == [i \in Conn |-> IF registered[i] THEN nick[i] ELSE NoNick]
RoomOf == [k \in Key |-> MemberOf(k)]

Line == INSTANCE Partyline
          WITH Person <- Conn, Room <- Key, NoName <- NoNick,
               name <- NameOf, room <- RoomOf, board <- topic,
               shown <- seen, shownBoard <- seenTopic

\* Every handler is one act of one participant that all rosters follow, or
\* changes nothing the participants can see: commands of several channels,
\* of ids that have quit and of clients still registering included.
ImplementsPartyline == Line!Spec
=============================================================================
