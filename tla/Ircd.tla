-------------------------------- MODULE Ircd --------------------------------
(***************************************************************************)
(* The erc-llmd server state and its command handlers                      *)
(* (erc-llmd/src/server.rs), with the connection lifecycle that drives     *)
(* them (run_accept_loop in lib.rs, serve in client.rs).                   *)
(*                                                                         *)
(* One thread per connection, one mutex around the whole ServerState: a    *)
(* handler runs from lock to unlock without interference, so one handler   *)
(* is one step here.  What the threads may interleave is the order of the  *)
(* lines of different connections, and that is left open.                  *)
(*                                                                         *)
(* The lines written to a connection are not kept.  They are folded, as    *)
(* they are written, into what a client that reads its socket in order     *)
(* will believe after the last of them: seen (who is in each channel I am  *)
(* in) and seenTopic.  heard is the delivery of the latest PRIVMSG or      *)
(* NOTICE.  These three are history variables: no guard reads them.        *)
(***************************************************************************)
EXTENDS Naturals

CONSTANTS
  Conn,          \* connection ids; next_id hands each of them out once
  Name,          \* nickname tokens a line may carry, valid or not
  ValidName,     \* those that valid_nick accepts
  Chan,          \* channel tokens: the tokens that start with '#'
  Lower,         \* to_ascii_lowercase, on names and on channel tokens
  TargetLists,   \* the target lists of a JOIN or PART line, as sets of tokens
  Topic,         \* topic texts
  DefaultTopic,  \* DEFAULT_TOPIC
  DefaultChan,   \* Config::default_channel
  NoNick,        \* Option::None for a nick
  NoTopic,       \* no topic has been shown for this channel
  Silence        \* no message was delivered by the latest step

Token == Name \cup Chan
Key   == {Lower[c] : c \in Chan}    \* what the channel map is keyed by

ASSUME NameAssumption ==
  /\ ValidName \subseteq Name
  /\ NoNick \notin Name
  /\ Name \cap Chan = {}
  /\ Lower \in [Token -> Token]
  /\ \A n \in Name : Lower[n] \notin Key
  /\ TargetLists \subseteq SUBSET Token
ASSUME ChannelAssumption ==
  /\ DefaultChan \in Chan
  /\ DefaultTopic \in Topic
  /\ NoTopic \notin Topic

VARIABLES
  accepted,    \* ids handed out by the accept loop so far
  reading,     \* ids whose serve loop still reads its socket
  live,        \* keys of ServerState.clients
  nick, user, registered, capneg,   \* the fields of Client, by id
  channels,    \* keys of ServerState.channels
  topic,       \* Channel.topic
  members,     \* Channel.members as a bag: how often each id is listed
  seen, seenTopic, heard            \* what the written lines tell the clients

identity == <<nick, user, registered, capneg>>
conns    == <<accepted, reading, live>>
rooms    == <<channels, topic, members>>
views    == <<seen, seenTopic>>
vars     == <<conns, identity, rooms, views, heard>>

-----------------------------------------------------------------------------
(* Look-ups of server.rs. *)

MemberOf(k)  == {j \in Conn : members[k][j] > 0}
\* Seeded fault: only the first channel found counts, as with find for filter.
FirstRoomOf(i) ==
  LET all == {k \in Key : i \in MemberOf(k)}
  IN {k \in all : k = CHOOSE r \in all : TRUE}
RoomsOf(i)   == {k \in Key : i \in MemberOf(k)}
NamesAt(ids) == {nick[j] : j \in ids} \ {NoNick}          \* member_names

\* Seeded fault: the contains test before the push is gone.
EnrolledAgain(k, i) == [members[k] EXCEPT ![i] = @ + 1]

\* The member list of k after cmd_join has pushed i, unless i is on it.
Enrolled(k, i) ==
  IF members[k][i] = 0 THEN [members[k] EXCEPT ![i] = @ + 1] ELSE members[k]

\* Seeded fault: the sender is not excepted.
AudienceEchoed(i, k) == members[k]

\* broadcast(k, line, Some(i)): one copy per listing, none for the sender.
Audience(i, k) == [j \in Conn |-> IF j = i THEN 0 ELSE members[k][j]]

\* Seeded fault: nicks are compared in their exact spelling.
HoldersExact(n) == {j \in live : nick[j] = n}

\* The ids find_client may return for n: the map is scanned in an
\* unspecified order, and the first match wins.
Holders(n) == {j \in live : nick[j] # NoNick /\ Lower[nick[j]] = Lower[n]}

\* Seeded faults: USER does not complete a registration; the registered flag
\* is computed anew instead of kept.
NickMayRegister(i) ==
  registered' = [registered EXCEPT ![i] =
                   @ \/ (nick'[i] # NoNick /\ user[i] /\ ~capneg'[i])]
RegisterAnew(i) ==
  registered' = [registered EXCEPT ![i] =
                   nick'[i] # NoNick /\ user'[i] /\ ~capneg'[i]]

\* maybe_register, called after its caller has stored the new fields.
MaybeRegister(i) ==
  registered' = [registered EXCEPT ![i] =
                   @ \/ (nick'[i] # NoNick /\ user'[i] /\ ~capneg'[i])]

\* Seeded fault: the NICK line goes only to clients that already list the new
\* name.
RenamedLate(ids, old, new) ==
  [j \in Conn |-> [k \in Key |->
     IF new \in seen[j][k] THEN seen[j][k] \ {old} ELSE seen[j][k]]]

\* The new name replaces the old one in the rosters of a set of clients.
Renamed(ids, old, new) ==
  [j \in Conn |-> [k \in Key |->
     IF j \in ids /\ old \in seen[j][k]
       THEN (seen[j][k] \ {old}) \cup {new} ELSE seen[j][k]]]

-----------------------------------------------------------------------------
Init ==
  /\ accepted = {} /\ reading = {} /\ live = {}
  /\ nick = [i \in Conn |-> NoNick]
  /\ user = [i \in Conn |-> FALSE]
  /\ registered = [i \in Conn |-> FALSE]
  /\ capneg = [i \in Conn |-> FALSE]
  /\ channels = {Lower[DefaultChan]}
  /\ topic = [k \in Key |-> DefaultTopic]
  /\ members = [k \in Key |-> [i \in Conn |-> 0]]
  /\ seen = [i \in Conn |-> [k \in Key |-> {}]]
  /\ seenTopic = [i \in Conn |-> [k \in Key |-> NoTopic]]
  /\ heard = Silence

\* add_client runs in the accept loop, before the serve thread is spawned.
Accept(i) ==
  /\ i \notin accepted
  /\ accepted' = accepted \cup {i}
  /\ reading' = reading \cup {i}
  /\ live' = live \cup {i}
  /\ heard' = Silence
  /\ UNCHANGED <<identity, rooms, views>>

\* drop_client: out of every channel, one QUIT line per shared channel, out
\* of the client map.  For an id that is not in the map it does nothing, and
\* without a nick it touches no channel.
DropClient(i) ==
  LET left  == IF nick[i] = NoNick THEN {} ELSE RoomsOf(i)
      peers == UNION {MemberOf(k) : k \in left}
  IN /\ members' = [k \in Key |->
                      IF k \in left THEN [members[k] EXCEPT ![i] = 0]
                                    ELSE members[k]]
     /\ seen' = [j \in Conn |-> [k \in Key |->
                   IF j = i THEN {}
                   ELSE IF j \in peers THEN seen[j][k] \ {nick[i]}
                   ELSE seen[j][k]]]
     /\ seenTopic' = [seenTopic EXCEPT ![i] = [k \in Key |-> NoTopic]]
     /\ live' = live \ {i}
     /\ nick' = [nick EXCEPT ![i] = NoNick]
     /\ user' = [user EXCEPT ![i] = FALSE]
     /\ registered' = [registered EXCEPT ![i] = FALSE]
     /\ capneg' = [capneg EXCEPT ![i] = FALSE]
     /\ heard' = Silence
     /\ UNCHANGED <<accepted, channels, topic>>

\* QUIT drops the client and leaves its thread reading: later lines of that
\* connection are handled for an id that is in no map.
Quit(i) ==
  /\ i \in reading
  /\ DropClient(i)
  /\ UNCHANGED reading

\* Seeded fault: the serve loop ends without dropping the client.
ThreadEnds(i) ==
  /\ i \in reading
  /\ reading' = reading \ {i}
  /\ heard' = Silence
  /\ UNCHANGED <<accepted, live, identity, rooms, views>>

\* EOF or a read error ends the serve loop, which drops the client.
ConnectionClosed(i) ==
  /\ i \in reading
  /\ reading' = reading \ {i}
  /\ DropClient(i)

CapLs(i) ==
  /\ i \in reading
  /\ capneg' = [capneg EXCEPT ![i] = i \in live]
  /\ heard' = Silence
  /\ UNCHANGED <<conns, nick, user, registered, rooms, views>>

CapEnd(i) ==
  /\ i \in reading
  /\ capneg' = [capneg EXCEPT ![i] = FALSE]
  /\ UNCHANGED <<nick, user>>
  /\ MaybeRegister(i)
  /\ heard' = Silence
  /\ UNCHANGED <<conns, rooms, views>>

\* USER stores its argument (only its presence matters) and may complete the
\* registration.
User(i) ==
  /\ i \in reading
  /\ user' = [user EXCEPT ![i] = i \in live]
  /\ UNCHANGED <<nick, capneg>>
  /\ MaybeRegister(i)
  /\ heard' = Silence
  /\ UNCHANGED <<conns, rooms, views>>

\* The in-use test of cmd_nick: keeping one's own name, in another spelling
\* or not, is always allowed.
InUse(i, n) ==
  /\ ~(nick[i] # NoNick /\ Lower[nick[i]] = Lower[n])
  /\ Holders(n) # {}

\* NICK refused, with 432 or 433.
NickRefused(i, n) ==
  /\ i \in reading
  /\ n \notin ValidName \/ InUse(i, n)
  /\ heard' = Silence
  /\ UNCHANGED <<conns, identity, rooms, views>>

\* NICK accepted.  A registered client's change is announced, once for each
\* channel it is in; before registration it may complete the registration.
Nick(i, n) ==
  /\ i \in reading
  /\ n \in ValidName /\ ~InUse(i, n)
  /\ nick' = [nick EXCEPT ![i] = IF i \in live THEN n ELSE NoNick]
  /\ UNCHANGED <<user, capneg>>
  /\ MaybeRegister(i)
  /\ seen' = IF registered[i]
               THEN Renamed(UNION {MemberOf(k) : k \in RoomsOf(i)}, nick[i], n)
               ELSE seen
  /\ heard' = Silence
  /\ UNCHANGED <<conns, rooms, seenTopic>>

\* One JOIN line with a comma-separated list; tokens without '#' are skipped.
\* The joiner gets its echo, the topic (332) and the names (353), the others
\* the JOIN, also when the client is already a member.
Join(i, toks) ==
  LET ks == {Lower[c] : c \in toks \cap Chan}
  IN /\ i \in reading /\ registered[i] /\ nick[i] # NoNick
     /\ channels' = channels \cup ks
     /\ members' = [k \in Key |-> IF k \in ks THEN Enrolled(k, i) ELSE members[k]]
     /\ seen' = [j \in Conn |-> [k \in Key |->
          IF k \notin ks THEN seen[j][k]
          ELSE IF j = i THEN NamesAt(MemberOf(k) \cup {i})
          ELSE IF j \in MemberOf(k) THEN seen[j][k] \cup {nick[i]}
          ELSE seen[j][k]]]
     /\ seenTopic' = [seenTopic EXCEPT ![i] =
          [k \in Key |-> IF k \in ks THEN topic[k] ELSE @[k]]]
     /\ heard' = Silence
     /\ UNCHANGED <<conns, identity, topic>>

\* One PART line: broadcast to the members, the leaver included, then
\* retain() removes every occurrence of the id.
Part(i, toks) ==
  LET left == {Lower[c] : c \in toks} \cap RoomsOf(i)
  IN /\ i \in reading /\ nick[i] # NoNick
     /\ members' = [k \in Key |->
          IF k \in left THEN [members[k] EXCEPT ![i] = 0] ELSE members[k]]
     /\ seen' = [j \in Conn |-> [k \in Key |->
          IF k \notin left THEN seen[j][k]
          ELSE IF j = i THEN {}
          ELSE IF j \in MemberOf(k) THEN seen[j][k] \ {nick[i]}
          ELSE seen[j][k]]]
     /\ seenTopic' = [seenTopic EXCEPT ![i] =
          [k \in Key |-> IF k \in left THEN NoTopic ELSE @[k]]]
     /\ heard' = Silence
     /\ UNCHANGED <<conns, identity, channels, topic>>

\* NAMES: a member's roster is replaced by the 353 reply.
Names(i, c) ==
  LET k == Lower[c]
  IN /\ i \in reading
     /\ seen' = IF i \in MemberOf(k)
                  THEN [seen EXCEPT ![i][k] = NamesAt(MemberOf(k))] ELSE seen
     /\ heard' = Silence
     /\ UNCHANGED <<conns, identity, rooms, seenTopic>>

\* TOPIC with a text, on a channel that exists.  cmd_topic asks neither for
\* registration nor for membership, nor even for the id to be in the map.
SetTopic(i, c, t) ==
  LET k == Lower[c]
  IN /\ i \in reading /\ k \in channels
     /\ topic' = [topic EXCEPT ![k] = t]
     /\ seenTopic' = [j \in Conn |->
          IF j \in MemberOf(k) THEN [seenTopic[j] EXCEPT ![k] = t]
                               ELSE seenTopic[j]]
     /\ heard' = Silence
     /\ UNCHANGED <<conns, identity, channels, members, seen>>

\* PRIVMSG or NOTICE to a channel: one copy per listing in members, except
\* to the sender.  The sender need not be a member.
SayChannel(i, c) ==
  LET k == Lower[c]
  IN /\ i \in reading /\ registered[i] /\ nick[i] # NoNick
     /\ heard' = [from |-> i, to |-> c,
                  copies |-> Audience(i, k)]
     /\ UNCHANGED <<conns, identity, rooms, views>>

\* PRIVMSG or NOTICE to a nick: whichever client find_client finds first.
SayNick(i, n) ==
  /\ i \in reading /\ registered[i] /\ nick[i] # NoNick
  /\ \E dst \in Holders(n) :
       heard' = [from |-> i, to |-> n,
                 copies |-> [j \in Conn |-> IF j = dst THEN 1 ELSE 0]]
  /\ UNCHANGED <<conns, identity, rooms, views>>

Next ==
  \E i \in Conn :
    \/ Accept(i)
    \/ Quit(i)
    \/ ConnectionClosed(i)
    \/ CapLs(i)
    \/ CapEnd(i)
    \/ User(i)
    \/ \E n \in Name : NickRefused(i, n)
    \/ \E n \in Name : Nick(i, n)
    \/ \E toks \in TargetLists : Join(i, toks)
    \/ \E toks \in TargetLists : Part(i, toks)
    \/ \E c \in Chan : Names(i, c)
    \/ \E c \in Chan, t \in Topic : SetTopic(i, c, t)
    \/ \E c \in Chan : SayChannel(i, c)
    \/ \E n \in Name : SayNick(i, n)

Spec == Init /\ [][Next]_vars
-----------------------------------------------------------------------------
(* Properties. *)

Delivery == [from : Conn, to : Token, copies : [Conn -> Nat]]

\* Type correctness, and the lifecycle of a connection: a client is in the
\* map only while its thread reads, and an id is never handed out twice.
TypeOK ==
  /\ live \subseteq reading /\ reading \subseteq accepted
  /\ accepted \subseteq Conn
  /\ nick \in [Conn -> ValidName \cup {NoNick}]
  /\ user \in [Conn -> BOOLEAN]
  /\ registered \in [Conn -> BOOLEAN]
  /\ capneg \in [Conn -> BOOLEAN]
  /\ channels \subseteq Key
  /\ topic \in [Key -> Topic]
  /\ members \in [Key -> [Conn -> Nat]]
  /\ seen \in [Conn -> [Key -> SUBSET Name]]
  /\ seenTopic \in [Conn -> [Key -> Topic \cup {NoTopic}]]
  /\ heard \in Delivery \cup {Silence}

\* Every channel member is a live, registered client of an existing channel
\* ("Every channel member is a live socket client", README.md): no QUIT, EOF
\* or repeated drop leaves an id behind in a member list, and none is listed
\* twice.
MembersAreLive ==
  \A k \in Key : \A j \in MemberOf(k) :
    /\ j \in live /\ registered[j] /\ k \in channels
    /\ members[k][j] = 1

\* No two connected clients answer to the same nick, in any spelling, also
\* while one of them has not finished registering: find_client has at most
\* one answer whatever the order of the map.
NicksDistinct ==
  \A i, j \in live :
    /\ nick[i] # NoNick /\ nick[j] # NoNick
    /\ Lower[nick[i]] = Lower[nick[j]]
    => i = j

\* Registration is complete as soon as NICK and USER are both there outside
\* a CAP negotiation, in whatever order the three arrive (README.md, "Wire
\* protocol"), and never without a nick and a user.
RegistrationComplete ==
  \A i \in Conn :
    /\ i \in live /\ nick[i] # NoNick /\ user[i] /\ ~capneg[i] => registered[i]
    /\ registered[i] => i \in live /\ nick[i] # NoNick /\ user[i]

\* A client that has read everything written to it knows exactly the members
\* and the topic of each channel it is in, and of no other: over any
\* interleaving of JOIN, PART, NICK, TOPIC, QUIT and EOF of the others.
ViewsAgree ==
  \A i \in Conn, k \in Key :
    IF i \in MemberOf(k)
      THEN seen[i][k] = NamesAt(MemberOf(k)) /\ seenTopic[i][k] = topic[k]
      ELSE seen[i][k] = {} /\ seenTopic[i][k] = NoTopic

\* A member's channel message reaches exactly the clients it sees in the
\* channel, once each, and is not echoed; a direct message reaches one
\* client, the one that answers to the target.
DeliveryMatchesRoster ==
  heard # Silence =>
    LET k    == Lower[heard.to]
        dsts == {j \in Conn : heard.copies[j] > 0}
    IN /\ \A j \in dsts : heard.copies[j] = 1
       /\ heard.from \in (IF heard.to \in Chan THEN MemberOf(k) ELSE {})
            => /\ heard.from \notin dsts
               /\ NamesAt(dsts) = seen[heard.from][k] \ {nick[heard.from]}
       /\ heard.to \in Name =>
            \E j \in Holders(heard.to) : dsts = {j} /\ Holders(heard.to) = {j}

\* A client in the map stays registered once it is, and another client can
\* take over its nick only in a later step than the one that freed it.
IdentityIsKept ==
  [][\A i \in Conn :
       /\ registered[i] /\ i \in live' => registered'[i]
       /\ \A j \in live : nick[j] # NoNick /\ i # j /\ nick'[i] # NoNick
            => Lower[nick'[i]] # Lower[nick[j]]]_vars
=============================================================================
