----------------------------- MODULE Ircd_proofs -----------------------------
(***************************************************************************)
(* Proofs about Ircd, for every set of connections, names, channels and    *)
(* topics; at the end, that it implements Partyline.                       *)
(***************************************************************************)
EXTENDS IrcdRefinement, TLAPS

USE DEF Token, Key

-----------------------------------------------------------------------------

\* Renaming keeps rosters rosters.
LEMMA RenamedType ==
  ASSUME seen \in [Conn -> [Key -> SUBSET Name]],
         NEW ids, NEW old, NEW new \in Name
  PROVE  Renamed(ids, old, new) \in [Conn -> [Key -> SUBSET Name]]
BY DEF Renamed

\* What member_names returns are nicks.
LEMMA NamesAtType ==
  ASSUME TypeOK, NEW ids \in SUBSET Conn
  PROVE  NamesAt(ids) \in SUBSET Name
BY NameAssumption DEF NamesAt, TypeOK

LEMMA DropClientType ==
  ASSUME TypeOK, NEW i \in Conn, i \in reading, DropClient(i),
         reading' = reading \/ reading' = reading \ {i}
  PROVE  TypeOK'
<1>1. /\ live' \subseteq reading' /\ reading' \subseteq accepted'
      /\ accepted' \subseteq Conn
  BY DEF TypeOK, DropClient
<1>2. /\ nick' \in [Conn -> ValidName \cup {NoNick}]
      /\ user' \in [Conn -> BOOLEAN]
      /\ registered' \in [Conn -> BOOLEAN]
      /\ capneg' \in [Conn -> BOOLEAN]
  BY DEF TypeOK, DropClient
<1>3. channels' \subseteq Key /\ topic' \in [Key -> Topic]
  BY DEF TypeOK, DropClient
<1>4. members' \in [Key -> [Conn -> Nat]]
  BY DEF TypeOK, DropClient
<1>5. seen' \in [Conn -> [Key -> SUBSET Name]]
  BY DEF TypeOK, DropClient
<1>6. seenTopic' \in [Conn -> [Key -> Topic \cup {NoTopic}]]
  BY DEF TypeOK, DropClient
<1>7. heard' \in Delivery \cup {Silence}
  BY DEF DropClient
<1>8. QED
  BY <1>1, <1>2, <1>3, <1>4, <1>5, <1>6, <1>7 DEF TypeOK, Delivery

LEMMA JoinType ==
  ASSUME TypeOK, NEW i \in Conn, NEW toks \in TargetLists, Join(i, toks)
  PROVE  TypeOK'
<1> DEFINE ks == {Lower[c] : c \in toks \cap Chan}
<1>1. ks \subseteq Key
  BY NameAssumption
<1>2. channels' \subseteq Key
  BY <1>1 DEF TypeOK, Join
<1>3. members' \in [Key -> [Conn -> Nat]]
  BY DEF TypeOK, Join, Enrolled
<1>4. nick[i] \in Name
  BY NameAssumption DEF TypeOK, Join
<1>5. \A k \in Key : NamesAt(MemberOf(k) \cup {i}) \in SUBSET Name
  BY NamesAtType DEF MemberOf
<1>6. seen' \in [Conn -> [Key -> SUBSET Name]]
  BY <1>4, <1>5 DEF TypeOK, Join
<1>7. seenTopic' \in [Conn -> [Key -> Topic \cup {NoTopic}]]
  BY DEF TypeOK, Join
<1>8. QED
  BY <1>2, <1>3, <1>6, <1>7 DEF TypeOK, Join, conns, identity, Delivery

LEMMA PartType ==
  ASSUME TypeOK, NEW i \in Conn, NEW toks \in TargetLists, Part(i, toks)
  PROVE  TypeOK'
<1>1. members' \in [Key -> [Conn -> Nat]]
  BY DEF TypeOK, Part
<1>2. seen' \in [Conn -> [Key -> SUBSET Name]]
  BY DEF TypeOK, Part
<1>3. seenTopic' \in [Conn -> [Key -> Topic \cup {NoTopic}]]
  BY DEF TypeOK, Part
<1>4. QED
  BY <1>1, <1>2, <1>3 DEF TypeOK, Part, conns, identity, Delivery

\* The type invariant, kept by every handler.
THEOREM TypeCorrect == Spec => []TypeOK
<1>1. Init => TypeOK
  BY NameAssumption, ChannelAssumption DEF Init, TypeOK
<1>2. TypeOK /\ [Next]_vars => TypeOK'
  <2> SUFFICES ASSUME TypeOK, [Next]_vars PROVE TypeOK'
    OBVIOUS
  <2> USE DEF conns, identity, rooms, views
  <2>1. CASE UNCHANGED vars
    BY <2>1 DEF TypeOK, vars, Delivery
  <2>2. ASSUME NEW i \in Conn, Accept(i) PROVE TypeOK'
    BY <2>2 DEF TypeOK, Accept, Delivery
  <2>3. ASSUME NEW i \in Conn, Quit(i) PROVE TypeOK'
    BY <2>3, DropClientType DEF Quit
  <2>4. ASSUME NEW i \in Conn, ConnectionClosed(i) PROVE TypeOK'
    BY <2>4, DropClientType DEF ConnectionClosed
  <2>5. ASSUME NEW i \in Conn, CapLs(i) PROVE TypeOK'
    <3>1. (i \in live) \in BOOLEAN
      OBVIOUS
    <3>2. capneg' \in [Conn -> BOOLEAN]
      BY <2>5, <3>1, Zenon DEF TypeOK, CapLs
    <3>3. QED
      BY <2>5, <3>2 DEF TypeOK, CapLs, Delivery
  <2>6. ASSUME NEW i \in Conn, CapEnd(i) PROVE TypeOK'
    BY <2>6 DEF TypeOK, CapEnd, MaybeRegister, Delivery
  <2>7. ASSUME NEW i \in Conn, User(i) PROVE TypeOK'
    <3>1. (i \in live) \in BOOLEAN
      OBVIOUS
    <3>2. user' \in [Conn -> BOOLEAN]
      BY <2>7, <3>1, Zenon DEF TypeOK, User
    <3>3. QED
      BY <2>7, <3>2 DEF TypeOK, User, MaybeRegister, Delivery
  <2>8. ASSUME NEW i \in Conn, NEW n \in Name, NickRefused(i, n) PROVE TypeOK'
    BY <2>8 DEF TypeOK, NickRefused, Delivery
  <2>9. ASSUME NEW i \in Conn, NEW n \in Name, Nick(i, n) PROVE TypeOK'
    <3>1. seen' \in [Conn -> [Key -> SUBSET Name]]
      BY <2>9, RenamedType DEF TypeOK, Nick
    <3>2. QED
      BY <2>9, <3>1 DEF TypeOK, Nick, MaybeRegister, Delivery
  <2>10. ASSUME NEW i \in Conn, NEW toks \in TargetLists, Join(i, toks)
         PROVE TypeOK'
    BY <2>10, JoinType
  <2>11. ASSUME NEW i \in Conn, NEW toks \in TargetLists, Part(i, toks)
         PROVE TypeOK'
    BY <2>11, PartType
  <2>12. ASSUME NEW i \in Conn, NEW c \in Chan, Names(i, c) PROVE TypeOK'
    <3>1. NamesAt(MemberOf(Lower[c])) \in SUBSET Name
      BY NamesAtType DEF MemberOf
    <3>2. seen' \in [Conn -> [Key -> SUBSET Name]]
      BY <2>12, <3>1 DEF TypeOK, Names
    <3>3. QED
      BY <2>12, <3>2 DEF TypeOK, Names, Delivery
  <2>13. ASSUME NEW i \in Conn, NEW c \in Chan, NEW t \in Topic, SetTopic(i, c, t)
         PROVE TypeOK'
    <3>1. seenTopic' \in [Conn -> [Key -> Topic \cup {NoTopic}]]
      BY <2>13 DEF TypeOK, SetTopic
    <3>2. QED
      BY <2>13, <3>1 DEF TypeOK, SetTopic, Delivery
  <2>14. ASSUME NEW i \in Conn, NEW c \in Chan, SayChannel(i, c) PROVE TypeOK'
    <3>1. Audience(i, Lower[c]) \in [Conn -> Nat]
      BY DEF Audience, TypeOK
    <3>2. heard' \in Delivery
      BY <2>14, <3>1 DEF SayChannel, Delivery
    <3>3. QED
      BY <2>14, <3>2 DEF TypeOK, SayChannel
  <2>15. ASSUME NEW i \in Conn, NEW n \in Name, SayNick(i, n) PROVE TypeOK'
    <3>1. heard' \in Delivery
      BY <2>15 DEF SayNick, Delivery
    <3>2. QED
      BY <2>15, <3>1 DEF TypeOK, SayNick
  <2>16. QED
    BY <2>1, <2>2, <2>3, <2>4, <2>5, <2>6, <2>7, <2>8, <2>9, <2>10, <2>11,
       <2>12, <2>13, <2>14, <2>15 DEF Next
<1>3. QED
  BY <1>1, <1>2, PTL DEF Spec
-----------------------------------------------------------------------------
(* Registration.  The strengthening is that an id outside the client map   *)
(* has none of the fields of a client.                                     *)

AbsentIsBlank ==
  \A i \in Conn \ live : nick[i] = NoNick /\ ~user[i] /\ ~registered[i]

LEMMA DropClientRegistration ==
  ASSUME TypeOK, RegistrationComplete, AbsentIsBlank,
         NEW i \in Conn, DropClient(i)
  PROVE  RegistrationComplete' /\ AbsentIsBlank'
BY DEF TypeOK, RegistrationComplete, AbsentIsBlank, DropClient

\* A client is registered exactly when NICK and USER have arrived outside a
\* CAP negotiation, whatever the order of the three.
THEOREM RegistrationCorrect == Spec => [](RegistrationComplete /\ AbsentIsBlank)
<1>1. Init => RegistrationComplete /\ AbsentIsBlank
  BY DEF Init, RegistrationComplete, AbsentIsBlank
<1>2. /\ TypeOK /\ RegistrationComplete /\ AbsentIsBlank /\ [Next]_vars
      => RegistrationComplete' /\ AbsentIsBlank'
  <2> SUFFICES ASSUME TypeOK, RegistrationComplete, AbsentIsBlank, [Next]_vars
               PROVE  RegistrationComplete' /\ AbsentIsBlank'
    OBVIOUS
  <2> USE DEF conns, identity
  <2>1. CASE UNCHANGED <<live, identity>>
    BY <2>1 DEF RegistrationComplete, AbsentIsBlank
  <2>2. ASSUME NEW i \in Conn, Accept(i)
        PROVE RegistrationComplete' /\ AbsentIsBlank'
    BY <2>2 DEF TypeOK, RegistrationComplete, AbsentIsBlank, Accept
  <2>3. ASSUME NEW i \in Conn, Quit(i) \/ ConnectionClosed(i)
        PROVE RegistrationComplete' /\ AbsentIsBlank'
    BY <2>3, DropClientRegistration DEF Quit, ConnectionClosed
  <2>4. ASSUME NEW i \in Conn, CapLs(i)
        PROVE RegistrationComplete' /\ AbsentIsBlank'
    BY <2>4 DEF TypeOK, RegistrationComplete, AbsentIsBlank, CapLs
  <2>5. ASSUME NEW i \in Conn, CapEnd(i)
        PROVE RegistrationComplete' /\ AbsentIsBlank'
    BY <2>5 DEF TypeOK, RegistrationComplete, AbsentIsBlank, CapEnd,
                MaybeRegister
  <2>6. ASSUME NEW i \in Conn, User(i)
        PROVE RegistrationComplete' /\ AbsentIsBlank'
    BY <2>6 DEF TypeOK, RegistrationComplete, AbsentIsBlank, User,
                MaybeRegister
  <2>7. ASSUME NEW i \in Conn, NEW n \in Name, Nick(i, n)
        PROVE RegistrationComplete' /\ AbsentIsBlank'
    BY <2>7, NameAssumption
       DEF TypeOK, RegistrationComplete, AbsentIsBlank, Nick, MaybeRegister
  <2>8. QED
    BY <2>1, <2>2, <2>3, <2>4, <2>5, <2>6, <2>7
       DEF Next, vars, NickRefused, Join, Part, Names, SetTopic, SayChannel,
           SayNick
<1>3. QED
  BY <1>1, <1>2, TypeCorrect, PTL DEF Spec

-----------------------------------------------------------------------------
(* Nicknames. *)

\* No two connected clients answer to the same nick, in any spelling.
THEOREM NicksAreDistinct == Spec => []NicksDistinct
<1>1. Init => NicksDistinct
  BY DEF Init, NicksDistinct
<1>2. TypeOK /\ NicksDistinct /\ AbsentIsBlank /\ [Next]_vars => NicksDistinct'
  <2> SUFFICES ASSUME TypeOK, NicksDistinct, AbsentIsBlank, [Next]_vars
               PROVE  NicksDistinct'
    OBVIOUS
  <2> USE DEF conns, identity
  <2>1. CASE UNCHANGED <<live, nick>>
    BY <2>1 DEF NicksDistinct
  <2>2. ASSUME NEW i \in Conn, Accept(i) PROVE NicksDistinct'
    BY <2>2 DEF TypeOK, NicksDistinct, AbsentIsBlank, Accept
  <2>3. ASSUME NEW i \in Conn, Quit(i) \/ ConnectionClosed(i)
        PROVE NicksDistinct'
    BY <2>3 DEF TypeOK, NicksDistinct, Quit, ConnectionClosed, DropClient
  <2>4. ASSUME NEW i \in Conn, NEW n \in Name, Nick(i, n) PROVE NicksDistinct'
    <3>1. CASE nick[i] # NoNick /\ Lower[nick[i]] = Lower[n]
      BY <2>4, <3>1 DEF TypeOK, NicksDistinct, AbsentIsBlank, Nick
    <3>2. CASE Holders(n) = {}
      BY <2>4, <3>2 DEF TypeOK, NicksDistinct, Nick, Holders
    <3>3. QED
      BY <2>4, <3>1, <3>2 DEF Nick, InUse
  <2>5. QED
    BY <2>1, <2>2, <2>3, <2>4
       DEF Next, vars, CapLs, CapEnd, User, NickRefused, Join, Part, Names,
           SetTopic, SayChannel, SayNick
<1>3. QED
  BY <1>1, <1>2, TypeCorrect, RegistrationCorrect, PTL DEF Spec

-----------------------------------------------------------------------------
(* Membership. *)

LEMMA DropClientMembers ==
  ASSUME TypeOK, RegistrationComplete, MembersAreLive,
         NEW i \in Conn, DropClient(i)
  PROVE  MembersAreLive'
<1> SUFFICES ASSUME NEW k \in Key, NEW j \in Conn, members'[k][j] > 0
             PROVE  /\ j \in live' /\ registered'[j] /\ k \in channels'
                    /\ members'[k][j] = 1
  BY DEF MembersAreLive, MemberOf
<1>1. j # i
  <2>1. i \in MemberOf(k) => nick[i] # NoNick
    BY DEF MembersAreLive, RegistrationComplete
  <2>2. i \in MemberOf(k) => members'[k][i] = 0
    BY <2>1 DEF DropClient, RoomsOf, TypeOK
  <2>3. i \notin MemberOf(k) => members'[k][i] = members[k][i]
    BY DEF DropClient, RoomsOf, TypeOK
  <2>4. QED
    BY <2>2, <2>3 DEF MemberOf
<1>2. members'[k][j] = members[k][j]
  BY <1>1 DEF DropClient, TypeOK
<1>3. QED
  BY <1>1, <1>2 DEF DropClient, TypeOK, MembersAreLive, MemberOf

LEMMA JoinMembers ==
  ASSUME TypeOK, RegistrationComplete, MembersAreLive,
         NEW i \in Conn, NEW toks \in TargetLists, Join(i, toks)
  PROVE  MembersAreLive'
<1> SUFFICES ASSUME NEW k \in Key, NEW j \in Conn, members'[k][j] > 0
             PROVE  /\ j \in live' /\ registered'[j] /\ k \in channels'
                    /\ members'[k][j] = 1
  BY DEF MembersAreLive, MemberOf
<1> DEFINE ks == {Lower[c] : c \in toks \cap Chan}
<1>1. members'[k] = IF k \in ks THEN Enrolled(k, i) ELSE members[k]
  BY DEF Join
<1>2. live' = live /\ registered' = registered /\ channels' = channels \cup ks
  BY DEF Join, conns, identity
<1>3. CASE members[k][j] > 0
  <2>1. members'[k][j] = members[k][j]
    BY <1>1, <1>3 DEF Enrolled, TypeOK
  <2>2. QED
    BY <1>2, <1>3, <2>1 DEF MembersAreLive, MemberOf
<1>4. CASE members[k][j] = 0
  <2>1. j = i /\ k \in ks /\ members'[k][j] = 1
    BY <1>1, <1>4 DEF Enrolled, TypeOK
  <2>2. QED
    BY <1>2, <2>1 DEF Join, RegistrationComplete
<1>5. QED
  BY <1>3, <1>4 DEF TypeOK

\* Every member of a channel is a live registered client, listed once.
THEOREM MembersStayLive == Spec => []MembersAreLive
<1>1. Init => MembersAreLive
  BY DEF Init, MembersAreLive, MemberOf
<1>2. /\ TypeOK /\ RegistrationComplete /\ MembersAreLive /\ [Next]_vars
      => MembersAreLive'
  <2> SUFFICES ASSUME TypeOK, RegistrationComplete, MembersAreLive, [Next]_vars
               PROVE  MembersAreLive'
    OBVIOUS
  <2> USE DEF conns, identity, rooms
  <2>1. CASE /\ UNCHANGED <<channels, members>>
             /\ \A j \in Conn : j \in live => j \in live'
             /\ \A j \in Conn : registered[j] => registered'[j]
    BY <2>1 DEF MembersAreLive, MemberOf
  <2>2. ASSUME NEW i \in Conn, Quit(i) \/ ConnectionClosed(i)
        PROVE MembersAreLive'
    BY <2>2, DropClientMembers DEF Quit, ConnectionClosed
  <2>3. ASSUME NEW i \in Conn, NEW toks \in TargetLists, Join(i, toks)
        PROVE MembersAreLive'
    BY <2>3, JoinMembers
  <2>4. ASSUME NEW i \in Conn, NEW toks \in TargetLists, Part(i, toks)
        PROVE MembersAreLive'
    BY <2>4 DEF TypeOK, MembersAreLive, MemberOf, Part
  <2>5. ASSUME NEW i \in Conn, MaybeRegister(i)
        PROVE  \A j \in Conn : registered[j] => registered'[j]
    BY <2>5 DEF MaybeRegister, TypeOK
  <2>6. ASSUME NEW i \in Conn, Accept(i) \/ CapLs(i) \/ CapEnd(i) \/ User(i)
        PROVE  MembersAreLive'
    BY <2>1, <2>5, <2>6 DEF Accept, CapLs, CapEnd, User
  <2>7. ASSUME NEW i \in Conn, NEW n \in Name, Nick(i, n)
        PROVE  MembersAreLive'
    BY <2>1, <2>5, <2>7 DEF Nick
  <2>8. CASE UNCHANGED <<live, registered, channels, members>>
    BY <2>8 DEF MembersAreLive, MemberOf
  <2>9. QED
    BY <2>2, <2>3, <2>4, <2>6, <2>7, <2>8
       DEF Next, vars, NickRefused, Names, SetTopic, SayChannel, SayNick
<1>3. QED
  BY <1>1, <1>2, TypeCorrect, RegistrationCorrect, PTL DEF Spec
-----------------------------------------------------------------------------
(* What the clients see. *)

\* Dropping one of several distinctly named ids drops just its name.
LEMMA NamesWithout ==
  ASSUME TypeOK, NicksDistinct, NEW ids \in SUBSET live, NEW i \in live
  PROVE  nick[i] # NoNick => NamesAt(ids \ {i}) = NamesAt(ids) \ {nick[i]}
BY NameAssumption DEF TypeOK, NicksDistinct, NamesAt

\* The facts every lemma of this part starts from.
Ground == TypeOK /\ RegistrationComplete /\ AbsentIsBlank /\ NicksDistinct
          /\ MembersAreLive

LEMMA MembersAreNamed ==
  ASSUME Ground, NEW k \in Key, NEW j \in MemberOf(k)
  PROVE  j \in Conn /\ j \in live /\ nick[j] # NoNick
BY DEF Ground, MembersAreLive, RegistrationComplete, MemberOf

LEMMA DropClientViews ==
  ASSUME Ground, ViewsAgree, NEW i \in Conn, DropClient(i)
  PROVE  ViewsAgree'
<1> SUFFICES ASSUME NEW j \in Conn, NEW k \in Key
             PROVE  IF j \in MemberOf(k)'
                      THEN seen'[j][k] = NamesAt(MemberOf(k))'
                           /\ seenTopic'[j][k] = topic'[k]
                      ELSE seen'[j][k] = {} /\ seenTopic'[j][k] = NoTopic
  BY DEF ViewsAgree
<1> DEFINE left  == IF nick[i] = NoNick THEN {} ELSE RoomsOf(i)
           peers == UNION {MemberOf(r) : r \in left}
<1> USE DEF Ground
<1>1. MemberOf(k)' = MemberOf(k) \ {i}
  <2>1. i \in MemberOf(k) => nick[i] # NoNick
    BY MembersAreNamed
  <2>2. \A m \in Conn \ {i} : members'[k][m] = members[k][m]
    BY DEF DropClient, TypeOK
  <2>3. ~(members'[k][i] > 0)
    BY <2>1 DEF DropClient, RoomsOf, MemberOf, TypeOK
  <2>4. QED
    BY <2>2, <2>3 DEF MemberOf
<1>2. CASE j = i
  BY <1>1, <1>2 DEF DropClient, TypeOK
<1>3. CASE j # i /\ j \notin MemberOf(k)
  BY <1>1, <1>3 DEF DropClient, TypeOK, ViewsAgree
<1>4. CASE j # i /\ j \in MemberOf(k)
  <2>1. seenTopic'[j][k] = topic'[k]
    BY <1>4 DEF DropClient, TypeOK, ViewsAgree
  <2>2. seen[j][k] = NamesAt(MemberOf(k))
    BY <1>4 DEF ViewsAgree
  <2>3. NamesAt(MemberOf(k))' = NamesAt(MemberOf(k) \ {i})
    BY <1>1 DEF NamesAt, DropClient, TypeOK, MemberOf
  <2>4. MemberOf(k) \in SUBSET live
    BY MembersAreNamed
  <2>5. CASE i \in MemberOf(k)
    <3>1. i \in live /\ nick[i] # NoNick
      BY <2>5, MembersAreNamed
    <3>2. k \in left /\ j \in peers
      BY <1>4, <2>5, <3>1 DEF RoomsOf
    <3>3. seen'[j][k] = seen[j][k] \ {nick[i]}
      BY <1>4, <3>2 DEF DropClient
    <3>4. NamesAt(MemberOf(k) \ {i}) = NamesAt(MemberOf(k)) \ {nick[i]}
      BY <2>4, <3>1, NamesWithout
    <3>5. QED
      BY <1>1, <1>4, <2>1, <2>2, <2>3, <3>3, <3>4
  <2>6. CASE i \notin MemberOf(k)
    <3>1. seen'[j][k] = seen[j][k]
      <4>1. CASE j \notin peers
        BY <1>4, <4>1 DEF DropClient
      <4>2. CASE j \in peers
        <5>1. nick[i] # NoNick /\ i \in live
          BY <4>2 DEF AbsentIsBlank
        <5>2. NamesAt(MemberOf(k) \ {i}) = NamesAt(MemberOf(k)) \ {nick[i]}
          BY <2>4, <5>1, NamesWithout
        <5>3. MemberOf(k) \ {i} = MemberOf(k)
          BY <2>6
        <5>4. seen'[j][k] = seen[j][k] \ {nick[i]}
          BY <1>4, <4>2 DEF DropClient
        <5>5. QED
          BY <2>2, <5>2, <5>3, <5>4
      <4>3. QED
        BY <4>1, <4>2
    <3>2. MemberOf(k) \ {i} = MemberOf(k)
      BY <2>6
    <3>3. QED
      BY <1>1, <1>4, <2>1, <2>2, <2>3, <3>1, <3>2
  <2>7. QED
    BY <2>5, <2>6
<1>5. QED
  BY <1>2, <1>3, <1>4

LEMMA NickViews ==
  ASSUME Ground, ViewsAgree, NicksDistinct',
         NEW i \in Conn, NEW n \in Name, Nick(i, n)
  PROVE  ViewsAgree'
<1> SUFFICES ASSUME NEW j \in Conn, NEW k \in Key
             PROVE  IF j \in MemberOf(k)'
                      THEN seen'[j][k] = NamesAt(MemberOf(k))'
                           /\ seenTopic'[j][k] = topic'[k]
                      ELSE seen'[j][k] = {} /\ seenTopic'[j][k] = NoTopic
  BY DEF ViewsAgree
<1> DEFINE peers == UNION {MemberOf(r) : r \in RoomsOf(i)}
<1> USE DEF Ground
<1>1. MemberOf(k)' = MemberOf(k) /\ seenTopic' = seenTopic /\ topic' = topic
  BY DEF Nick, rooms, MemberOf
<1>2. nick' = [nick EXCEPT ![i] = IF i \in live THEN n ELSE NoNick]
  BY DEF Nick
<1>3. seen' = IF registered[i] THEN Renamed(peers, nick[i], n) ELSE seen
  BY DEF Nick
<1>4. CASE j \notin MemberOf(k)
  <2>1. seen[j][k] = {} /\ seenTopic[j][k] = NoTopic
    BY <1>4 DEF ViewsAgree
  <2>2. seen'[j][k] = {}
    BY <1>3, <2>1 DEF Renamed
  <2>3. QED
    BY <1>1, <1>4, <2>1, <2>2
<1>5. CASE j \in MemberOf(k)
  <2>1. seen[j][k] = NamesAt(MemberOf(k)) /\ seenTopic[j][k] = topic[k]
    BY <1>5 DEF ViewsAgree
  <2>2. CASE i \in MemberOf(k)
    <3>1. i \in live /\ registered[i] /\ nick[i] # NoNick
      BY <2>2, MembersAreNamed DEF MembersAreLive
    <3>2. j \in peers
      BY <1>5, <2>2 DEF RoomsOf
    <3>3. nick[i] \in seen[j][k]
      BY <2>1, <2>2, <3>1 DEF NamesAt
    <3>4. seen'[j][k] = (NamesAt(MemberOf(k)) \ {nick[i]}) \cup {n}
      BY <1>3, <2>1, <3>1, <3>2, <3>3 DEF Renamed
    <3>5. NamesAt(MemberOf(k) \ {i}) = NamesAt(MemberOf(k)) \ {nick[i]}
      BY <3>1, MembersAreNamed, NamesWithout
    <3>6. n # NoNick /\ nick'[i] = n
      BY <1>2, <3>1, NameAssumption DEF TypeOK
    <3>7. NamesAt(MemberOf(k))' = NamesAt(MemberOf(k) \ {i}) \cup {n}
      <4>1. \A m \in Conn \ {i} : nick'[m] = nick[m]
        BY <1>2 DEF TypeOK
      <4>2. MemberOf(k) \subseteq Conn
        BY DEF MemberOf
      <4>3. QED
        BY <1>1, <2>2, <3>6, <4>1, <4>2 DEF NamesAt
    <3>8. QED
      BY <1>1, <1>5, <2>1, <3>4, <3>5, <3>7
  <2>3. CASE i \notin MemberOf(k)
    <3>1. NamesAt(MemberOf(k))' = NamesAt(MemberOf(k))
      BY <1>1, <1>2, <2>3 DEF NamesAt, TypeOK, MemberOf
    <3>2. seen'[j][k] = seen[j][k]
      <4>1. CASE ~registered[i]
        BY <1>3, <4>1
      <4>2. CASE registered[i]
        <5>1. i \in live /\ nick[i] # NoNick
          BY <4>2 DEF RegistrationComplete
        <5>2. NamesAt(MemberOf(k) \ {i}) = NamesAt(MemberOf(k)) \ {nick[i]}
          BY <5>1, MembersAreNamed, NamesWithout
        <5>3. nick[i] \notin seen[j][k]
          <6>1. MemberOf(k) \ {i} = MemberOf(k)
            BY <2>3
          <6>2. QED
            BY <2>1, <5>2, <6>1
        <5>4. QED
          BY <1>3, <4>2, <5>3 DEF Renamed
      <4>3. QED
        BY <4>1, <4>2
    <3>3. QED
      BY <1>1, <1>5, <2>1, <3>1, <3>2
  <2>4. QED
    BY <2>2, <2>3
<1>6. QED
  BY <1>4, <1>5
LEMMA JoinViews ==
  ASSUME Ground, ViewsAgree,
         NEW i \in Conn, NEW toks \in TargetLists, Join(i, toks)
  PROVE  ViewsAgree'
<1> SUFFICES ASSUME NEW j \in Conn, NEW k \in Key
             PROVE  IF j \in MemberOf(k)'
                      THEN seen'[j][k] = NamesAt(MemberOf(k))'
                           /\ seenTopic'[j][k] = topic'[k]
                      ELSE seen'[j][k] = {} /\ seenTopic'[j][k] = NoTopic
  BY DEF ViewsAgree
<1> DEFINE ks == {Lower[c] : c \in toks \cap Chan}
<1> USE DEF Ground
<1>1. topic' = topic /\ nick' = nick
  BY DEF Join, identity
<1>2. MemberOf(k)' = IF k \in ks THEN MemberOf(k) \cup {i} ELSE MemberOf(k)
  BY DEF Join, Enrolled, MemberOf, TypeOK
<1>3. NamesAt(MemberOf(k))' =
        IF k \in ks THEN NamesAt(MemberOf(k) \cup {i}) ELSE NamesAt(MemberOf(k))
  BY <1>1, <1>2 DEF NamesAt
<1>4. NamesAt(MemberOf(k) \cup {i}) = NamesAt(MemberOf(k)) \cup {nick[i]}
  BY DEF NamesAt, Join
<1>5. seen'[j][k] = IF k \notin ks THEN seen[j][k]
                    ELSE IF j = i THEN NamesAt(MemberOf(k) \cup {i})
                    ELSE IF j \in MemberOf(k) THEN seen[j][k] \cup {nick[i]}
                    ELSE seen[j][k]
  BY DEF Join
<1>6. seenTopic'[j][k] =
        IF j = i /\ k \in ks THEN topic[k] ELSE seenTopic[j][k]
  BY DEF Join, TypeOK
<1>7. QED
  BY <1>1, <1>2, <1>3, <1>4, <1>5, <1>6 DEF ViewsAgree

LEMMA PartViews ==
  ASSUME Ground, ViewsAgree,
         NEW i \in Conn, NEW toks \in TargetLists, Part(i, toks)
  PROVE  ViewsAgree'
<1> SUFFICES ASSUME NEW j \in Conn, NEW k \in Key
             PROVE  IF j \in MemberOf(k)'
                      THEN seen'[j][k] = NamesAt(MemberOf(k))'
                           /\ seenTopic'[j][k] = topic'[k]
                      ELSE seen'[j][k] = {} /\ seenTopic'[j][k] = NoTopic
  BY DEF ViewsAgree
<1> DEFINE left == {Lower[c] : c \in toks} \cap RoomsOf(i)
<1> USE DEF Ground
<1>1. topic' = topic /\ nick' = nick
  BY DEF Part, identity
<1>2. MemberOf(k)' = IF k \in left THEN MemberOf(k) \ {i} ELSE MemberOf(k)
  BY DEF Part, MemberOf, TypeOK
<1>3. NamesAt(MemberOf(k))' =
        IF k \in left THEN NamesAt(MemberOf(k) \ {i}) ELSE NamesAt(MemberOf(k))
  BY <1>1, <1>2 DEF NamesAt
<1>4. k \in left => NamesAt(MemberOf(k) \ {i}) = NamesAt(MemberOf(k)) \ {nick[i]}
  BY MembersAreNamed, NamesWithout DEF RoomsOf
<1>5. seen'[j][k] = IF k \notin left THEN seen[j][k]
                    ELSE IF j = i THEN {}
                    ELSE IF j \in MemberOf(k) THEN seen[j][k] \ {nick[i]}
                    ELSE seen[j][k]
  BY DEF Part
<1>6. seenTopic'[j][k] =
        IF j = i /\ k \in left THEN NoTopic ELSE seenTopic[j][k]
  BY DEF Part, TypeOK
<1>7. k \in left => i \in MemberOf(k)
  BY DEF RoomsOf
<1>8. CASE k \in left
  BY <1>1, <1>2, <1>3, <1>4, <1>5, <1>6, <1>7, <1>8 DEF ViewsAgree
<1>9. CASE k \notin left
  <2>1. MemberOf(k)' = MemberOf(k) /\ NamesAt(MemberOf(k))' = NamesAt(MemberOf(k))
    BY <1>2, <1>3, <1>9
  <2>2. seen'[j][k] = seen[j][k] /\ seenTopic'[j][k] = seenTopic[j][k]
    BY <1>5, <1>6, <1>9
  <2>3. QED
    BY <1>1, <2>1, <2>2 DEF ViewsAgree
<1>10. QED
  BY <1>8, <1>9

LEMMA TopicViews ==
  ASSUME Ground, ViewsAgree,
         NEW i \in Conn, NEW c \in Chan, NEW t \in Topic, SetTopic(i, c, t)
  PROVE  ViewsAgree'
<1> USE DEF Ground
<1>1. UNCHANGED <<members, nick, seen>>
  BY DEF SetTopic, identity
<1>2. \A k \in Key : /\ MemberOf(k)' = MemberOf(k)
                     /\ NamesAt(MemberOf(k))' = NamesAt(MemberOf(k))
  BY <1>1 DEF MemberOf, NamesAt
<1>3. \A k \in Key : topic'[k] = IF k = Lower[c] THEN t ELSE topic[k]
  BY DEF SetTopic, TypeOK
<1>4. \A j \in Conn, k \in Key :
        seenTopic'[j][k] = IF j \in MemberOf(k) /\ k = Lower[c]
                             THEN t ELSE seenTopic[j][k]
  BY DEF SetTopic, TypeOK
<1>5. QED
  BY <1>1, <1>2, <1>3, <1>4 DEF ViewsAgree

\* Whoever has read its socket to the end knows the members and the topic of
\* each channel it is in, after any interleaving of the handlers.
THEOREM ClientsAgree == Spec => []ViewsAgree
<1>1. Init => ViewsAgree
  <2> SUFFICES ASSUME Init, NEW i \in Conn, NEW k \in Key
               PROVE  /\ i \notin MemberOf(k)
                      /\ seen[i][k] = {} /\ seenTopic[i][k] = NoTopic
    BY DEF ViewsAgree
  <2>1. members[k][i] = 0
    BY DEF Init
  <2>2. QED
    BY <2>1 DEF Init, MemberOf
<1>2. Ground /\ ViewsAgree /\ NicksDistinct' /\ [Next]_vars => ViewsAgree'
  <2> SUFFICES ASSUME Ground, ViewsAgree, NicksDistinct', [Next]_vars
               PROVE  ViewsAgree'
    OBVIOUS
  <2> USE DEF conns, identity, rooms, views
  <2>1. CASE UNCHANGED <<members, topic, nick, seen, seenTopic>>
    BY <2>1 DEF ViewsAgree, MemberOf, NamesAt
  <2>2. ASSUME NEW i \in Conn, Quit(i) \/ ConnectionClosed(i)
        PROVE  ViewsAgree'
    BY <2>2, DropClientViews DEF Quit, ConnectionClosed
  <2>3. ASSUME NEW i \in Conn, NEW n \in Name, Nick(i, n)
        PROVE  ViewsAgree'
    BY <2>3, NickViews
  <2>4. ASSUME NEW i \in Conn, NEW toks \in TargetLists,
               Join(i, toks) \/ Part(i, toks)
        PROVE  ViewsAgree'
    BY <2>4, JoinViews, PartViews
  <2>5. ASSUME NEW i \in Conn, NEW c \in Chan, Names(i, c)
        PROVE  ViewsAgree'
    <3>1. \A j \in Conn, k \in Key : seen'[j][k] = seen[j][k]
      <4>1. Lower[c] \in Key /\ seen \in [Conn -> [Key -> SUBSET Name]]
        BY DEF Ground, TypeOK
      <4>2. i \in MemberOf(Lower[c])
            => NamesAt(MemberOf(Lower[c])) = seen[i][Lower[c]]
        BY <4>1 DEF ViewsAgree
      <4>3. QED
        BY <2>5, <4>1, <4>2 DEF Names
    <3>2. UNCHANGED <<members, topic, nick, seenTopic>>
      BY <2>5 DEF Names
    <3>3. QED
      BY <3>1, <3>2 DEF ViewsAgree, MemberOf, NamesAt
  <2>6. ASSUME NEW i \in Conn, NEW c \in Chan, NEW t \in Topic, SetTopic(i, c, t)
        PROVE  ViewsAgree'
    BY <2>6, TopicViews
  <2>7. QED
    BY <2>1, <2>2, <2>3, <2>4, <2>5, <2>6
       DEF Next, vars, Accept, CapLs, CapEnd, User, NickRefused, SayChannel,
           SayNick
<1>3. QED
  BY <1>1, <1>2, TypeCorrect, RegistrationCorrect, NicksAreDistinct,
     MembersStayLive, PTL DEF Spec, Ground
-----------------------------------------------------------------------------
(* Message delivery. *)

LEMMA SayChannelDelivery ==
  ASSUME Ground, ViewsAgree, NEW i \in Conn, NEW c \in Chan, SayChannel(i, c)
  PROVE  DeliveryMatchesRoster'
<1> DEFINE k    == Lower[c]
           dsts == {j \in Conn : heard'.copies[j] > 0}
<1> USE DEF Ground
<1>1. UNCHANGED <<members, nick, seen, live>>
  BY DEF SayChannel, conns, identity, rooms, views
<1>2. /\ heard'.from = i /\ heard'.to = c
      /\ \A j \in Conn : heard'.copies[j] = IF j = i THEN 0 ELSE members[k][j]
  BY DEF SayChannel, Audience
<1>3. k \in Key /\ c \notin Name /\ i \in live /\ nick[i] # NoNick
  BY NameAssumption DEF SayChannel, RegistrationComplete
<1>4. dsts = MemberOf(k) \ {i}
  BY <1>2, <1>3 DEF MemberOf, TypeOK
<1>5. \A j \in dsts : heard'.copies[j] = 1
  BY <1>2, <1>3, <1>4 DEF MembersAreLive
<1>6. i \in MemberOf(k) => NamesAt(dsts) = seen[i][k] \ {nick[i]}
  BY <1>3, <1>4, MembersAreNamed, NamesWithout DEF ViewsAgree
<1>7. QED
  BY <1>1, <1>2, <1>3, <1>4, <1>5, <1>6
     DEF DeliveryMatchesRoster, MemberOf, NamesAt

LEMMA SayNickDelivery ==
  ASSUME Ground, NEW i \in Conn, NEW n \in Name, SayNick(i, n)
  PROVE  DeliveryMatchesRoster'
<1> USE DEF Ground
<1>1. PICK dst \in Holders(n) :
        heard' = [from |-> i, to |-> n,
                  copies |-> [j \in Conn |-> IF j = dst THEN 1 ELSE 0]]
  BY DEF SayNick
<1>2. dst \in Conn /\ Holders(n) = {dst}
  BY DEF Holders, NicksDistinct, TypeOK
<1>3. {j \in Conn : heard'.copies[j] > 0} = {dst}
  BY <1>1, <1>2
<1>4. Holders(n)' = Holders(n)
  BY DEF SayNick, conns, identity, Holders
<1>5. n \notin Chan /\ heard'.to = n /\ heard'.copies[dst] = 1
  BY <1>1, <1>2, NameAssumption
<1>6. QED
  BY <1>2, <1>3, <1>4, <1>5 DEF DeliveryMatchesRoster

\* A member's message reaches exactly the clients its own roster shows, once
\* each and never itself; a direct message reaches the one holder of a nick.
THEOREM DeliveryCorrect == Spec => []DeliveryMatchesRoster
<1>1. Init => DeliveryMatchesRoster
  BY DEF Init, DeliveryMatchesRoster
<1>2. /\ Ground /\ ViewsAgree /\ DeliveryMatchesRoster /\ [Next]_vars
      => DeliveryMatchesRoster'
  <2> SUFFICES ASSUME Ground, ViewsAgree, DeliveryMatchesRoster, [Next]_vars
               PROVE  DeliveryMatchesRoster'
    OBVIOUS
  <2>1. CASE heard' = Silence
    BY <2>1 DEF DeliveryMatchesRoster
  <2>2. CASE UNCHANGED vars
    BY <2>2 DEF vars, conns, identity, rooms, views, DeliveryMatchesRoster,
                MemberOf, NamesAt, Holders
  <2>3. ASSUME NEW i \in Conn, NEW c \in Chan, SayChannel(i, c)
        PROVE  DeliveryMatchesRoster'
    BY <2>3, SayChannelDelivery
  <2>4. ASSUME NEW i \in Conn, NEW n \in Name, SayNick(i, n)
        PROVE  DeliveryMatchesRoster'
    BY <2>4, SayNickDelivery
  <2>5. QED
    BY <2>1, <2>2, <2>3, <2>4
       DEF Next, Accept, Quit, ConnectionClosed, DropClient, CapLs, CapEnd,
           User, NickRefused, Nick, Join, Part, Names, SetTopic
<1>3. QED
  BY <1>1, <1>2, TypeCorrect, RegistrationCorrect, NicksAreDistinct,
     MembersStayLive, ClientsAgree, PTL DEF Spec, Ground

\* Registration is never lost by a client that stays, and a nick is never
\* taken over in the step that frees it.
THEOREM IdentityKept == Spec => IdentityIsKept
<1>1. /\ Ground /\ [Next]_vars
      => [\A i \in Conn :
            /\ registered[i] /\ i \in live' => registered'[i]
            /\ \A j \in live : nick[j] # NoNick /\ i # j /\ nick'[i] # NoNick
                 => Lower[nick'[i]] # Lower[nick[j]]]_vars
  <2> SUFFICES ASSUME Ground, Next, NEW i \in Conn
               PROVE  /\ registered[i] /\ i \in live' => registered'[i]
                      /\ \A j \in live :
                           nick[j] # NoNick /\ i # j /\ nick'[i] # NoNick
                           => Lower[nick'[i]] # Lower[nick[j]]
    OBVIOUS
  <2> USE DEF conns, identity, Ground
  <2>1. CASE registered'[i] = registered[i] /\ nick'[i] = nick[i]
    BY <2>1 DEF NicksDistinct, AbsentIsBlank
  <2>2. ASSUME NEW m \in Conn, CapEnd(m) \/ User(m)
        PROVE  (registered[i] => registered'[i]) /\ nick'[i] = nick[i]
    BY <2>2 DEF CapEnd, User, MaybeRegister, TypeOK
  <2>3. ASSUME NEW m \in Conn, Quit(m) \/ ConnectionClosed(m)
        PROVE  IF i = m THEN i \notin live' /\ nick'[i] = NoNick
               ELSE registered'[i] = registered[i] /\ nick'[i] = nick[i]
    BY <2>3 DEF Quit, ConnectionClosed, DropClient, TypeOK
  <2>4. ASSUME NEW m \in Conn, NEW n \in Name, Nick(m, n)
        PROVE  /\ registered[i] => registered'[i]
               /\ nick'[i] # nick[i] /\ nick'[i] # NoNick => i = m /\ nick'[i] = n
    BY <2>4 DEF Nick, MaybeRegister, TypeOK
  <2>5. ASSUME NEW m \in Conn, NEW n \in Name, Nick(m, n),
               NEW j \in live, nick[j] # NoNick, i # j, nick'[i] # NoNick
        PROVE  Lower[nick'[i]] # Lower[nick[j]]
    <3>1. CASE nick'[i] = nick[i]
      BY <2>5, <3>1 DEF NicksDistinct, AbsentIsBlank
    <3>2. CASE nick'[i] # nick[i]
      <4>1. i = m /\ nick'[i] = n
        BY <2>4, <2>5, <3>2
      <4>2. CASE nick[i] # NoNick /\ Lower[nick[i]] = Lower[n]
        BY <2>5, <4>1, <4>2 DEF NicksDistinct, AbsentIsBlank
      <4>3. CASE Holders(n) = {}
        BY <2>5, <4>1, <4>3 DEF Holders
      <4>4. QED
        BY <2>5, <4>1, <4>2, <4>3 DEF Nick, InUse
    <3>3. QED
      BY <3>1, <3>2
  <2>6. QED
    <3>1. ASSUME NEW m \in Conn, CapEnd(m) \/ User(m)
          PROVE  \A j \in live : nick[j] # NoNick /\ i # j /\ nick'[i] # NoNick
                   => Lower[nick'[i]] # Lower[nick[j]]
      BY <2>2, <3>1 DEF NicksDistinct, AbsentIsBlank
    <3>2. ASSUME NEW m \in Conn, Quit(m) \/ ConnectionClosed(m)
          PROVE  \A j \in live : nick[j] # NoNick /\ i # j /\ nick'[i] # NoNick
                   => Lower[nick'[i]] # Lower[nick[j]]
      BY <2>3, <3>2 DEF NicksDistinct, AbsentIsBlank
    <3>3. QED
      BY <2>1, <2>2, <2>3, <2>4, <2>5, <3>1, <3>2
         DEF Next, Accept, CapLs, NickRefused, Join, Part, Names, SetTopic,
             SayChannel, SayNick
<1>2. QED
  BY <1>1, TypeCorrect, RegistrationCorrect, NicksAreDistinct,
     MembersStayLive, PTL DEF Spec, Ground, IdentityIsKept

-----------------------------------------------------------------------------
(* Ircd implements Partyline. *)

HIDE DEF Token, Key

\* All invariants a step may rely on.
Inv == Ground /\ ViewsAgree

\* A client is somebody in the abstract room exactly when it is registered.
LEMMA NameOfPresent ==
  ASSUME Ground, NEW i \in Conn
  PROVE  /\ NameOf[i] # NoNick <=> registered[i]
         /\ registered[i] => NameOf[i] = nick[i] /\ nick[i] \in Name /\ i \in live
BY NameAssumption DEF Ground, NameOf, RegistrationComplete, TypeOK

LEMMA MembersAreKnown ==
  ASSUME Ground, NEW k \in Key, NEW j \in MemberOf(k)
  PROVE  j \in Conn /\ registered[j] /\ j \in live
BY DEF Ground, MembersAreLive, MemberOf

\* The rosters of the clients are those the abstract room shows.
LEMMA RostersInStep == Inv => Line!InStep
<1> SUFFICES ASSUME Inv PROVE Line!InStep
  OBVIOUS
<1>1. \A k \in Key : Line!People(k) = NamesAt(MemberOf(k))
  <2> TAKE k \in Key
  <2>1. Line!People(k) = {nick[j] : j \in MemberOf(k)}
    BY MembersAreKnown DEF Inv, Line!People, RoomOf, NameOf
  <2>2. QED
    BY <2>1, MembersAreNamed DEF Inv, NamesAt
<1>2. /\ seen \in [Conn -> [Key -> SUBSET Name]]
      /\ seenTopic \in [Conn -> [Key -> Topic \cup {NoTopic}]]
  BY DEF Inv, Ground, TypeOK
<1>3. \A i \in Conn, k \in Key :
        /\ seen[i][k] = IF i \in MemberOf(k) THEN Line!People(k) ELSE {}
        /\ seenTopic[i][k] = IF i \in MemberOf(k) THEN topic[k] ELSE NoTopic
  BY <1>1 DEF Inv, ViewsAgree
<1>4. seen = [i \in Conn |-> [k \in Key |->
                IF i \in RoomOf[k] THEN Line!People(k) ELSE {}]]
  BY <1>2, <1>3 DEF RoomOf
<1>5. seenTopic = [i \in Conn |-> [k \in Key |->
                     IF i \in RoomOf[k] THEN topic[k] ELSE NoTopic]]
  BY <1>2, <1>3 DEF RoomOf
<1>6. QED
  BY <1>4, <1>5 DEF Line!InStep

\* Nobody else present goes by a name that no other live client holds.
LEMMA FreeName ==
  ASSUME Ground, NEW i \in Conn, NEW n \in Name,
         \A j \in live \ {i} : nick[j] # NoNick => Lower[nick[j]] # Lower[n]
  PROVE  Line!Free(n, i)
BY NameOfPresent DEF Line!Free

-----------------------------------------------------------------------------
(* One lemma per kind of handler. *)

Seeming == <<NameOf, RoomOf, topic, seen, seenTopic>>

LEMMA SeemingUnchanged ==
  ASSUME UNCHANGED <<nick, registered, members, topic, seen, seenTopic>>
  PROVE  UNCHANGED Seeming
BY DEF Seeming, NameOf, RoomOf, MemberOf

\* CAP END and USER: an arrival if they complete the registration.
LEMMA RegisterStep ==
  ASSUME Inv, NEW i \in Conn, CapEnd(i) \/ User(i)
  PROVE  Line!Act \/ UNCHANGED Seeming
<1> USE DEF Inv
<1>1. /\ UNCHANGED <<nick, members, topic, seen, seenTopic>>
      /\ MaybeRegister(i)
  BY DEF CapEnd, User, rooms, views
<1>2. UNCHANGED RoomOf
  BY <1>1 DEF RoomOf, MemberOf
<1>3. registered \in [Conn -> BOOLEAN]
  BY DEF Ground, TypeOK
<1>4. \A j \in Conn \ {i} : registered'[j] = registered[j]
  BY <1>1, <1>3 DEF MaybeRegister
<1>5. registered' \in [Conn -> BOOLEAN]
  BY <1>1, <1>3 DEF MaybeRegister
<1>6. CASE registered'[i] = registered[i]
  <2>1. registered' = registered
    BY <1>3, <1>4, <1>5, <1>6
  <2>2. QED
    BY <1>1, <2>1, SeemingUnchanged
<1>7. CASE registered'[i] # registered[i]
  <2>1. ~registered[i] /\ registered'[i] /\ nick[i] # NoNick
    BY <1>1, <1>3, <1>7 DEF MaybeRegister
  <2>2. nick[i] \in Name /\ i \in live
    BY <2>1, NameAssumption DEF Ground, TypeOK, AbsentIsBlank
  <2>3. NameOf' = [NameOf EXCEPT ![i] = nick[i]]
    BY <1>1, <1>4, <2>1 DEF NameOf
  <2>4. Line!Free(nick[i], i)
    BY <2>1, <2>2, FreeName DEF Ground, NicksDistinct, TypeOK
  <2>5. NameOf[i] = NoNick
    BY <2>1 DEF NameOf
  <2>6. Line!Arrive(i, nick[i])
    BY <1>1, <1>2, <2>3, <2>4, <2>5 DEF Line!Arrive
  <2>7. QED
    BY <2>2, <2>6 DEF Line!Act
<1>8. QED
  BY <1>6, <1>7

\* NICK: a change of name, an arrival, or nothing anybody can see.
LEMMA NickStep ==
  ASSUME Inv, NEW i \in Conn, NEW n \in Name, Nick(i, n)
  PROVE  Line!Act \/ UNCHANGED Seeming
<1> USE DEF Inv
<1>1. /\ UNCHANGED <<members, topic, seenTopic>>
      /\ MaybeRegister(i)
      /\ nick' = [nick EXCEPT ![i] = IF i \in live THEN n ELSE NoNick]
  BY DEF Nick, rooms
<1>2. UNCHANGED RoomOf
  BY <1>1 DEF RoomOf, MemberOf
<1>3. \A j \in Conn \ {i} : nick'[j] = nick[j] /\ registered'[j] = registered[j]
  BY <1>1 DEF MaybeRegister, Ground, TypeOK
<1>4. \A j \in live \ {i} : nick[j] # NoNick => Lower[nick[j]] # Lower[n]
  <2>1. CASE nick[i] # NoNick /\ Lower[nick[i]] = Lower[n]
    BY <2>1 DEF Ground, NicksDistinct, AbsentIsBlank
  <2>2. CASE Holders(n) = {}
    BY <2>2 DEF Holders
  <2>3. QED
    BY <2>1, <2>2 DEF Nick, InUse
<1>5. Line!Free(n, i)
  BY <1>4, FreeName
<1>6. CASE registered[i]
  <2>1. i \in live /\ registered'[i] /\ NameOf[i] # NoNick
    BY <1>1, <1>6, NameOfPresent DEF MaybeRegister, Ground, TypeOK
  <2>2. NameOf' = [NameOf EXCEPT ![i] = n]
    BY <1>1, <1>3, <2>1 DEF NameOf, Ground, TypeOK
  <2>3. Line!Rename(i, n)
    BY <1>1, <1>2, <1>5, <2>1, <2>2 DEF Line!Rename
  <2>4. QED
    BY <2>3 DEF Line!Act
<1>7. CASE ~registered[i]
  <2>1. seen' = seen
    BY <1>7 DEF Nick
  <2>2. NameOf[i] = NoNick
    BY <1>7 DEF NameOf
  <2>3. CASE registered'[i]
    <3>1. nick'[i] # NoNick
      BY <1>1, <1>7, <2>3 DEF MaybeRegister, Ground, TypeOK
    <3>2. nick'[i] = n
      BY <1>1, <3>1 DEF Ground, TypeOK
    <3>3. NameOf' = [NameOf EXCEPT ![i] = n]
      BY <1>3, <2>3, <3>2 DEF NameOf
    <3>4. Line!Arrive(i, n)
      BY <1>1, <1>2, <1>5, <2>2, <3>3 DEF Line!Arrive
    <3>5. QED
      BY <3>4 DEF Line!Act
  <2>4. CASE ~registered'[i]
    <3>1. NameOf' = NameOf
      BY <1>3, <1>7, <2>4 DEF NameOf
    <3>2. QED
      BY <1>1, <1>2, <2>1, <3>1 DEF Seeming
  <2>5. QED
    BY <2>3, <2>4
<1>8. QED
  BY <1>6, <1>7

\* QUIT and EOF: a departure, if the client had arrived.
LEMMA DropStep ==
  ASSUME Inv, NEW i \in Conn, DropClient(i)
  PROVE  Line!Act \/ UNCHANGED Seeming
<1> USE DEF Inv
<1>1. /\ topic' = topic
      /\ nick' = [nick EXCEPT ![i] = NoNick]
      /\ registered' = [registered EXCEPT ![i] = FALSE]
  BY DEF DropClient
<1>2. NameOf' = [NameOf EXCEPT ![i] = NoNick]
  BY <1>1 DEF NameOf, Ground, TypeOK
<1>3. CASE registered[i]
  <2>1. NameOf[i] # NoNick /\ nick[i] # NoNick
    BY <1>3, NameOfPresent
  <2>2. \A k \in Key : MemberOf(k)' = MemberOf(k) \ {i}
    BY <2>1 DEF DropClient, RoomsOf, MemberOf, Ground, TypeOK
  <2>3. RoomOf' = [k \in Key |-> RoomOf[k] \ {i}]
    BY <2>2 DEF RoomOf
  <2>4. Line!Depart(i)
    BY <1>1, <1>2, <2>1, <2>3 DEF Line!Depart
  <2>5. QED
    BY <2>4 DEF Line!Act
<1>4. CASE ~registered[i]
  <2>1. RoomsOf(i) = {}
    BY <1>4, MembersAreKnown DEF RoomsOf
  <2>2. members' = members
    BY <2>1 DEF DropClient, Ground, TypeOK
  <2>3. \A k \in Key : seen[i][k] = {} /\ seenTopic[i][k] = NoTopic
    BY <2>1 DEF RoomsOf, ViewsAgree
  <2>4. seen \in [Conn -> [Key -> SUBSET Name]]
        /\ seenTopic \in [Conn -> [Key -> Topic \cup {NoTopic}]]
    BY DEF Ground, TypeOK
  <2>5. seen' = seen
    <3>1. seen' = [j \in Conn |-> [k \in Key |-> IF j = i THEN {} ELSE seen[j][k]]]
      BY <2>1 DEF DropClient
    <3>2. QED
      BY <2>3, <2>4, <3>1
  <2>6. seenTopic' = seenTopic
    <3>1. seenTopic' = [seenTopic EXCEPT ![i] = [k \in Key |-> NoTopic]]
      BY DEF DropClient
    <3>2. seenTopic[i] = [k \in Key |-> NoTopic]
      BY <2>3, <2>4
    <3>3. QED
      BY <2>4, <3>1, <3>2
  <2>7. NameOf' = NameOf
    BY <1>2, <1>4 DEF NameOf
  <2>8. RoomOf' = RoomOf
    BY <2>2 DEF RoomOf, MemberOf
  <2>9. QED
    BY <1>1, <2>5, <2>6, <2>7, <2>8 DEF Seeming
<1>5. QED
  BY <1>3, <1>4

\* JOIN and PART: one participant enters or leaves some rooms.
LEMMA JoinPartStep ==
  ASSUME Inv, NEW i \in Conn, NEW toks \in TargetLists,
         Join(i, toks) \/ Part(i, toks)
  PROVE  Line!Act \/ UNCHANGED Seeming
<1> USE DEF Inv
<1>1. UNCHANGED <<nick, registered, topic>>
  BY DEF Join, Part, identity
<1>2. UNCHANGED NameOf
  BY <1>1 DEF NameOf
<1>3. CASE Join(i, toks)
  <2> DEFINE ks == {Lower[c] : c \in toks \cap Chan}
  <2>1. ks \in SUBSET Key
    <3>1. ks \subseteq Key
      BY DEF Key
    <3>2. QED
      BY <3>1
  <2>2. \A k \in Key : MemberOf(k)' =
           IF k \in ks THEN MemberOf(k) \cup {i} ELSE MemberOf(k)
    BY <1>3 DEF Join, Enrolled, MemberOf, Ground, TypeOK
  <2>3. RoomOf' = [k \in Key |->
                     IF k \in ks THEN RoomOf[k] \cup {i} ELSE RoomOf[k]]
    BY <2>2 DEF RoomOf
  <2>4. NameOf[i] # NoNick
    BY <1>3, NameOfPresent DEF Join
  <2>5. Line!Enter(i, ks)
    BY <1>1, <1>2, <2>3, <2>4 DEF Line!Enter
  <2>6. QED
    BY <2>1, <2>5 DEF Line!Act
<1>4. CASE Part(i, toks)
  <2> DEFINE ks == {Lower[c] : c \in toks} \cap RoomsOf(i)
  <2>1. ks \in SUBSET Key
    BY DEF RoomsOf
  <2>2. \A k \in Key : MemberOf(k)' =
           IF k \in ks THEN MemberOf(k) \ {i} ELSE MemberOf(k)
    BY <1>4 DEF Part, MemberOf, Ground, TypeOK
  <2>3. RoomOf' = [k \in Key |->
                     IF k \in ks THEN RoomOf[k] \ {i} ELSE RoomOf[k]]
    BY <2>2 DEF RoomOf
  <2>4. CASE registered[i]
    <3>1. NameOf[i] # NoNick
      BY <2>4, NameOfPresent
    <3>2. Line!Leave(i, ks)
      BY <1>1, <1>2, <2>3, <3>1 DEF Line!Leave
    <3>3. QED
      BY <2>1, <3>2 DEF Line!Act
  <2>5. CASE ~registered[i]
    <3>1. ks = {}
      BY <2>5, MembersAreKnown DEF RoomsOf
    <3>2. UNCHANGED members
      BY <1>4, <3>1 DEF Part, Ground, TypeOK
    <3>3. UNCHANGED seen
      BY <1>4, <3>1 DEF Part, Ground, TypeOK
    <3>4. UNCHANGED seenTopic
      <4>1. seenTopic' = [seenTopic EXCEPT ![i] =
              [k \in Key |-> IF k \in ks THEN NoTopic ELSE @[k]]]
        BY <1>4 DEF Part
      <4>2. seenTopic[i] = [k \in Key |->
                              IF k \in ks THEN NoTopic ELSE seenTopic[i][k]]
        BY <3>1 DEF Ground, TypeOK
      <4>3. QED
        BY <4>1, <4>2 DEF Ground, TypeOK
    <3>5. QED
      BY <1>1, <3>2, <3>3, <3>4, SeemingUnchanged
  <2>6. QED
    BY <2>4, <2>5
<1>5. QED
  BY <1>3, <1>4
-----------------------------------------------------------------------------
LEMMA StepRefines ==
  ASSUME Inv, [Next]_vars
  PROVE  [Line!Act]_Seeming
<1> USE DEF Inv
<1>1. CASE UNCHANGED <<nick, registered, members, topic, seen, seenTopic>>
  BY <1>1, SeemingUnchanged
<1>2. ASSUME NEW i \in Conn, CapEnd(i) \/ User(i)
      PROVE  Line!Act \/ UNCHANGED Seeming
  BY <1>2, RegisterStep
<1>3. ASSUME NEW i \in Conn, NEW n \in Name, Nick(i, n)
      PROVE  Line!Act \/ UNCHANGED Seeming
  BY <1>3, NickStep
<1>4. ASSUME NEW i \in Conn, Quit(i) \/ ConnectionClosed(i)
      PROVE  Line!Act \/ UNCHANGED Seeming
  BY <1>4, DropStep DEF Quit, ConnectionClosed
<1>5. ASSUME NEW i \in Conn, NEW toks \in TargetLists,
             Join(i, toks) \/ Part(i, toks)
      PROVE  Line!Act \/ UNCHANGED Seeming
  BY <1>5, JoinPartStep
<1>6. ASSUME NEW i \in Conn, NEW c \in Chan, Names(i, c)
      PROVE  Line!Act \/ UNCHANGED Seeming
  <2>1. Lower[c] \in Key /\ seen \in [Conn -> [Key -> SUBSET Name]]
    BY DEF Key, Ground, TypeOK
  <2>2. i \in MemberOf(Lower[c])
        => NamesAt(MemberOf(Lower[c])) = seen[i][Lower[c]]
    BY <2>1 DEF ViewsAgree
  <2>3. seen' = seen
    BY <1>6, <2>1, <2>2 DEF Names
  <2>4. QED
    BY <1>6, <2>3, SeemingUnchanged DEF Names, identity, rooms
<1>7. ASSUME NEW i \in Conn, NEW c \in Chan, NEW t \in Topic, SetTopic(i, c, t)
      PROVE  Line!Act \/ UNCHANGED Seeming
  <2>1. UNCHANGED <<NameOf, RoomOf>>
    BY <1>7 DEF SetTopic, identity, NameOf, RoomOf, MemberOf
  <2>2. Line!Retitle(Lower[c], t)
    BY <1>7, <2>1 DEF SetTopic, Line!Retitle
  <2>3. Lower[c] \in Key
    BY DEF Key
  <2>4. QED
    BY <2>2, <2>3 DEF Line!Act
<1>8. QED
  BY <1>1, <1>2, <1>3, <1>4, <1>5, <1>6, <1>7
     DEF Next, vars, identity, rooms, views, Accept, CapLs, NickRefused,
         SayChannel, SayNick

\* The server implements the abstract partyline: its initial states are
\* initial states of Partyline, and every handler is one of its steps, with
\* every roster in step, or is invisible to the participants.
THEOREM ServerImplementsPartyline == Spec => ImplementsPartyline
<1>1. Init => Line!Init
  <2> SUFFICES ASSUME Init PROVE Line!Init
    OBVIOUS
  <2>1. \A k \in Key : MemberOf(k) = {}
    BY DEF Init, MemberOf
  <2>2. NameOf = [i \in Conn |-> NoNick] /\ RoomOf = [k \in Key |-> {}]
    BY <2>1 DEF Init, NameOf, RoomOf
  <2>3. topic \in [Key -> Topic]
    BY ChannelAssumption DEF Init
  <2>4. Line!InStep
    BY <2>1, <2>2 DEF Init, Line!InStep, RoomOf
  <2>5. QED
    BY <2>2, <2>3, <2>4 DEF Line!Init
<1>2. Spec => []Inv
  BY TypeCorrect, RegistrationCorrect, NicksAreDistinct, MembersStayLive,
     ClientsAgree, PTL DEF Inv, Ground
<1>3. Inv /\ [Next]_vars => [Line!Act]_Seeming
  BY StepRefines
<1>4. [Line!Act]_Seeming /\ Line!InStep' => [Line!Act /\ Line!InStep']_(Line!vars)
  BY DEF Seeming, Line!vars
<1>5. QED
  BY <1>1, <1>2, <1>3, <1>4, RostersInStep, PTL
     DEF Spec, ImplementsPartyline, Line!Spec
=============================================================================
