----------------------- MODULE SignalingServerProofs -----------------------
(***************************************************************************)
(* Proofs about SignalingServer: what the coordinator, the servers' mirrors *)
(* and the connected clients know agrees, for any clients, servers, spaces *)
(* and bounds.                                                             *)
(*                                                                         *)
(* A join changes all three at once, so the invariants only hold together. *)
(* They rest on three facts about ids: a member id is given to one client  *)
(* and never again, a mirror holds only members who joined its space, and  *)
(* a suspended join is the only one to wait for its router.                *)
(***************************************************************************)
EXTENDS SignalingServer, TLAPS

USE SpaceAssumption DEF RouterId, MemberId, NoRouter, NoMember

\* A client has a member id exactly if its start() went through, and until its
\* channel closes it is then registered.
PhasesFit ==
  \A c \in Client :
    /\ memberOf[c] # NoMember <=> phase[c] = "joined"
    /\ c \in registered => phase[c] = "joined"
    /\ phase[c] = "joined" /\ c \in open => c \in registered
    /\ phase[c] = "idle" => c \notin open
    /\ phase[c] # "idle" => server[c] \in Server /\ space[c] \in Space

\* Member ids are handed out once.
IdsAreOwn ==
  /\ \A c \in Client : memberOf[c] < nextMember
  /\ \A c, d \in Client :
       memberOf[c] = memberOf[d] /\ memberOf[c] # NoMember => c = d

\* Whoever is in a mirror joined the space it mirrors.
MirroredHaveJoined ==
  \A srv \in Server, sp \in Space : \A m \in mirror[srv][sp] :
    \E c \in Client : memberOf[c] = m /\ space[c] = sp

\* A space that is subscribed to or has members runs.
UsedIsRunning ==
  \A sp \in Space : InUse(sp) => status[sp] = "running"

\* A router that is waited for is waited for by one request and one client.
WaitingIsPrivate ==
  /\ \A p \in pending :
       /\ p.router < nextRouter /\ p.kind = "subscribe"
       /\ \A q \in pending : q.router = p.router => q = p
  /\ \A c \in Client :
       /\ waitsFor[c] < nextRouter
       /\ waitsFor[c] # NoRouter <=> phase[c] = "waiting"
       /\ \A d \in Client : waitsFor[c] = waitsFor[d] /\ phase[c] = "waiting"
                              => c = d
       /\ \A p \in pending : p.router = waitsFor[c]
                               => p.space = space[c] /\ p.server = server[c]

ServerInv ==
  /\ ServerTypeOK
  /\ SubscriptionMapsAgree
  /\ UsedIsRunning
  /\ SubscribedExactlyWhileMirrored
  /\ SessionIsBacked
  /\ MembersAreRegistered
  /\ PhasesFit
  /\ IdsAreOwn
  /\ MirroredHaveJoined
  /\ WaitingIsPrivate

\* Before anybody connects there is nothing to disagree about.
LEMMA ServerInitInv == ServerInit => ServerInv
<1> SUFFICES ASSUME ServerInit PROVE ServerInv
    OBVIOUS
<1> USE DEF ServerInit, Init
<1>1. ServerTypeOK
  <2>1. TypeOK
      BY DEF TypeOK, Status
  <2>2. DOMAIN view = Client /\ \A c \in Client : DOMAIN view[c] \subseteq MemberId
      BY DEF NoView
  <2>3. QED
      BY <2>1, <2>2 DEF ServerTypeOK
<1>2. SubscriptionMapsAgree /\ UsedIsRunning /\ SubscribedExactlyWhileMirrored
    BY DEF SubscriptionMapsAgree, UsedIsRunning, InUse,
       SubscribedExactlyWhileMirrored, IsSubscribed
<1>3. SessionIsBacked /\ MembersAreRegistered
    BY DEF SessionIsBacked, MembersAreRegistered
<1>4. PhasesFit /\ IdsAreOwn /\ MirroredHaveJoined /\ WaitingIsPrivate
    BY DEF PhasesFit, IdsAreOwn, MirroredHaveJoined, WaitingIsPrivate
<1>5. QED
    BY <1>1, <1>2, <1>3, <1>4 DEF ServerInv

\* A member in a mirror of a space is in no mirror of another one.
LEMMA MirroredInOwnSpace ==
  ASSUME ServerInv, NEW c \in Client, NEW srv \in Server, NEW sp \in Space,
         memberOf[c] \in mirror[srv][sp]
  PROVE  space[c] = sp /\ memberOf[c] # NoMember
<1>1. memberOf[c] \in MemberId
    BY DEF ServerInv, ServerTypeOK
<1>2. PICK d \in Client : memberOf[d] = memberOf[c] /\ space[d] = sp
    BY DEF ServerInv, MirroredHaveJoined
<1>3. QED
    BY <1>1, <1>2 DEF ServerInv, IdsAreOwn

-----------------------------------------------------------------------------
(***************************************************************************)
(* Steps by which nobody comes or goes.                                    *)
(***************************************************************************)

\* A step that keeps members, mirrors and subscriptions keeps them in
\* agreement, if it stops no space and moves no client that has joined.
LEMMA QuietStep ==
  ASSUME ServerInv,
         UNCHANGED <<registered, memberOf, mirror, mirrored, subVars, memberVars>>,
         \A d \in Client : memberOf[d] # NoMember
           => server'[d] = server[d] /\ space'[d] = space[d],
         \A x \in Space : status[x] = "running" => status'[x] = "running"
  PROVE  /\ SubscriptionMapsAgree' /\ UsedIsRunning'
         /\ SubscribedExactlyWhileMirrored' /\ SessionIsBacked'
         /\ MembersAreRegistered' /\ IdsAreOwn' /\ MirroredHaveJoined'
<1> USE DEF ServerInv, subVars, memberVars
<1>1. \A d \in registered : d \in Client /\ memberOf[d] # NoMember
    BY DEF ServerTypeOK, PhasesFit
<1>2. SubscriptionMapsAgree' /\ UsedIsRunning' /\ SubscribedExactlyWhileMirrored'
    BY DEF SubscriptionMapsAgree, UsedIsRunning, InUse,
       SubscribedExactlyWhileMirrored, IsSubscribed
<1>3. SessionIsBacked'
  <2> SUFFICES ASSUME NEW d \in registered
               PROVE  /\ status'[space'[d]] = "running"
                      /\ IsSubscribed(server[d], space[d])'
                      /\ memberOf'[d] \in members'[space'[d]]
                      /\ memberOf'[d] \in mirror'[server'[d]][space'[d]]
      BY DEF SessionIsBacked
  <2>1. space[d] \in Space
      BY <1>1 DEF PhasesFit
  <2>2. QED
      BY <1>1, <2>1 DEF SessionIsBacked, IsSubscribed
<1>4. MembersAreRegistered'
  <2>1. \A x \in Space :
          {d \in registered : space'[d] = x} = {d \in registered : space[d] = x}
      BY <1>1
  <2>2. \A x \in Space : members'[x] =
          {memberOf'[d] : d \in {e \in registered' : space'[e] = x}}
      BY <2>1 DEF MembersAreRegistered
  <2>3. \A d \in Client \ registered' : \A x \in Space :
          memberOf'[d] # NoMember => memberOf'[d] \notin mirror'[server'[d]][x]
      BY DEF MembersAreRegistered
  <2>4. QED
      BY <2>2, <2>3 DEF MembersAreRegistered
<1>5. IdsAreOwn'
    BY DEF IdsAreOwn
<1>6. MirroredHaveJoined'
  <2> SUFFICES ASSUME NEW s \in Server, NEW x \in Space, NEW m \in mirror[s][x]
               PROVE  \E d \in Client : memberOf'[d] = m /\ space'[d] = x
      BY DEF MirroredHaveJoined
  <2>1. PICK d \in Client : memberOf[d] = m /\ space[d] = x
      BY DEF MirroredHaveJoined
  <2>2. m \in MemberId
      BY DEF ServerTypeOK
  <2>3. QED
      BY <2>1, <2>2
<1>7. QED
    BY <1>2, <1>3, <1>4, <1>5, <1>6

-----------------------------------------------------------------------------
(***************************************************************************)
(* A client enters a space: the common end of the three ways to join.      *)
(***************************************************************************)

\* What a join does to the coordinator and to the session of its client.
Joins(c, srv, sp) ==
  /\ EnterSpace(c, srv, sp) /\ AddTo(sp)
  /\ server' = [server EXCEPT ![c] = srv]
  /\ space' = [space EXCEPT ![c] = sp]
  /\ status' = [status EXCEPT ![sp] = "running"]
  /\ RecordSubscription(srv, sp)

\* The same, point by point.
Joined(c, srv, sp) ==
  /\ nextMember \in MemberId /\ nextMember' = nextMember + 1
  /\ \A d \in Client :
       /\ memberOf'[d] = IF d = c THEN nextMember ELSE memberOf[d]
       /\ server'[d] = IF d = c THEN srv ELSE server[d]
       /\ space'[d] = IF d = c THEN sp ELSE space[d]
       /\ phase'[d] = IF d = c THEN "joined" ELSE phase[d]
  /\ registered' = registered \cup {c}
  /\ \A x \in Space :
       /\ members'[x] = IF x = sp THEN members[x] \cup {nextMember}
                                 ELSE members[x]
       /\ status'[x] = IF x = sp THEN "running" ELSE status[x]
       /\ \A s : s \in subscribed'[x]
                 <=> s \in subscribed[x] \/ (s = srv /\ x = sp)
  /\ \A s \in Server :
       /\ \A x : x \in mirrored'[s] <=> x \in mirrored[s] \/ (s = srv /\ x = sp)
       /\ \A x : x \in subscriptions'[s]
                 <=> x \in subscriptions[s] \/ (s = srv /\ x = sp)
  /\ \A s \in Server, x \in Space :
       mirror'[s][x] = IF s = srv /\ x = sp
                         THEN PreparedMirror(srv, sp) \cup {nextMember}
                         ELSE mirror[s][x]

\* A join does that and keeps the types of what it changes.
LEMMA JoinEffect ==
  ASSUME ServerInv, NEW c \in Client, NEW srv \in Server, NEW sp \in Space,
         Joins(c, srv, sp)
  PROVE  Joined(c, srv, sp)
<1> USE DEF ServerInv, ServerTypeOK, TypeOK, Joins, EnterSpace
<1>1. nextMember \in MemberId /\ nextMember' = nextMember + 1
    BY DEF AddTo
<1>2. \A d \in Client :
        /\ memberOf'[d] = IF d = c THEN nextMember ELSE memberOf[d]
        /\ server'[d] = IF d = c THEN srv ELSE server[d]
        /\ space'[d] = IF d = c THEN sp ELSE space[d]
        /\ phase'[d] = IF d = c THEN "joined" ELSE phase[d]
    OBVIOUS
<1>3. registered' = registered \cup {c}
    OBVIOUS
<1>4. \A x \in Space :
        /\ members'[x] = IF x = sp THEN members[x] \cup {nextMember}
                                  ELSE members[x]
        /\ status'[x] = IF x = sp THEN "running" ELSE status[x]
        /\ \A s : s \in subscribed'[x]
                  <=> s \in subscribed[x] \/ (s = srv /\ x = sp)
    BY DEF AddTo, RecordSubscription
<1>5. \A s \in Server, x \in Space :
        mirror'[s][x] = IF s = srv /\ x = sp
                          THEN PreparedMirror(srv, sp) \cup {nextMember}
                          ELSE mirror[s][x]
    OBVIOUS
<1>6. \A s \in Server :
        /\ \A x : x \in mirrored'[s] <=> x \in mirrored[s] \/ (s = srv /\ x = sp)
        /\ \A x : x \in subscriptions'[s]
                  <=> x \in subscriptions[s] \/ (s = srv /\ x = sp)
    BY DEF RecordSubscription
<1> HIDE DEF ServerInv, ServerTypeOK, TypeOK, Joins, EnterSpace
<1>7. QED
    BY <1>1, <1>2, <1>3, <1>4, <1>5, <1>6 DEF Joined

\* What a server shows of a space after its subscription has joined it.
LEMMA PreparedHaveJoined ==
  ASSUME ServerInv, NEW srv \in Server, NEW sp \in Space
  PROVE  /\ PreparedMirror(srv, sp) \subseteq MemberId
         /\ \A m \in PreparedMirror(srv, sp) :
              \E c \in Client : memberOf[c] = m /\ space[c] = sp
         /\ mirror[srv][sp] \subseteq PreparedMirror(srv, sp)
<1>1. \A m \in members[sp] : \E c \in Client : memberOf[c] = m /\ space[c] = sp
    BY DEF ServerInv, MembersAreRegistered, ServerTypeOK
<1>2. sp \notin mirrored[srv] => mirror[srv][sp] = {}
    BY DEF ServerInv, SubscribedExactlyWhileMirrored
<1>3. PreparedMirror(srv, sp) \in {mirror[srv][sp], members[sp]}
    BY DEF PreparedMirror
<1>4. mirror[srv][sp] \subseteq MemberId /\ members[sp] \subseteq MemberId
    BY DEF ServerInv, ServerTypeOK, TypeOK
<1>5. \A m \in mirror[srv][sp] : \E c \in Client : memberOf[c] = m /\ space[c] = sp
    BY DEF ServerInv, MirroredHaveJoined
<1>6. mirror[srv][sp] \subseteq PreparedMirror(srv, sp)
    BY <1>2 DEF PreparedMirror
<1>7. QED
    BY <1>1, <1>3, <1>4, <1>5, <1>6

\* A join keeps coordinator, mirrors and sessions in agreement.
LEMMA JoinStep ==
  ASSUME ServerInv, NEW c \in Client, NEW srv \in Server, NEW sp \in Space,
         memberOf[c] = NoMember, Joins(c, srv, sp)
  PROVE  /\ SubscriptionMapsAgree' /\ UsedIsRunning'
         /\ SubscribedExactlyWhileMirrored' /\ SessionIsBacked'
         /\ MembersAreRegistered' /\ IdsAreOwn' /\ MirroredHaveJoined'
<1>0. Joined(c, srv, sp)
    BY JoinEffect
<1>1. SubscriptionMapsAgree'
  <2> SUFFICES ASSUME NEW s \in Server, NEW x \in Space
               PROVE  x \in subscriptions'[s] <=> s \in subscribed'[x]
      BY DEF SubscriptionMapsAgree
  <2>1. x \in subscriptions'[s] <=> x \in subscriptions[s] \/ (s = srv /\ x = sp)
      BY <1>0 DEF Joined
  <2>2. s \in subscribed'[x] <=> s \in subscribed[x] \/ (s = srv /\ x = sp)
      BY <1>0 DEF Joined
  <2>3. QED
      BY <2>1, <2>2 DEF ServerInv, SubscriptionMapsAgree
<1>2. UsedIsRunning'
  <2> SUFFICES ASSUME NEW x \in Space, x # sp, status'[x] # "running"
               PROVE  subscribed'[x] = {} /\ members'[x] = {}
      BY <1>0 DEF Joined, UsedIsRunning, InUse
  <2>1. /\ subscribed'[x] = subscribed[x] /\ members'[x] = members[x]
        /\ status'[x] = status[x]
      BY <1>0 DEF Joined
  <2>2. QED
      BY <2>1 DEF ServerInv, UsedIsRunning, InUse
<1>3. SubscribedExactlyWhileMirrored'
    BY <1>0 DEF Joined, ServerInv, SubscribedExactlyWhileMirrored, IsSubscribed
<1>4. IdsAreOwn'
  <2>1. \A d \in Client : memberOf[d] \in Nat /\ memberOf[d] < nextMember
      BY DEF ServerInv, IdsAreOwn, ServerTypeOK
  <2>2. nextMember \in Nat /\ nextMember' = nextMember + 1
      BY <1>0 DEF Joined
  <2>3. \A d \in Client :
          memberOf'[d] = IF d = c THEN nextMember ELSE memberOf[d]
      BY <1>0 DEF Joined
  <2>4. QED
      BY <2>1, <2>2, <2>3 DEF ServerInv, IdsAreOwn
<1>5. MirroredHaveJoined'
  <2> SUFFICES ASSUME NEW s \in Server, NEW x \in Space, NEW m \in mirror'[s][x]
               PROVE  \E d \in Client : memberOf'[d] = m /\ space'[d] = x
      BY DEF MirroredHaveJoined
  <2>1. CASE s = srv /\ x = sp /\ m = nextMember
      BY <1>0, <2>1 DEF Joined
  <2>2. CASE ~(s = srv /\ x = sp /\ m = nextMember)
    <3>1. m \in mirror[s][x] \/ (x = sp /\ m \in PreparedMirror(srv, sp))
        BY <1>0, <2>2 DEF Joined
    <3>2. m \in MemberId
        BY <3>1, PreparedHaveJoined DEF ServerInv, ServerTypeOK
    <3>3. PICK d \in Client : memberOf[d] = m /\ space[d] = x
        BY <3>1, PreparedHaveJoined DEF ServerInv, MirroredHaveJoined
    <3>4. QED
        BY <1>0, <3>2, <3>3 DEF Joined
  <2>3. QED
      BY <2>1, <2>2
<1>6. SessionIsBacked'
  <2> SUFFICES ASSUME NEW d \in registered'
               PROVE  /\ status'[space'[d]] = "running"
                      /\ IsSubscribed(server[d], space[d])'
                      /\ memberOf'[d] \in members'[space'[d]]
                      /\ memberOf'[d] \in mirror'[server'[d]][space'[d]]
      BY DEF SessionIsBacked
  <2>1. CASE d = c
    <3>1. space'[d] = sp /\ server'[d] = srv /\ memberOf'[d] = nextMember
        BY <1>0, <2>1 DEF Joined
    <3>2. /\ status'[sp] = "running" /\ sp \in subscriptions'[srv]
          /\ nextMember \in members'[sp] /\ nextMember \in mirror'[srv][sp]
        BY <1>0 DEF Joined
    <3>3. QED
        BY <3>1, <3>2 DEF IsSubscribed
  <2>2. CASE d # c
    <3>1. /\ d \in Client /\ d \in registered
          /\ server[d] \in Server /\ space[d] \in Space
        BY <1>0, <2>2 DEF Joined, ServerInv, ServerTypeOK, PhasesFit
    <3>2. /\ status[space[d]] = "running" /\ IsSubscribed(server[d], space[d])
          /\ memberOf[d] \in members[space[d]]
          /\ memberOf[d] \in mirror[server[d]][space[d]]
        BY <3>1 DEF ServerInv, SessionIsBacked
    <3>3. mirror[srv][sp] \subseteq PreparedMirror(srv, sp)
        BY PreparedHaveJoined
    <3>4. /\ space'[d] = space[d] /\ server'[d] = server[d]
          /\ memberOf'[d] = memberOf[d]
        BY <1>0, <2>2, <3>1 DEF Joined
    <3>5. status'[space[d]] = "running" /\ memberOf[d] \in members'[space[d]]
        BY <1>0, <3>1, <3>2 DEF Joined
    <3>6. space[d] \in subscriptions'[server[d]]
        BY <1>0, <3>1, <3>2 DEF Joined, IsSubscribed
    <3>7. memberOf[d] \in mirror'[server[d]][space[d]]
        BY <1>0, <3>1, <3>2, <3>3 DEF Joined
    <3>8. QED
        BY <3>4, <3>5, <3>6, <3>7 DEF IsSubscribed
  <2>3. QED
      BY <2>1, <2>2
<1>7. MembersAreRegistered'
  <2>1. \A d \in registered : d # c /\ d \in Client
      BY DEF ServerInv, ServerTypeOK, PhasesFit
  <2>2. \A x \in Space : members'[x] =
          {memberOf'[d] : d \in {e \in registered' : space'[e] = x}}
    <3> SUFFICES ASSUME NEW x \in Space
                 PROVE  members'[x] =
                   {memberOf'[d] : d \in {e \in registered' : space'[e] = x}}
        OBVIOUS
    <3>1. {e \in registered' : space'[e] = x} =
            {e \in registered : space[e] = x} \cup (IF x = sp THEN {c} ELSE {})
        BY <1>0, <2>1 DEF Joined
    <3>2. \A e \in registered : memberOf'[e] = memberOf[e]
        BY <1>0, <2>1 DEF Joined
    <3>3. memberOf'[c] = nextMember
        BY <1>0 DEF Joined
    <3>4. members[x] = {memberOf[d] : d \in {e \in registered : space[e] = x}}
        BY DEF ServerInv, MembersAreRegistered
    <3>5. members'[x] = members[x] \cup (IF x = sp THEN {nextMember} ELSE {})
        BY <1>0 DEF Joined
    <3>6. QED
        BY <3>1, <3>2, <3>3, <3>4, <3>5
  <2>3. ASSUME NEW d \in Client \ registered', NEW x \in Space,
               memberOf'[d] # NoMember
        PROVE  memberOf'[d] \notin mirror'[server'[d]][x]
    <3>1. /\ d # c /\ d \notin registered /\ memberOf'[d] = memberOf[d]
          /\ memberOf[d] # NoMember /\ server'[d] = server[d]
        BY <1>0, <2>3 DEF Joined
    <3>2. memberOf[d] # nextMember /\ server[d] \in Server
        BY <1>0, <3>1 DEF Joined, ServerInv, ServerTypeOK, PhasesFit, IdsAreOwn
    <3>3. memberOf[d] \notin mirror[server[d]][x]
        BY <3>1 DEF ServerInv, MembersAreRegistered
    <3>4. memberOf[d] \notin members[sp]
        BY <3>1 DEF ServerInv, MembersAreRegistered, IdsAreOwn, ServerTypeOK
    <3>5. QED
        BY <1>0, <3>1, <3>2, <3>3, <3>4 DEF Joined, PreparedMirror
  <2>4. QED
      BY <2>2, <2>3 DEF MembersAreRegistered
<1>8. QED
    BY <1>1, <1>2, <1>3, <1>4, <1>5, <1>6, <1>7

-----------------------------------------------------------------------------
(***************************************************************************)
(* A client leaves.                                                        *)
(***************************************************************************)

\* What a departure does to the coordinator and to the mirror of its server.
Left(c) ==
  /\ registered' = registered \ {c}
  /\ \A x \in Space :
       /\ \A m : m \in members'[x]
             <=> m \in members[x] /\ ~(x = space[c] /\ m = memberOf[c])
       /\ status'[x] = status[x] \/ (x = space[c] /\ ~InUse(x)')
       /\ \A s : s \in subscribed'[x]
             <=> /\ s \in subscribed[x]
                 /\ ~(s = server[c] /\ x = space[c] /\ mirror'[s][x] = {})
  /\ \A s \in Server :
       /\ \A x : x \in mirrored'[s]
             <=> /\ x \in mirrored[s]
                 /\ ~(s = server[c] /\ x = space[c] /\ mirror'[s][x] = {})
       /\ \A x : x \in subscriptions'[s]
             <=> /\ x \in subscriptions[s]
                 /\ ~(s = server[c] /\ x = space[c] /\ mirror'[s][x] = {})
  /\ \A s \in Server, x \in Space :
       \A m : m \in mirror'[s][x]
         <=> m \in mirror[s][x]
               /\ ~(s = server[c] /\ x = space[c] /\ m = memberOf[c])

\* Whoever leaves is registered: the coordinator has its member.
LEMMA LeaverIsRegistered ==
  ASSUME ServerInv, NEW c \in Client, Leave(c)
  PROVE  /\ c \in registered /\ memberOf[c] # NoMember
         /\ server[c] \in Server /\ space[c] \in Space
<1>1. phase[c] # "idle"
    BY DEF Leave, ServerInv, PhasesFit
<1>2. server[c] \in Server /\ space[c] \in Space
    BY <1>1 DEF ServerInv, PhasesFit
<1>3. memberOf[c] \in members[space[c]]
    BY DEF Leave
<1>4. PICK d \in registered : memberOf[d] = memberOf[c] /\ space[d] = space[c]
    BY <1>2, <1>3 DEF ServerInv, MembersAreRegistered
<1>5. memberOf[c] \in MemberId
    BY <1>2, <1>3 DEF ServerInv, ServerTypeOK, TypeOK
<1>6. QED
    BY <1>2, <1>4, <1>5 DEF ServerInv, IdsAreOwn, ServerTypeOK

\* A departure does that.
LEMMA LeaveEffect ==
  ASSUME ServerInv, NEW c \in Client, Leave(c)
  PROVE  Left(c)
<1> DEFINE srv == server[c]
           sp == space[c]
           m == memberOf[c]
           rest == mirror[srv][sp] \ {m}
<1>0. c \in registered /\ srv \in Server /\ sp \in Space
    BY LeaverIsRegistered
<1>1. registered' = registered \ {c}
    BY DEF Leave
<1>2. \A s \in Server, x \in Space :
        mirror'[s][x] = IF s = srv /\ x = sp THEN rest ELSE mirror[s][x]
    BY <1>0 DEF Leave, ServerInv, ServerTypeOK
<1>3. \A x \in Space : members'[x] = IF x = sp THEN members[x] \ {m} ELSE members[x]
    BY <1>0 DEF Leave, RemoveFrom, ServerInv, ServerTypeOK, TypeOK
<1>4. \A s \in Server :
        \A x : x \in mirrored'[s]
          <=> x \in mirrored[s] /\ ~(s = srv /\ x = sp /\ rest = {})
    BY <1>0 DEF Leave, ServerInv, ServerTypeOK
<1>5. \A s \in Server :
        \A x : x \in subscriptions'[s]
          <=> x \in subscriptions[s] /\ ~(s = srv /\ x = sp /\ rest = {})
  <2>1. CASE rest = {}
      BY <1>0, <2>1 DEF Leave, DropSubscription, ServerInv, ServerTypeOK, TypeOK
  <2>2. CASE rest # {}
      BY <1>0, <2>2 DEF Leave, subVars
  <2>3. QED
      BY <2>1, <2>2
<1>6. \A x \in Space :
        \A s : s \in subscribed'[x]
          <=> s \in subscribed[x] /\ ~(s = srv /\ x = sp /\ rest = {})
  <2>1. CASE rest = {}
      BY <1>0, <2>1 DEF Leave, DropSubscription, ServerInv, ServerTypeOK, TypeOK
  <2>2. CASE rest # {}
      BY <1>0, <2>2 DEF Leave, subVars
  <2>3. QED
      BY <2>1, <2>2
<1>7. \A x \in Space : status'[x] = status[x] \/ (x = sp /\ ~InUse(x)')
  <2>1. EndIfIdle(sp)
      BY DEF Leave
  <2>2. CASE ShouldEnd(sp)
    <3>1. status' = [status EXCEPT ![sp] = "ended"]
        BY <2>1, <2>2 DEF EndIfIdle, EndSpace
    <3>2. subscribed'[sp] = {} /\ members'[sp] = {}
        BY <2>2 DEF ShouldEnd
    <3>3. QED
        BY <1>0, <3>1, <3>2 DEF InUse, ServerInv, ServerTypeOK, TypeOK
  <2>3. CASE ~ShouldEnd(sp)
      BY <2>1, <2>3 DEF EndIfIdle, lifeVars
  <2>4. QED
      BY <2>2, <2>3
<1>8. mirror'[srv][sp] = rest
    BY <1>0, <1>2
<1>9. \A s \in Server, x \in Space :
        \A n : n \in mirror'[s][x]
          <=> n \in mirror[s][x] /\ ~(s = srv /\ x = sp /\ n = m)
    BY <1>2
<1>10. \A x \in Space :
        \A n : n \in members'[x] <=> n \in members[x] /\ ~(x = sp /\ n = m)
    BY <1>3
<1>11. QED
    BY <1>1, <1>4, <1>5, <1>6, <1>7, <1>8, <1>9, <1>10 DEF Left

\* A departure keeps coordinator, mirrors and sessions in agreement.
LEMMA LeaveStep ==
  ASSUME ServerInv, NEW c \in Client, Leave(c)
  PROVE  /\ SubscriptionMapsAgree' /\ UsedIsRunning'
         /\ SubscribedExactlyWhileMirrored' /\ SessionIsBacked'
         /\ MembersAreRegistered' /\ IdsAreOwn' /\ MirroredHaveJoined'
<1>0. /\ Left(c) /\ c \in registered /\ memberOf[c] # NoMember
      /\ server[c] \in Server /\ space[c] \in Space
    BY LeaveEffect, LeaverIsRegistered
<1>f. UNCHANGED <<memberOf, server, space, nextMember>>
    BY DEF Leave, RemoveFrom
<1>1. SubscriptionMapsAgree'
    BY <1>0 DEF Left, ServerInv, SubscriptionMapsAgree
<1>2. UsedIsRunning'
  <2> SUFFICES ASSUME NEW x \in Space, InUse(x)'
               PROVE  status'[x] = "running"
      BY DEF UsedIsRunning
  <2>1. status'[x] = status[x]
      BY <1>0 DEF Left
  <2>2. InUse(x)
      BY <1>0 DEF Left, InUse
  <2>3. QED
      BY <2>1, <2>2 DEF ServerInv, UsedIsRunning
<1>3. SubscribedExactlyWhileMirrored'
  <2> SUFFICES ASSUME NEW s \in Server, NEW x \in Space
               PROVE  /\ x \in subscriptions'[s] <=> x \in mirrored'[s]
                      /\ x \in mirrored'[s] <=> mirror'[s][x] # {}
      BY DEF SubscribedExactlyWhileMirrored, IsSubscribed
  <2>1. x \in subscriptions'[s] <=> x \in mirrored'[s]
      BY <1>0 DEF Left, ServerInv, SubscribedExactlyWhileMirrored, IsSubscribed
  <2>2. x \in mirrored[s] <=> mirror[s][x] # {}
      BY DEF ServerInv, SubscribedExactlyWhileMirrored
  <2>3. CASE s = server[c] /\ x = space[c]
    <3>1. mirror'[s][x] # {} => mirror[s][x] # {}
        BY <1>0 DEF Left
    <3>2. QED
        BY <1>0, <2>1, <2>2, <2>3, <3>1 DEF Left
  <2>4. CASE ~(s = server[c] /\ x = space[c])
    <3>1. mirror'[s][x] # {} <=> mirror[s][x] # {}
        BY <1>0, <2>4 DEF Left
    <3>2. QED
        BY <1>0, <2>1, <2>2, <2>4, <3>1 DEF Left
  <2>5. QED
      BY <2>3, <2>4
<1>4. SessionIsBacked'
  <2> SUFFICES ASSUME NEW d \in registered'
               PROVE  /\ status'[space[d]] = "running"
                      /\ space[d] \in subscriptions'[server[d]]
                      /\ memberOf[d] \in members'[space[d]]
                      /\ memberOf[d] \in mirror'[server[d]][space[d]]
      BY <1>f DEF SessionIsBacked, IsSubscribed
  <2>1. /\ d \in Client /\ d \in registered /\ d # c
        /\ server[d] \in Server /\ space[d] \in Space
      BY <1>0 DEF Left, ServerInv, ServerTypeOK, PhasesFit
  <2>2. memberOf[d] # memberOf[c]
      BY <1>0, <2>1 DEF ServerInv, IdsAreOwn
  <2>3. /\ status[space[d]] = "running" /\ space[d] \in subscriptions[server[d]]
        /\ memberOf[d] \in members[space[d]]
        /\ memberOf[d] \in mirror[server[d]][space[d]]
      BY <2>1 DEF ServerInv, SessionIsBacked, IsSubscribed
  <2>4. memberOf[d] \in members'[space[d]]
      BY <1>0, <2>1, <2>2, <2>3 DEF Left
  <2>5. memberOf[d] \in mirror'[server[d]][space[d]]
      BY <1>0, <2>1, <2>2, <2>3 DEF Left
  <2>6. space[d] \in subscriptions'[server[d]]
      BY <1>0, <2>1, <2>3, <2>5 DEF Left
  <2>7. status'[space[d]] = "running"
      BY <1>0, <2>1, <2>3, <2>4 DEF Left, InUse
  <2>8. QED
      BY <2>4, <2>5, <2>6, <2>7
<1>5. MembersAreRegistered'
  <2>1. ASSUME NEW x \in Space
        PROVE  members'[x] =
                 {memberOf'[d] : d \in {e \in registered' : space'[e] = x}}
    <3>1. members[x] = {memberOf[d] : d \in {e \in registered : space[e] = x}}
        BY DEF ServerInv, MembersAreRegistered
    <3>2. \A d \in registered : d # c => memberOf[d] # memberOf[c]
        BY <1>0 DEF ServerInv, IdsAreOwn, ServerTypeOK
    <3>3. \A n : n \in members'[x]
             <=> n \in members[x] /\ ~(x = space[c] /\ n = memberOf[c])
        BY <1>0 DEF Left
    <3>4. registered' = registered \ {c}
        BY <1>0 DEF Left
    <3>5. QED
        BY <1>f, <3>1, <3>2, <3>3, <3>4
  <2>2. ASSUME NEW d \in Client \ registered', NEW x \in Space,
               memberOf[d] # NoMember
        PROVE  memberOf[d] \notin mirror'[server[d]][x]
    <3>1. server[d] \in Server
        BY <2>2 DEF ServerInv, PhasesFit
    <3>2. CASE d = c
      <4>1. CASE x = space[c]
          BY <1>0, <3>2, <4>1 DEF Left
      <4>2. CASE x # space[c]
        <5>1. memberOf[d] \notin mirror[server[d]][x]
            BY <3>1, <3>2, <4>2, MirroredInOwnSpace
        <5>2. QED
            BY <1>0, <3>1, <5>1 DEF Left
      <4>3. QED
          BY <4>1, <4>2
    <3>3. CASE d # c
      <4>1. d \notin registered
          BY <1>0, <3>3 DEF Left
      <4>2. memberOf[d] \notin mirror[server[d]][x]
          BY <2>2, <4>1 DEF ServerInv, MembersAreRegistered
      <4>3. QED
          BY <1>0, <3>1, <4>2 DEF Left
    <3>4. QED
        BY <3>2, <3>3
  <2>3. QED
      BY <1>f, <2>1, <2>2 DEF MembersAreRegistered
<1>6. IdsAreOwn'
    BY <1>f DEF ServerInv, IdsAreOwn
<1>7. MirroredHaveJoined'
    BY <1>0, <1>f DEF Left, ServerInv, MirroredHaveJoined
<1>8. QED
    BY <1>1, <1>2, <1>3, <1>4, <1>5, <1>6, <1>7

-----------------------------------------------------------------------------
(***************************************************************************)
(* The three ways to join are one.                                         *)
(***************************************************************************)

\* A member id that is none is what a client has that has not joined, and the
\* only request that names its router is its own.
LEMMA NewcomerIsBlank ==
  ASSUME ServerInv, NEW c \in Client, phase[c] # "joined"
  PROVE  memberOf[c] = NoMember /\ c \notin registered
    BY DEF ServerInv, PhasesFit

\* Joining a space the server mirrors already.
LEMMA JoinMirroredJoins ==
  ASSUME ServerInv, NEW c \in Client, NEW srv \in Server, NEW sp \in Space,
         JoinMirrored(c, srv, sp)
  PROVE  Joins(c, srv, sp)
<1>1. sp \in subscriptions[srv] /\ srv \in subscribed[sp]
    BY DEF JoinMirrored, ServerInv, SubscribedExactlyWhileMirrored,
       IsSubscribed, SubscriptionMapsAgree
<1>2. status[sp] = "running"
    BY <1>1 DEF ServerInv, UsedIsRunning, InUse
<1>3. status' = [status EXCEPT ![sp] = "running"]
    BY <1>2 DEF JoinMirrored, AddMember, lifeVars, ServerInv, ServerTypeOK, TypeOK
<1>4. subscriptions' = [subscriptions EXCEPT ![srv] = @ \cup {sp}]
  <2>1. subscriptions[srv] \cup {sp} = subscriptions[srv]
      BY <1>1
  <2>2. QED
      BY <2>1 DEF JoinMirrored, AddMember, subVars, ServerInv, ServerTypeOK, TypeOK
<1>5. subscribed' = [subscribed EXCEPT ![sp] = @ \cup {srv}]
  <2>1. subscribed[sp] \cup {srv} = subscribed[sp]
      BY <1>1
  <2>2. QED
      BY <2>1 DEF JoinMirrored, AddMember, subVars, ServerInv, ServerTypeOK, TypeOK
<1>6. /\ EnterSpace(c, srv, sp) /\ AddTo(sp)
      /\ server' = [server EXCEPT ![c] = srv] /\ space' = [space EXCEPT ![c] = sp]
    BY DEF JoinMirrored, AddMember, OpenChannel
<1>7. QED
    BY <1>3, <1>4, <1>5, <1>6 DEF Joins, RecordSubscription

\* Joining a space that runs for another server.
LEMMA JoinRunningJoins ==
  ASSUME ServerInv, NEW c \in Client, NEW srv \in Server, NEW sp \in Space,
         JoinRunning(c, srv, sp)
  PROVE  Joins(c, srv, sp)
<1>1. status' = [status EXCEPT ![sp] = "running"]
    BY DEF JoinRunning, lifeVars, ServerInv, ServerTypeOK, TypeOK
<1>2. QED
    BY <1>1 DEF JoinRunning, OpenChannel, Joins

\* Joining when the router is there: the answer is the client's own.
LEMMA ResumeJoinJoins ==
  ASSUME ServerInv, NEW c \in Client, NEW p \in pending, ResumeJoin(c, p)
  PROVE  /\ p.space = space[c] /\ p.server = server[c]
         /\ p.space \in Space /\ p.server \in Server /\ p.router \in RouterId
         /\ Joins(c, p.server, p.space)
<1>1. /\ p.space = space[c] /\ p.server = server[c]
      /\ p.space \in Space /\ p.server \in Server
    BY DEF ResumeJoin, ServerInv, WaitingIsPrivate, PhasesFit
<1>2. p.router \in RouterId
    BY DEF ServerInv, ServerTypeOK, TypeOK, Request
<1>3. server' = [server EXCEPT ![c] = p.server]
    BY <1>1 DEF ResumeJoin, ServerInv, ServerTypeOK
<1>4. space' = [space EXCEPT ![c] = p.space]
    BY <1>1 DEF ResumeJoin, ServerInv, ServerTypeOK
<1>5. QED
    BY <1>1, <1>2, <1>3, <1>4 DEF ResumeJoin, Joins

-----------------------------------------------------------------------------
(***************************************************************************)
(* Types.                                                                  *)
(***************************************************************************)

\* A join keeps the types of what all three ways to join change.
LEMMA JoinTypes ==
  ASSUME ServerInv, NEW c \in Client, NEW srv \in Server, NEW sp \in Space,
         Joins(c, srv, sp),
         primaryRouter' \in [Space -> RouterId \cup {NoRouter}],
         UNCHANGED <<routers, nextRouter, down>>, pending' \subseteq pending,
         open' \subseteq Client,
         waitsFor' \in [Client -> RouterId \cup {NoRouter}]
  PROVE  ServerTypeOK'
<1>1. nextMember \in MemberId
    BY JoinEffect DEF Joined
<1>2. TypeOK'
  <2>1. status' \in [Space -> Status] /\ subscriptions' \in [Server -> SUBSET Space]
        /\ subscribed' \in [Space -> SUBSET Server]
      BY DEF Joins, RecordSubscription, ServerInv, ServerTypeOK, TypeOK, Status
  <2>2. members' \in [Space -> SUBSET MemberId] /\ nextMember' \in 1 .. MaxMembers + 1
      BY <1>1 DEF Joins, AddTo, ServerInv, ServerTypeOK, TypeOK
  <2>3. QED
      BY <2>1, <2>2 DEF ServerInv, ServerTypeOK, TypeOK
<1>3. /\ phase' \in [Client -> {"idle", "waiting", "joined", "failed"}]
      /\ server' \in [Client -> Server \cup {NoServer}]
      /\ space' \in [Client -> Space \cup {NoSpace}]
      /\ memberOf' \in [Client -> MemberId \cup {NoMember}]
      /\ registered' \subseteq Client
    BY <1>1 DEF Joins, EnterSpace, ServerInv, ServerTypeOK
<1>4. mirrored' \in [Server -> SUBSET Space]
    BY DEF Joins, EnterSpace, ServerInv, ServerTypeOK
<1>5. mirror' \in [Server -> [Space -> SUBSET MemberId]]
    BY <1>1, PreparedHaveJoined DEF Joins, EnterSpace, ServerInv, ServerTypeOK
<1>6. state' \in [Server -> [MemberId -> BOOLEAN]]
  <2>1. PreparedState(srv, sp) \in [MemberId -> BOOLEAN]
    <3>1. \A m \in MemberId : state[srv][m] \in BOOLEAN
        BY DEF ServerInv, ServerTypeOK
    <3>2. \A m \in MemberId :
            (IF sp \notin mirrored[srv] /\ m \in members[sp]
               THEN FALSE ELSE state[srv][m]) \in BOOLEAN
        BY <3>1, Zenon
    <3>3. QED
        BY <3>2, Zenon DEF PreparedState
  <2>2. [PreparedState(srv, sp) EXCEPT ![nextMember] = FALSE] \in [MemberId -> BOOLEAN]
      BY <1>1, <2>1
  <2>3. QED
      BY <2>2 DEF Joins, EnterSpace, ServerInv, ServerTypeOK
<1>7. DOMAIN view' = Client /\ \A d \in Client : DOMAIN view'[d] \subseteq MemberId
  <2>1. DOMAIN view' = Client
      BY DEF Joins, EnterSpace
  <2>2. ASSUME NEW d \in Client
        PROVE  DOMAIN view'[d] \subseteq MemberId
    <3>1. \/ view'[d] = MirrorView(srv, sp)'
          \/ view'[d] = Learn(view[d], nextMember, FALSE)
          \/ view'[d] = view[d]
        BY DEF Joins, EnterSpace
    <3>2. DOMAIN MirrorView(srv, sp)' = mirror'[srv][sp]
        BY DEF MirrorView
    <3>3. DOMAIN Learn(view[d], nextMember, FALSE) = DOMAIN view[d] \cup {nextMember}
        BY DEF Learn
    <3>4. mirror'[srv][sp] \subseteq MemberId /\ DOMAIN view[d] \subseteq MemberId
        BY <1>5 DEF ServerInv, ServerTypeOK
    <3>5. QED
        BY <1>1, <3>1, <3>2, <3>3, <3>4
  <2>3. QED
      BY <2>1, <2>2
<1>8. QED
    BY <1>2, <1>3, <1>4, <1>5, <1>6, <1>7 DEF ServerInv, ServerTypeOK

\* A departure keeps the types.
LEMMA LeaveTypes ==
  ASSUME ServerInv, NEW c \in Client, Leave(c)
  PROVE  ServerTypeOK'
<1>0. server[c] \in Server /\ space[c] \in Space
    BY LeaverIsRegistered
<1>1. EndIfIdle(space[c])
    BY DEF Leave
<1>2. /\ status' \in [Space -> Status]
      /\ primaryRouter' \in [Space -> RouterId \cup {NoRouter}]
      /\ routers' \in [RouterId -> Space \cup {NoSpace}]
      /\ UNCHANGED <<nextRouter, pending>>
  <2>1. CASE ShouldEnd(space[c])
    <3>1. EndSpace(space[c]) /\ UNCHANGED <<nextRouter, pending>>
        BY <1>1, <2>1 DEF EndIfIdle
    <3>2. status' \in [Space -> Status]
        BY <1>0, <3>1 DEF EndSpace, Status, ServerInv, ServerTypeOK, TypeOK
    <3>3. primaryRouter' \in [Space -> RouterId \cup {NoRouter}]
        BY <1>0, <3>1 DEF EndSpace, ServerInv, ServerTypeOK, TypeOK
    <3>4. routers' \in [RouterId -> Space \cup {NoSpace}]
        BY <1>0, <3>1 DEF EndSpace, RemoveRouter, ServerInv, ServerTypeOK, TypeOK
    <3>5. QED
        BY <3>1, <3>2, <3>3, <3>4
  <2>2. CASE ~ShouldEnd(space[c])
      BY <1>0, <1>1, <2>2 DEF EndIfIdle, lifeVars, ServerInv, ServerTypeOK, TypeOK
  <2>3. QED
      BY <2>1, <2>2
<1>3. /\ subscriptions' \in [Server -> SUBSET Space]
      /\ subscribed' \in [Space -> SUBSET Server]
      /\ mirrored' \in [Server -> SUBSET Space]
  <2>1. CASE mirror[server[c]][space[c]] \ {memberOf[c]} = {}
    <3>1. /\ subscriptions' = [subscriptions EXCEPT ![server[c]] = @ \ {space[c]}]
          /\ subscribed' = [subscribed EXCEPT ![space[c]] = @ \ {server[c]}]
          /\ mirrored' = [mirrored EXCEPT ![server[c]] = @ \ {space[c]}]
        BY <2>1 DEF Leave, DropSubscription
    <3>2. QED
        BY <1>0, <3>1 DEF ServerInv, ServerTypeOK, TypeOK
  <2>2. CASE mirror[server[c]][space[c]] \ {memberOf[c]} # {}
    <3>1. UNCHANGED <<mirrored, subscriptions, subscribed>>
        BY <2>2 DEF Leave, subVars
    <3>2. QED
        BY <3>1 DEF ServerInv, ServerTypeOK, TypeOK
  <2>3. QED
      BY <2>1, <2>2
<1>4. members' \in [Space -> SUBSET MemberId] /\ nextMember' = nextMember
    BY <1>0 DEF Leave, RemoveFrom, ServerInv, ServerTypeOK, TypeOK
<1>5. TypeOK'
    BY <1>2, <1>3, <1>4 DEF ServerInv, ServerTypeOK, TypeOK
<1>6. mirror' \in [Server -> [Space -> SUBSET MemberId]]
    BY <1>0 DEF Leave, ServerInv, ServerTypeOK
<1>7. DOMAIN view' = Client /\ \A d \in Client : DOMAIN view'[d] \subseteq MemberId
    BY DEF Leave, ServerInv, ServerTypeOK
<1>8. /\ UNCHANGED <<phase, server, space, waitsFor, memberOf, state, down>>
      /\ open' \subseteq Client /\ registered' \subseteq Client
    BY DEF Leave, ServerInv, ServerTypeOK
<1>9. QED
    BY <1>3, <1>5, <1>6, <1>7, <1>8 DEF ServerInv, ServerTypeOK

\* A change of state keeps the types.
LEMMA UpdateTypes ==
  ASSUME ServerInv, NEW c \in Client, NEW v \in BOOLEAN, UpdateMember(c, v)
  PROVE  ServerTypeOK'
<1>1. memberOf[c] \in MemberId /\ server[c] \in Server
    BY DEF UpdateMember, ServerInv, PhasesFit, ServerTypeOK
<1>2. state' \in [Server -> [MemberId -> BOOLEAN]]
    BY <1>1 DEF UpdateMember, ServerInv, ServerTypeOK
<1>3. DOMAIN view' = Client /\ \A d \in Client : DOMAIN view'[d] \subseteq MemberId
  <2>1. DOMAIN view' = Client
      BY DEF UpdateMember
  <2>2. \A d \in Client : view'[d] \in {view[d], Learn(view[d], memberOf[c], v)}
      BY DEF UpdateMember
  <2>3. \A d \in Client : DOMAIN Learn(view[d], memberOf[c], v) =
                            DOMAIN view[d] \cup {memberOf[c]}
      BY DEF Learn
  <2>4. QED
    <3>1. \A d \in Client : DOMAIN view[d] \subseteq MemberId
        BY DEF ServerInv, ServerTypeOK
    <3>2. ASSUME NEW d \in Client
          PROVE  DOMAIN view'[d] \subseteq MemberId
      <4>1. view'[d] = view[d] \/ view'[d] = Learn(view[d], memberOf[c], v)
          BY <2>2
      <4>2. QED
          BY <1>1, <2>3, <3>1, <4>1
    <3>3. QED
        BY <2>1, <3>2
<1>4. TypeOK'
    BY DEF UpdateMember, coordVars, vars, lifeVars, routerVars, subVars,
       memberVars, ServerInv, ServerTypeOK, TypeOK
<1>5. QED
    BY <1>2, <1>3, <1>4 DEF UpdateMember, sessionVars, ServerInv, ServerTypeOK

-----------------------------------------------------------------------------
(***************************************************************************)
(* Who waits for what.                                                     *)
(***************************************************************************)

\* A client that goes straight from idle to its end waits for nothing, and
\* nobody else notices.
LEMMA WaitingKept ==
  ASSUME ServerInv, NEW c \in Client, phase[c] = "idle", phase'[c] # "waiting",
         UNCHANGED <<pending, nextRouter, waitsFor>>,
         \A d \in Client : d # c =>
           /\ phase'[d] = phase[d]
           /\ server'[d] = server[d] /\ space'[d] = space[d]
  PROVE  WaitingIsPrivate'
<1>1. waitsFor[c] = NoRouter
    BY DEF ServerInv, WaitingIsPrivate
<1>2. \A p \in pending : p.router \in RouterId
    BY DEF ServerInv, ServerTypeOK, TypeOK, Request
<1>3. \A p \in pending : p.router # waitsFor[c]
    BY <1>1, <1>2
<1>4. ASSUME NEW d \in Client
      PROVE  /\ waitsFor[d] < nextRouter
             /\ waitsFor[d] # NoRouter <=> phase'[d] = "waiting"
             /\ \A e \in Client : waitsFor[d] = waitsFor[e] /\ phase'[d] = "waiting"
                                    => d = e
             /\ \A p \in pending : p.router = waitsFor[d]
                                     => p.space = space'[d] /\ p.server = server'[d]
  <2>1. CASE d = c
      BY <1>1, <1>3, <2>1 DEF ServerInv, WaitingIsPrivate
  <2>2. CASE d # c
      BY <1>1, <2>2 DEF ServerInv, WaitingIsPrivate
  <2>3. QED
      BY <2>1, <2>2
<1>5. QED
    BY <1>4 DEF ServerInv, WaitingIsPrivate

\* A new request and the client that waits for it find each other.
LEMMA WaitingStarted ==
  ASSUME ServerInv, NEW c \in Client, NEW srv \in Server, NEW sp \in Space,
         JoinStarting(c, srv, sp)
  PROVE  WaitingIsPrivate'
<1> DEFINE q == [router |-> nextRouter, space |-> sp, server |-> srv,
                 kind |-> "subscribe"]
<1>1. /\ nextRouter \in RouterId /\ nextRouter' = nextRouter + 1
      /\ pending' = pending \cup {q} /\ phase[c] = "idle"
    BY DEF JoinStarting, StartBySubscribe, Allocate, OpenChannel, ServerInv,
       ServerTypeOK, TypeOK
<1>2. \A d \in Client :
        /\ phase'[d] = IF d = c THEN "waiting" ELSE phase[d]
        /\ waitsFor'[d] = IF d = c THEN nextRouter ELSE waitsFor[d]
        /\ server'[d] = IF d = c THEN srv ELSE server[d]
        /\ space'[d] = IF d = c THEN sp ELSE space[d]
    BY DEF JoinStarting, OpenChannel, ServerInv, ServerTypeOK
<1>3. /\ \A p \in pending : p.router \in RouterId /\ p.router < nextRouter
      /\ \A d \in Client : waitsFor[d] \in Nat /\ waitsFor[d] < nextRouter
    BY DEF ServerInv, WaitingIsPrivate, ServerTypeOK, TypeOK, Request
<1>4. /\ q.router = nextRouter /\ q.kind = "subscribe"
      /\ q.space = sp /\ q.server = srv
    OBVIOUS
<1>5. ASSUME NEW p \in pending'
      PROVE  /\ p.router < nextRouter' /\ p.kind = "subscribe"
             /\ \A r \in pending' : r.router = p.router => r = p
  <2>1. CASE p = q
      BY <1>1, <1>3, <1>4, <2>1
  <2>2. CASE p \in pending
      BY <1>1, <1>3, <1>4, <2>2 DEF ServerInv, WaitingIsPrivate
  <2>3. QED
      BY <1>1, <2>1, <2>2
<1>6. ASSUME NEW d \in Client
      PROVE  /\ waitsFor'[d] < nextRouter'
             /\ waitsFor'[d] # NoRouter <=> phase'[d] = "waiting"
             /\ \A e \in Client : waitsFor'[d] = waitsFor'[e] /\ phase'[d] = "waiting"
                                    => d = e
             /\ \A p \in pending' : p.router = waitsFor'[d]
                                     => p.space = space'[d] /\ p.server = server'[d]
  <2>1. CASE d = c
    <3>1. waitsFor'[d] = nextRouter /\ phase'[d] = "waiting"
        BY <1>2, <2>1
    <3>2. \A e \in Client : waitsFor'[e] = nextRouter => e = c
        BY <1>1, <1>2, <1>3
    <3>3. \A p \in pending' : p.router = nextRouter => p = q
        BY <1>1, <1>3
    <3>4. QED
        BY <1>1, <1>2, <1>4, <2>1, <3>1, <3>2, <3>3
  <2>2. CASE d # c
    <3>1. /\ waitsFor'[d] = waitsFor[d] /\ phase'[d] = phase[d]
          /\ server'[d] = server[d] /\ space'[d] = space[d]
        BY <1>2, <2>2
    <3>2. waitsFor[d] # nextRouter /\ waitsFor[d] < nextRouter'
        BY <1>1, <1>3
    <3>3. waitsFor[d] # NoRouter <=> phase[d] = "waiting"
        BY DEF ServerInv, WaitingIsPrivate
    <3>4. \A e \in Client : waitsFor[d] = waitsFor'[e] /\ phase[d] = "waiting"
                              => d = e
        BY <1>2, <3>2 DEF ServerInv, WaitingIsPrivate
    <3>5. \A p \in pending' : p.router = waitsFor[d]
                                => p.space = space[d] /\ p.server = server[d]
        BY <1>1, <1>4, <3>2 DEF ServerInv, WaitingIsPrivate
    <3>6. QED
        BY <3>1, <3>2, <3>3, <3>4, <3>5
  <2>3. QED
      BY <2>1, <2>2
<1>7. QED
    BY <1>5, <1>6 DEF WaitingIsPrivate

\* An answered request is gone, and so is the wait for it.
LEMMA WaitingResumed ==
  ASSUME ServerInv, NEW c \in Client, NEW p \in pending, ResumeJoin(c, p)
  PROVE  WaitingIsPrivate'
<1>1. /\ pending' = pending \ {p} /\ waitsFor[c] = p.router /\ phase[c] = "waiting"
      /\ UNCHANGED <<nextRouter, server, space>>
    BY DEF ResumeJoin, AssignRouter
<1>2. \A d \in Client :
        /\ phase'[d] = IF d = c THEN "joined" ELSE phase[d]
        /\ waitsFor'[d] = IF d = c THEN NoRouter ELSE waitsFor[d]
    BY DEF ResumeJoin, EnterSpace, ServerInv, ServerTypeOK
<1>3. \A q \in pending : q.router \in RouterId
    BY DEF ServerInv, ServerTypeOK, TypeOK, Request
<1>4. nextRouter \in Nat \ {0}
    BY DEF ServerInv, ServerTypeOK, TypeOK
<1>5. ASSUME NEW d \in Client
      PROVE  /\ waitsFor'[d] < nextRouter
             /\ waitsFor'[d] # NoRouter <=> phase'[d] = "waiting"
             /\ \A e \in Client : waitsFor'[d] = waitsFor'[e] /\ phase'[d] = "waiting"
                                    => d = e
             /\ \A q \in pending' : q.router = waitsFor'[d]
                                     => q.space = space[d] /\ q.server = server[d]
  <2>1. CASE d = c
      BY <1>1, <1>2, <1>3, <1>4, <2>1
  <2>2. CASE d # c
    <3>1. waitsFor[d] # NoRouter <=> phase[d] = "waiting"
        BY DEF ServerInv, WaitingIsPrivate
    <3>2. QED
        BY <1>1, <1>2, <2>2, <3>1 DEF ServerInv, WaitingIsPrivate
  <2>3. QED
      BY <2>1, <2>2
<1>6. QED
    BY <1>1, <1>5 DEF ServerInv, WaitingIsPrivate

\* A join leaves its client with a member id, registered and somewhere.
LEMMA JoinPhases ==
  ASSUME ServerInv, NEW c \in Client, NEW srv \in Server, NEW sp \in Space,
         Joins(c, srv, sp), open' \subseteq open \cup {c}
  PROVE  PhasesFit'
<1>0. Joined(c, srv, sp)
    BY JoinEffect
<1> SUFFICES ASSUME NEW d \in Client
             PROVE  /\ memberOf'[d] # NoMember <=> phase'[d] = "joined"
                    /\ d \in registered' => phase'[d] = "joined"
                    /\ phase'[d] = "joined" /\ d \in open' => d \in registered'
                    /\ phase'[d] = "idle" => d \notin open'
                    /\ phase'[d] # "idle" => server'[d] \in Server /\ space'[d] \in Space
    BY DEF PhasesFit
<1>1. CASE d = c
    BY <1>0, <1>1 DEF Joined
<1>2. CASE d # c
    BY <1>0, <1>2 DEF Joined, ServerInv, PhasesFit
<1>3. QED
    BY <1>1, <1>2

-----------------------------------------------------------------------------
(***************************************************************************)
(* Every step keeps the invariant.                                         *)
(***************************************************************************)

\* Members, mirrors, subscriptions and sessions agree.
Agreement ==
  /\ SubscriptionMapsAgree /\ UsedIsRunning
  /\ SubscribedExactlyWhileMirrored /\ SessionIsBacked
  /\ MembersAreRegistered /\ IdsAreOwn /\ MirroredHaveJoined

\* One case per action of ServerNext.
LEMMA ServerStep ==
  ASSUME ServerInv, [ServerNext]_allVars
  PROVE  ServerInv'
<1> USE DEF Agreement
<1>q. ASSUME Agreement', ServerTypeOK', PhasesFit', WaitingIsPrivate'
      PROVE  ServerInv'
    BY <1>q DEF ServerInv
<1>1. ASSUME NEW sp \in Space, CreateSpace(sp),
             UNCHANGED <<sessionVars, mirrorVars, clientVars>>
      PROVE  ServerInv'
  <2>1. /\ UNCHANGED <<primaryRouter, routerVars, subVars, memberVars, sessionVars,
                       mirrorVars, clientVars>>
        /\ status[sp] = "absent" /\ status' = [status EXCEPT ![sp] = "initialized"]
      BY <1>1 DEF CreateSpace
  <2>2. Agreement'
      BY <2>1, QuietStep DEF sessionVars, mirrorVars, ServerInv, ServerTypeOK, TypeOK
  <2>3. ServerTypeOK'
      BY <2>1 DEF routerVars, subVars, memberVars, sessionVars, mirrorVars,
         clientVars, ServerInv, ServerTypeOK, TypeOK, Status
  <2>4. PhasesFit' /\ WaitingIsPrivate'
      BY <2>1 DEF routerVars, sessionVars, ServerInv, PhasesFit, WaitingIsPrivate
  <2>5. QED
      BY <1>q, <2>2, <2>3, <2>4
<1>2. ASSUME NEW c \in Client, NEW srv \in Server, NEW sp \in Space,
             JoinMirrored(c, srv, sp)
      PROVE  ServerInv'
  <2>1. /\ phase[c] = "idle" /\ open' = open \cup {c}
        /\ UNCHANGED <<primaryRouter, routers, nextRouter, pending, waitsFor, down>>
      BY <1>2 DEF JoinMirrored, OpenChannel, AddMember, lifeVars, routerVars
  <2>2. Joins(c, srv, sp) /\ Joined(c, srv, sp) /\ memberOf[c] = NoMember
      BY <1>2, <2>1, JoinMirroredJoins, JoinEffect, NewcomerIsBlank
  <2>3. Agreement'
      BY <2>2, JoinStep
  <2>4. ServerTypeOK'
      BY <2>1, <2>2, JoinTypes DEF ServerInv, ServerTypeOK, TypeOK
  <2>5. PhasesFit'
      BY <2>1, <2>2, JoinPhases
  <2>6. WaitingIsPrivate'
      BY <2>1, <2>2, WaitingKept DEF Joined
  <2>7. QED
      BY <1>q, <2>3, <2>4, <2>5, <2>6
<1>3. ASSUME NEW c \in Client, NEW srv \in Server, NEW sp \in Space,
             JoinRunning(c, srv, sp)
      PROVE  ServerInv'
  <2>1. /\ phase[c] = "idle" /\ open' = open \cup {c}
        /\ UNCHANGED <<primaryRouter, routers, nextRouter, pending, waitsFor, down>>
      BY <1>3 DEF JoinRunning, OpenChannel, lifeVars, routerVars
  <2>2. Joins(c, srv, sp) /\ Joined(c, srv, sp) /\ memberOf[c] = NoMember
      BY <1>3, <2>1, JoinRunningJoins, JoinEffect, NewcomerIsBlank
  <2>3. Agreement'
      BY <2>2, JoinStep
  <2>4. ServerTypeOK'
      BY <2>1, <2>2, JoinTypes DEF ServerInv, ServerTypeOK, TypeOK
  <2>5. PhasesFit'
      BY <2>1, <2>2, JoinPhases
  <2>6. WaitingIsPrivate'
      BY <2>1, <2>2, WaitingKept DEF Joined
  <2>7. QED
      BY <1>q, <2>3, <2>4, <2>5, <2>6
<1>4. ASSUME NEW c \in Client, NEW srv \in Server, NEW sp \in Space,
             JoinStarting(c, srv, sp)
      PROVE  ServerInv'
  <2>1. /\ phase[c] = "idle" /\ open' = open \cup {c}
        /\ server' = [server EXCEPT ![c] = srv] /\ space' = [space EXCEPT ![c] = sp]
        /\ phase' = [phase EXCEPT ![c] = "waiting"]
        /\ waitsFor' = [waitsFor EXCEPT ![c] = nextRouter]
        /\ UNCHANGED <<lifeVars, subVars, memberVars, memberOf, registered,
                       mirrorVars, clientVars>>
      BY <1>4 DEF JoinStarting, OpenChannel, StartBySubscribe
  <2>2. /\ nextRouter \in RouterId /\ nextRouter' = nextRouter + 1
        /\ routers' = [routers EXCEPT ![nextRouter] = sp]
        /\ pending' = pending \cup
             {[router |-> nextRouter, space |-> sp, server |-> srv,
               kind |-> "subscribe"]}
      BY <1>4 DEF JoinStarting, StartBySubscribe, Allocate, ServerInv, ServerTypeOK,
         TypeOK
  <2>3. memberOf[c] = NoMember /\ c \notin registered
      BY <2>1, NewcomerIsBlank
  <2>4. Agreement'
      BY <2>1, <2>3, QuietStep DEF lifeVars, mirrorVars, ServerInv, ServerTypeOK
  <2>5. TypeOK'
      BY <2>1, <2>2 DEF lifeVars, subVars, memberVars, ServerInv, ServerTypeOK,
         TypeOK, Request
  <2>6. ServerTypeOK'
      BY <2>1, <2>2, <2>5 DEF mirrorVars, clientVars, ServerInv, ServerTypeOK
  <2>7. PhasesFit'
      BY <2>1, <2>3 DEF ServerInv, ServerTypeOK, PhasesFit
  <2>8. WaitingIsPrivate'
      BY <1>4, WaitingStarted
  <2>9. QED
      BY <1>q, <2>4, <2>6, <2>7, <2>8
<1>5. ASSUME NEW c \in Client, NEW srv \in Server, NEW sp \in Space,
             JoinRefused(c, srv, sp)
      PROVE  ServerInv'
  <2>1. /\ phase[c] = "idle" /\ open' = open \cup {c}
        /\ server' = [server EXCEPT ![c] = srv] /\ space' = [space EXCEPT ![c] = sp]
        /\ phase' = [phase EXCEPT ![c] = "failed"]
        /\ UNCHANGED <<coordVars, waitsFor, memberOf, registered, mirrorVars, clientVars>>
      BY <1>5 DEF JoinRefused, OpenChannel
  <2>2. memberOf[c] = NoMember /\ c \notin registered
      BY <2>1, NewcomerIsBlank
  <2>3. Agreement'
      BY <2>1, <2>2, QuietStep DEF coordVars, vars, lifeVars, mirrorVars, ServerInv,
         ServerTypeOK
  <2>4. ServerTypeOK'
      BY <2>1 DEF coordVars, vars, lifeVars, routerVars, subVars, memberVars,
         mirrorVars, clientVars, ServerInv, ServerTypeOK, TypeOK
  <2>5. PhasesFit'
      BY <2>1, <2>2 DEF ServerInv, ServerTypeOK, PhasesFit
  <2>6. WaitingIsPrivate'
      BY <2>1, WaitingKept DEF coordVars, vars, routerVars, ServerInv, ServerTypeOK
  <2>7. QED
      BY <1>q, <2>3, <2>4, <2>5, <2>6
<1>6. ASSUME NEW c \in Client, NEW p \in pending, ResumeJoin(c, p)
      PROVE  ServerInv'
  <2>1. /\ phase[c] = "waiting" /\ p.router \in RouterId
        /\ pending' = pending \ {p}
        /\ primaryRouter' = [primaryRouter EXCEPT ![p.space] = p.router]
        /\ waitsFor' = [waitsFor EXCEPT ![c] = NoRouter]
        /\ UNCHANGED <<routers, nextRouter, open, down>>
      BY <1>6, ResumeJoinJoins DEF ResumeJoin, AssignRouter
  <2>2. /\ p.space \in Space /\ p.server \in Server
        /\ Joins(c, p.server, p.space) /\ memberOf[c] = NoMember
      BY <1>6, <2>1, ResumeJoinJoins, NewcomerIsBlank
  <2>3. Agreement'
      BY <2>2, JoinStep
  <2>4. ServerTypeOK'
      BY <2>1, <2>2, JoinTypes DEF ServerInv, ServerTypeOK, TypeOK
  <2>5. PhasesFit'
      BY <2>1, <2>2, JoinPhases
  <2>6. WaitingIsPrivate'
      BY <1>6, WaitingResumed
  <2>7. QED
      BY <1>q, <2>3, <2>4, <2>5, <2>6
<1>7. ASSUME NEW c \in Client, NEW p \in pending, FailJoin(c, p)
      PROVE  ServerInv'
  <2>1. /\ pending' = pending \ {p} /\ down' = TRUE
        /\ UNCHANGED <<lifeVars, routers, nextRouter, subVars, memberVars,
                       sessionVars, mirrorVars, view>>
      BY <1>7 DEF FailJoin, RouterFailed
  <2>2. Agreement'
      BY <2>1, QuietStep DEF lifeVars, sessionVars, mirrorVars
  <2>3. ServerTypeOK'
      BY <2>1 DEF lifeVars, subVars, memberVars, sessionVars, mirrorVars,
         ServerInv, ServerTypeOK, TypeOK
  <2>4. PhasesFit' /\ WaitingIsPrivate'
      BY <2>1 DEF sessionVars, ServerInv, PhasesFit, WaitingIsPrivate
  <2>5. QED
      BY <1>q, <2>2, <2>3, <2>4
<1>8. ASSUME NEW c \in Client, CloseBeforeJoin(c)
      PROVE  ServerInv'
  <2>1. /\ open' = open \ {c}
        /\ UNCHANGED <<coordVars, phase, server, space, waitsFor, memberOf,
                       registered, mirrorVars, clientVars>>
      BY <1>8 DEF CloseBeforeJoin
  <2>2. Agreement'
      BY <2>1, QuietStep DEF coordVars, vars, lifeVars, mirrorVars
  <2>3. ServerTypeOK'
      BY <2>1 DEF coordVars, vars, lifeVars, routerVars, subVars, memberVars,
         mirrorVars, clientVars, ServerInv, ServerTypeOK, TypeOK
  <2>4. PhasesFit' /\ WaitingIsPrivate'
      BY <2>1 DEF coordVars, vars, routerVars, ServerInv, PhasesFit, WaitingIsPrivate
  <2>5. QED
      BY <1>q, <2>2, <2>3, <2>4
<1>9. ASSUME NEW c \in Client, Leave(c)
      PROVE  ServerInv'
  <2>1. Left(c) /\ memberOf[c] # NoMember /\ open' = open \ {c}
      BY <1>9, LeaveEffect, LeaverIsRegistered DEF Leave
  <2>2. UNCHANGED <<phase, server, space, waitsFor, memberOf, nextRouter, pending>>
      BY <1>9 DEF Leave, EndIfIdle
  <2>3. Agreement'
      BY <1>9, LeaveStep
  <2>4. ServerTypeOK'
      BY <1>9, LeaveTypes
  <2>5. PhasesFit'
      BY <2>1, <2>2 DEF Left, ServerInv, PhasesFit
  <2>6. WaitingIsPrivate'
      BY <2>2 DEF ServerInv, WaitingIsPrivate
  <2>7. QED
      BY <1>q, <2>3, <2>4, <2>5, <2>6
<1>10. ASSUME NEW c \in Client, NEW v \in BOOLEAN, UpdateMember(c, v)
       PROVE  ServerInv'
  <2>1. UNCHANGED <<coordVars, sessionVars, mirrored, mirror, down>>
      BY <1>10 DEF UpdateMember
  <2>2. Agreement'
      BY <2>1, QuietStep DEF coordVars, vars, lifeVars, sessionVars
  <2>3. ServerTypeOK'
      BY <1>10, UpdateTypes
  <2>4. PhasesFit' /\ WaitingIsPrivate'
      BY <2>1 DEF coordVars, vars, routerVars, sessionVars, ServerInv, PhasesFit,
         WaitingIsPrivate
  <2>5. QED
      BY <1>q, <2>2, <2>3, <2>4
<1>11. CASE UNCHANGED allVars
  <2>1. Agreement'
      BY <1>11, QuietStep DEF allVars, coordVars, vars, lifeVars, sessionVars,
         mirrorVars
  <2>2. ServerTypeOK'
      BY <1>11 DEF allVars, coordVars, vars, lifeVars, routerVars, subVars,
         memberVars, sessionVars, mirrorVars, clientVars, ServerInv, ServerTypeOK,
         TypeOK
  <2>3. PhasesFit' /\ WaitingIsPrivate'
      BY <1>11 DEF allVars, coordVars, vars, routerVars, sessionVars, ServerInv,
         PhasesFit, WaitingIsPrivate
  <2>4. QED
      BY <1>q, <2>1, <2>2, <2>3
<1>12. QED
    BY <1>1, <1>2, <1>3, <1>4, <1>5, <1>6, <1>7, <1>8, <1>9, <1>10, <1>11
       DEF ServerNext

-----------------------------------------------------------------------------
(***************************************************************************)
(* What a client was told.                                                 *)
(***************************************************************************)

\* What a connected client knows, read member by member.
LEMMA ViewOf ==
  ASSUME ServerInv, ViewMatchesMirror, NEW d \in open \cap registered
  PROVE  /\ d \in Client /\ server[d] \in Server /\ space[d] \in Space
         /\ memberOf[d] \in mirror[server[d]][space[d]]
         /\ space[d] \in mirrored[server[d]]
         /\ view[d] = [y \in mirror[server[d]][space[d]] |-> state[server[d]][y]]
<1>1. d \in Client /\ server[d] \in Server /\ space[d] \in Space
    BY DEF ServerInv, ServerTypeOK, PhasesFit
<1>2. memberOf[d] \in mirror[server[d]][space[d]]
    BY DEF ServerInv, SessionIsBacked
<1>3. QED
    BY <1>1, <1>2 DEF ServerInv, SubscribedExactlyWhileMirrored, ViewMatchesMirror,
       MirrorView

\* A client that joins is told of everybody, everybody in the mirror of it.
LEMMA JoinViews ==
  ASSUME ServerInv, ViewMatchesMirror,
         NEW c \in Client, NEW srv \in Server, NEW sp \in Space,
         Joins(c, srv, sp), memberOf[c] = NoMember, open' \subseteq open \cup {c}
  PROVE  ViewMatchesMirror'
<1> DEFINE n == nextMember
<1>0. Joined(c, srv, sp)
    BY JoinEffect
<1>s. /\ \A s \in Server : s # srv => state'[s] = state[s]
      /\ state'[srv] = [PreparedState(srv, sp) EXCEPT ![n] = FALSE]
    BY DEF Joins, EnterSpace, ServerInv, ServerTypeOK
<1>p. \A y \in MemberId :
        state'[srv][y] = IF y = n \/ (sp \notin mirrored[srv] /\ y \in members[sp])
                           THEN FALSE ELSE state[srv][y]
    BY <1>s, Zenon DEF PreparedState
<1> SUFFICES ASSUME NEW d \in (open \cap registered)'
             PROVE  view'[d] = MirrorView(server[d], space[d])'
    BY DEF ViewMatchesMirror
<1>d. d \in Client
    BY <1>0 DEF Joined, ServerInv, ServerTypeOK
<1>v. view'[d] = IF d = c THEN MirrorView(srv, sp)'
                 ELSE IF d \in Audience(srv, sp) THEN Learn(view[d], n, FALSE)
                 ELSE view[d]
    BY <1>d, Zenon DEF Joins, EnterSpace
<1>1. CASE d = c
  <2>1. server'[d] = srv /\ space'[d] = sp
      BY <1>0, <1>1 DEF Joined
  <2>2. QED
      BY <1>1, <1>v, <2>1 DEF MirrorView
<1>2. CASE d # c
  <2>1. d \in open \cap registered /\ server'[d] = server[d] /\ space'[d] = space[d]
      BY <1>0, <1>2, <1>d DEF Joined
  <2>2. PICK s \in Server, x \in Space : s = server[d] /\ x = space[d]
      BY <2>1, ViewOf
  <2>3. /\ memberOf[d] \in mirror[s][x] /\ x \in mirrored[s]
        /\ view[d] = [y \in mirror[s][x] |-> state[s][y]]
      BY <2>1, <2>2, ViewOf
  <2>4. mirror[s][x] \subseteq MemberId
      BY DEF ServerInv, ServerTypeOK
  <2>5. \A y \in mirror[s][x] : y # n /\ (x # sp => y \notin members[sp])
    <3> SUFFICES ASSUME NEW y \in mirror[s][x]
                 PROVE  y # n /\ (x # sp => y \notin members[sp])
        OBVIOUS
    <3>1. PICK e \in Client : memberOf[e] = y /\ space[e] = x
        BY DEF ServerInv, MirroredHaveJoined
    <3>2. y # n
        BY <2>4, <3>1 DEF ServerInv, IdsAreOwn, ServerTypeOK, TypeOK
    <3>3. y \in members[sp] => \E f \in registered : memberOf[f] = y /\ space[f] = sp
        BY DEF ServerInv, MembersAreRegistered
    <3>4. y \in members[sp] => x = sp
        BY <2>4, <3>1, <3>3 DEF ServerInv, IdsAreOwn, ServerTypeOK
    <3>5. QED
        BY <3>2, <3>4
  <2>6. \A y \in mirror[s][x] : state'[s][y] = state[s][y]
    <3> SUFFICES ASSUME NEW y \in mirror[s][x] PROVE state'[s][y] = state[s][y]
        OBVIOUS
    <3>1. CASE s = srv
      <4>1. y \in MemberId /\ y # n /\ ~(sp \notin mirrored[srv] /\ y \in members[sp])
          BY <2>3, <2>4, <2>5, <3>1
      <4>2. QED
          BY <1>p, <3>1, <4>1, Zenon
    <3>2. CASE s # srv
        BY <1>s, <3>2, Zenon
    <3>3. QED
        BY <3>1, <3>2
  <2>7. CASE s = srv /\ x = sp
    <3>1. d \in Audience(srv, sp)
        BY <2>1, <2>2, <2>3, <2>7 DEF Audience
    <3>2. mirror'[s][x] = mirror[s][x] \cup {n}
        BY <1>0, <2>3, <2>7 DEF Joined, PreparedMirror
    <3>3. state'[s][n] = FALSE
        BY <1>0, <1>p, <2>7, Zenon DEF Joined
    <3>4. Learn(view[d], n, FALSE) = MirrorView(s, x)'
      <4>1. /\ DOMAIN view[d] = mirror[s][x]
            /\ \A y \in mirror[s][x] : view[d][y] = state[s][y]
          BY <2>3, Zenon
      <4>2. \A y \in DOMAIN view[d] : y # n => state'[s][y] = view[d][y]
          BY <2>6, <4>1, Zenon
      <4>3. mirror'[s][x] = DOMAIN view[d] \cup {n}
          BY <3>2, <4>1
      <4>4. Learn(view[d], n, FALSE) =
              [y \in mirror'[s][x] |-> IF y = n THEN FALSE ELSE view[d][y]]
          BY <4>3 DEF Learn
      <4>5. ASSUME NEW y \in mirror'[s][x]
            PROVE  (IF y = n THEN FALSE ELSE view[d][y]) = state'[s][y]
        <5>1. CASE y = n
            BY <3>3, <5>1, Zenon
        <5>2. CASE y # n
          <6>1. y \in DOMAIN view[d]
              BY <4>3, <5>2
          <6>2. QED
              BY <4>2, <5>2, <6>1, Zenon
        <5>3. QED
            BY <5>1, <5>2
      <4>6. QED
          BY <4>4, <4>5, Zenon DEF MirrorView
    <3>5. QED
        BY <1>2, <1>v, <2>1, <2>2, <3>1, <3>4 DEF MirrorView
  <2>8. CASE ~(s = srv /\ x = sp)
    <3>1. d \notin Audience(srv, sp)
      <4>1. space[d] = sp /\ server[d] = srv => FALSE
          BY <2>2, <2>8
      <4>2. memberOf[d] \in mirror[srv][sp] => space[d] = sp
          BY <1>d, MirroredInOwnSpace
      <4>3. QED
          BY <4>1, <4>2 DEF Audience
    <3>2. mirror'[s][x] = mirror[s][x]
        BY <1>0, <2>8 DEF Joined
    <3>3. view[d] = [y \in mirror'[s][x] |-> state'[s][y]]
        BY <2>3, <2>6, <3>2, Zenon
    <3>4. QED
        BY <1>2, <1>v, <2>1, <2>2, <3>1, <3>3 DEF MirrorView
  <2>9. QED
      BY <2>7, <2>8
<1>3. QED
    BY <1>1, <1>2

\* A departure is told to whoever shared the place, and to nobody else.
LEMMA LeaveViews ==
  ASSUME ServerInv, ViewMatchesMirror, NEW c \in Client, Leave(c)
  PROVE  ViewMatchesMirror'
<1>0. /\ Left(c) /\ c \in registered /\ memberOf[c] # NoMember
      /\ server[c] \in Server /\ space[c] \in Space
    BY LeaveEffect, LeaverIsRegistered
<1>f. UNCHANGED <<memberOf, server, space, state>> /\ open' = open \ {c}
    BY DEF Leave
<1> SUFFICES ASSUME NEW d \in (open \cap registered)'
             PROVE  view'[d] = MirrorView(server[d], space[d])'
    BY DEF ViewMatchesMirror
<1>1. d \in open \cap registered /\ d # c
    BY <1>0, <1>f DEF Left
<1>2. PICK s \in Server, x \in Space : s = server[d] /\ x = space[d]
    BY <1>1, ViewOf
<1>3. /\ d \in Client /\ memberOf[d] \in mirror[s][x]
      /\ view[d] = [y \in mirror[s][x] |-> state[s][y]]
    BY <1>1, <1>2, ViewOf
<1>v. view'[d] = IF d \in Audience(server[c], space[c])
                 THEN [y \in DOMAIN view[d] \ {memberOf[c]} |-> view[d][y]]
                 ELSE view[d]
    BY <1>1, <1>3, Zenon DEF Leave
<1>4. \A y : y \in mirror'[s][x]
        <=> y \in mirror[s][x] /\ ~(s = server[c] /\ x = space[c] /\ y = memberOf[c])
    BY <1>0 DEF Left
<1>5. CASE s = server[c] /\ x = space[c]
  <2>1. d \in Audience(server[c], space[c])
      BY <1>1, <1>2, <1>3, <1>5 DEF Audience
  <2>2. mirror'[s][x] = mirror[s][x] \ {memberOf[c]}
      BY <1>4, <1>5
  <2>3. DOMAIN view[d] = mirror[s][x] /\ \A y \in mirror[s][x] : view[d][y] = state[s][y]
      BY <1>3, Zenon
  <2>4. view'[d] = [y \in mirror'[s][x] |-> view[d][y]]
      BY <1>v, <2>1, <2>2, <2>3, Zenon
  <2>5. \A y \in mirror'[s][x] : view[d][y] = state'[s][y]
      BY <1>f, <2>2, <2>3
  <2>6. view'[d] = [y \in mirror'[s][x] |-> state'[s][y]]
      BY <2>4, <2>5, Zenon
  <2>7. QED
      BY <1>2, <1>f, <2>6 DEF MirrorView
<1>6. CASE ~(s = server[c] /\ x = space[c])
  <2>1. d \notin Audience(server[c], space[c])
    <3>1. memberOf[d] \in mirror[server[c]][space[c]] => space[d] = space[c]
        BY <1>0, <1>3, MirroredInOwnSpace
    <3>2. QED
        BY <1>2, <1>6, <3>1 DEF Audience
  <2>2. mirror'[s][x] = mirror[s][x]
      BY <1>4, <1>6
  <2>3. QED
      BY <1>2, <1>3, <1>f, <1>v, <2>1, <2>2 DEF MirrorView
<1>7. QED
    BY <1>5, <1>6

\* So is a change of state.
LEMMA UpdateViews ==
  ASSUME ServerInv, ViewMatchesMirror,
         NEW c \in Client, NEW v \in BOOLEAN, UpdateMember(c, v)
  PROVE  ViewMatchesMirror'
<1>0. /\ server[c] \in Server /\ space[c] \in Space /\ memberOf[c] \in MemberId
      /\ memberOf[c] # NoMember
    BY DEF UpdateMember, ServerInv, PhasesFit, ServerTypeOK
<1>f. UNCHANGED <<memberOf, server, space, mirror, mirrored, open, registered>>
    BY DEF UpdateMember, sessionVars
<1>s. /\ \A s \in Server : s # server[c] => state'[s] = state[s]
      /\ \A y \in MemberId : state'[server[c]][y] =
           IF y = memberOf[c] THEN v ELSE state[server[c]][y]
    BY <1>0, Zenon DEF UpdateMember, ServerInv, ServerTypeOK
<1> SUFFICES ASSUME NEW d \in (open \cap registered)'
             PROVE  view'[d] = MirrorView(server[d], space[d])'
    BY DEF ViewMatchesMirror
<1>1. d \in open \cap registered
    BY <1>f
<1>2. PICK s \in Server, x \in Space : s = server[d] /\ x = space[d]
    BY <1>1, ViewOf
<1>3. /\ d \in Client /\ memberOf[d] \in mirror[s][x]
      /\ view[d] = [y \in mirror[s][x] |-> state[s][y]]
    BY <1>1, <1>2, ViewOf
<1>4. mirror[s][x] \subseteq MemberId
    BY DEF ServerInv, ServerTypeOK
<1>v. view'[d] = IF d \in Audience(server[c], space[c])
                 THEN Learn(view[d], memberOf[c], v) ELSE view[d]
    BY <1>3, Zenon DEF UpdateMember
<1>5. DOMAIN view[d] = mirror[s][x] /\ \A y \in mirror[s][x] : view[d][y] = state[s][y]
    BY <1>3, Zenon
<1>6. CASE s = server[c] /\ memberOf[c] \in mirror[s][x]
  <2>1. x = space[c]
      BY <1>6, MirroredInOwnSpace
  <2>2. d \in Audience(server[c], space[c])
      BY <1>1, <1>2, <1>3, <1>6, <2>1 DEF Audience
  <2>3. mirror'[s][x] = DOMAIN view[d] \cup {memberOf[c]}
      BY <1>5, <1>6, <1>f
  <2>4. state'[s][memberOf[c]] = v
      BY <1>0, <1>6, <1>s, Zenon
  <2>5. \A y \in DOMAIN view[d] : y # memberOf[c] => state'[s][y] = view[d][y]
    <3> SUFFICES ASSUME NEW y \in mirror[s][x], y # memberOf[c]
                 PROVE  state'[s][y] = view[d][y]
        BY <1>5
    <3>1. y \in MemberId
        BY <1>4
    <3>2. state'[s][y] = state[s][y]
        BY <1>6, <1>s, <3>1, Zenon
    <3>3. QED
        BY <1>5, <3>2, Zenon
  <2>6. Learn(view[d], memberOf[c], v) = MirrorView(s, x)'
    <3>1. Learn(view[d], memberOf[c], v) =
            [y \in mirror'[s][x] |-> IF y = memberOf[c] THEN v ELSE view[d][y]]
        BY <2>3 DEF Learn
    <3>2. ASSUME NEW y \in mirror'[s][x]
          PROVE  (IF y = memberOf[c] THEN v ELSE view[d][y]) = state'[s][y]
      <4>1. CASE y = memberOf[c]
          BY <2>4, <4>1, Zenon
      <4>2. CASE y # memberOf[c]
        <5>1. y \in DOMAIN view[d]
            BY <2>3, <4>2
        <5>2. QED
            BY <2>5, <4>2, <5>1, Zenon
      <4>3. QED
          BY <4>1, <4>2
    <3>3. QED
        BY <3>1, <3>2, Zenon DEF MirrorView
  <2>7. QED
      BY <1>2, <1>f, <1>v, <2>2, <2>6 DEF MirrorView
<1>7. CASE ~(s = server[c] /\ memberOf[c] \in mirror[s][x])
  <2>1. d \notin Audience(server[c], space[c])
    <3> SUFFICES ASSUME server[d] = server[c],
                        memberOf[d] \in mirror[server[c]][space[c]]
                 PROVE  FALSE
        BY DEF Audience
    <3>1. x = space[c] /\ s = server[c]
        BY <1>0, <1>2, <1>3, MirroredInOwnSpace
    <3>2. c \in registered
        BY DEF UpdateMember, ServerInv, PhasesFit
    <3>3. memberOf[c] \in mirror[server[c]][space[c]]
        BY <3>2 DEF ServerInv, SessionIsBacked
    <3>4. QED
        BY <1>7, <3>1, <3>3
  <2>2. \A y \in mirror[s][x] : state'[s][y] = state[s][y]
    <3> SUFFICES ASSUME NEW y \in mirror[s][x] PROVE state'[s][y] = state[s][y]
        OBVIOUS
    <3>1. CASE s = server[c]
      <4>1. y \in MemberId /\ y # memberOf[c]
          BY <1>4, <1>7, <3>1
      <4>2. QED
          BY <1>s, <3>1, <4>1, Zenon
    <3>2. CASE s # server[c]
        BY <1>s, <3>2, Zenon
    <3>3. QED
        BY <3>1, <3>2
  <2>3. view'[d] = [y \in mirror'[s][x] |-> state'[s][y]]
    <3>1. view'[d] = [y \in mirror[s][x] |-> state[s][y]] /\ mirror' = mirror
        BY <1>3, <1>f, <1>v, <2>1, Zenon
    <3>2. QED
        BY <2>2, <3>1, Zenon
  <2>4. QED
      BY <1>2, <1>f, <2>3 DEF MirrorView
<1>8. QED
    BY <1>6, <1>7

\* One case per way to join, departures, changes, and steps nobody hears of.
LEMMA ViewStep ==
  ASSUME ServerInv, ViewMatchesMirror, [ServerNext]_allVars
  PROVE  ViewMatchesMirror'
<1>q. ASSUME UNCHANGED <<view, mirror, state, registered>>,
             open' \cap registered \subseteq open,
             \A d \in registered : server'[d] = server[d] /\ space'[d] = space[d]
      PROVE  ViewMatchesMirror'
    BY <1>q DEF ViewMatchesMirror, MirrorView
<1>1. ASSUME NEW sp \in Space, CreateSpace(sp),
             UNCHANGED <<sessionVars, mirrorVars, clientVars>>
      PROVE  ViewMatchesMirror'
    BY <1>1, <1>q DEF sessionVars, mirrorVars, clientVars
<1>2. ASSUME NEW c \in Client, NEW srv \in Server, NEW sp \in Space,
             JoinMirrored(c, srv, sp)
      PROVE  ViewMatchesMirror'
  <2>1. phase[c] = "idle" /\ open' = open \cup {c}
      BY <1>2 DEF JoinMirrored, OpenChannel
  <2>2. QED
      BY <1>2, <2>1, JoinMirroredJoins, NewcomerIsBlank, JoinViews
<1>3. ASSUME NEW c \in Client, NEW srv \in Server, NEW sp \in Space,
             JoinRunning(c, srv, sp)
      PROVE  ViewMatchesMirror'
  <2>1. phase[c] = "idle" /\ open' = open \cup {c}
      BY <1>3 DEF JoinRunning, OpenChannel
  <2>2. QED
      BY <1>3, <2>1, JoinRunningJoins, NewcomerIsBlank, JoinViews
<1>4. ASSUME NEW c \in Client, NEW srv \in Server, NEW sp \in Space,
             JoinStarting(c, srv, sp) \/ JoinRefused(c, srv, sp)
      PROVE  ViewMatchesMirror'
  <2>1. /\ phase[c] = "idle" /\ open' = open \cup {c}
        /\ server' = [server EXCEPT ![c] = srv] /\ space' = [space EXCEPT ![c] = sp]
        /\ UNCHANGED <<view, mirror, state, registered>>
      BY <1>4 DEF JoinStarting, JoinRefused, OpenChannel, mirrorVars, clientVars
  <2>2. c \notin registered
      BY <2>1, NewcomerIsBlank
  <2>3. QED
      BY <1>q, <2>1, <2>2 DEF ServerInv, ServerTypeOK
<1>5. ASSUME NEW c \in Client, NEW p \in pending, ResumeJoin(c, p)
      PROVE  ViewMatchesMirror'
  <2>1. phase[c] = "waiting" /\ open' = open
      BY <1>5 DEF ResumeJoin
  <2>2. QED
      BY <1>5, <2>1, ResumeJoinJoins, NewcomerIsBlank, JoinViews
<1>6. ASSUME NEW c \in Client, NEW p \in pending, FailJoin(c, p)
      PROVE  ViewMatchesMirror'
    BY <1>6, <1>q DEF FailJoin, sessionVars, mirrorVars
<1>7. ASSUME NEW c \in Client, CloseBeforeJoin(c)
      PROVE  ViewMatchesMirror'
    BY <1>7, <1>q DEF CloseBeforeJoin, mirrorVars, clientVars
<1>8. CASE UNCHANGED allVars
    BY <1>8, <1>q DEF allVars, sessionVars, mirrorVars, clientVars
<1>9. QED
    BY <1>1, <1>2, <1>3, <1>4, <1>5, <1>6, <1>7, <1>8, LeaveViews, UpdateViews
       DEF ServerNext

-----------------------------------------------------------------------------
(***************************************************************************)
(* Requests and suspended joins.                                           *)
(***************************************************************************)

\* A request is made with its join, and answered with it.
LEMMA MatchingStep ==
  ASSUME ServerInv, WaitingMatchesPending, [ServerNext]_allVars
  PROVE  WaitingMatchesPending'
<1>q. ASSUME UNCHANGED <<phase, pending, waitsFor, server, space, down>>
      PROVE  WaitingMatchesPending'
    BY <1>q DEF WaitingMatchesPending
<1>j. ASSUME NEW c \in Client, phase[c] = "idle", phase'[c] # "waiting",
             UNCHANGED <<pending, waitsFor, down>>,
             \A d \in Client : d # c =>
               /\ phase'[d] = phase[d]
               /\ server'[d] = server[d] /\ space'[d] = space[d]
      PROVE  WaitingMatchesPending'
    BY <1>j DEF WaitingMatchesPending
<1>1. ASSUME NEW sp \in Space, CreateSpace(sp),
             UNCHANGED <<sessionVars, mirrorVars, clientVars>>
      PROVE  WaitingMatchesPending'
    BY <1>1, <1>q DEF CreateSpace, routerVars, sessionVars, clientVars
<1>2. ASSUME NEW c \in Client, NEW srv \in Server, NEW sp \in Space,
             \/ JoinMirrored(c, srv, sp) \/ JoinRunning(c, srv, sp)
             \/ JoinRefused(c, srv, sp)
      PROVE  WaitingMatchesPending'
  <2>1. /\ phase[c] = "idle" /\ UNCHANGED <<pending, waitsFor, down>>
        /\ server' = [server EXCEPT ![c] = srv] /\ space' = [space EXCEPT ![c] = sp]
        /\ \/ phase' = [phase EXCEPT ![c] = "joined"]
           \/ phase' = [phase EXCEPT ![c] = "failed"]
      BY <1>2 DEF JoinMirrored, JoinRunning, JoinRefused, OpenChannel, AddMember,
         EnterSpace, routerVars, coordVars, vars, clientVars
  <2>2. QED
      BY <1>j, <2>1 DEF ServerInv, ServerTypeOK
<1>3. ASSUME NEW c \in Client, NEW srv \in Server, NEW sp \in Space,
             JoinStarting(c, srv, sp)
      PROVE  WaitingMatchesPending'
  <2> DEFINE q == [router |-> nextRouter, space |-> sp, server |-> srv,
                   kind |-> "subscribe"]
  <2>1. /\ pending' = pending \cup {q} /\ phase[c] = "idle" /\ ~down
        /\ nextRouter \in Nat
      BY <1>3 DEF JoinStarting, StartBySubscribe, Allocate, OpenChannel, ServerInv,
         ServerTypeOK, TypeOK
  <2>2. \A d \in Client :
          /\ phase'[d] = IF d = c THEN "waiting" ELSE phase[d]
          /\ waitsFor'[d] = IF d = c THEN nextRouter ELSE waitsFor[d]
          /\ server'[d] = IF d = c THEN srv ELSE server[d]
          /\ space'[d] = IF d = c THEN sp ELSE space[d]
      BY <1>3 DEF JoinStarting, OpenChannel, ServerInv, ServerTypeOK
  <2>3. /\ \A d \in Client : waitsFor[d] \in Nat /\ waitsFor[d] < nextRouter
        /\ \A p \in pending : p.router \in RouterId /\ p.router < nextRouter
        /\ waitsFor[c] = NoRouter
      BY <2>1 DEF ServerInv, WaitingIsPrivate, ServerTypeOK, TypeOK, Request
  <2>4. q.router = nextRouter /\ q.space = sp /\ q.server = srv
      OBVIOUS
  <2>5. ASSUME NEW d \in Client, phase'[d] = "waiting"
        PROVE  \E p \in pending' : /\ p.router = waitsFor'[d]
                                   /\ p.space = space'[d] /\ p.server = server'[d]
    <3>1. CASE d = c
        BY <2>1, <2>2, <2>4, <3>1
    <3>2. CASE d # c
        BY <2>1, <2>2, <2>5, <3>2 DEF WaitingMatchesPending
    <3>3. QED
        BY <3>1, <3>2
  <2>6. ASSUME NEW p \in pending'
        PROVE  \E d \in Client :
                 /\ phase'[d] = "waiting" /\ waitsFor'[d] = p.router
                 /\ \A e \in Client : waitsFor'[e] = p.router => e = d
    <3>1. CASE p = q
        BY <2>2, <2>3, <2>4, <3>1
    <3>2. CASE p \in pending
      <4>1. PICK d \in Client :
              /\ phase[d] = "waiting" /\ waitsFor[d] = p.router
              /\ \A e \in Client : waitsFor[e] = p.router => e = d
          BY <2>1, <3>2 DEF WaitingMatchesPending
      <4>2. d # c /\ p.router # nextRouter
          BY <2>1, <2>3, <3>2, <4>1
      <4>3. QED
          BY <2>2, <4>1, <4>2
    <3>3. QED
        BY <2>1, <3>1, <3>2
  <2>7. QED
      BY <2>5, <2>6 DEF WaitingMatchesPending
<1>4. ASSUME NEW c \in Client, NEW p \in pending, ResumeJoin(c, p)
      PROVE  WaitingMatchesPending'
  <2>1. /\ pending' = pending \ {p} /\ waitsFor[c] = p.router /\ ~down
        /\ phase[c] = "waiting" /\ UNCHANGED <<server, space>>
      BY <1>4 DEF ResumeJoin, AssignRouter
  <2>2. \A d \in Client :
          /\ phase'[d] = IF d = c THEN "joined" ELSE phase[d]
          /\ waitsFor'[d] = IF d = c THEN NoRouter ELSE waitsFor[d]
      BY <1>4 DEF ResumeJoin, EnterSpace, ServerInv, ServerTypeOK
  <2>3. \A r \in pending : r.router \in RouterId /\ (r.router = p.router => r = p)
      BY DEF ServerInv, WaitingIsPrivate, ServerTypeOK, TypeOK, Request
  <2>4. ASSUME NEW d \in Client, phase'[d] = "waiting"
        PROVE  \E r \in pending' : /\ r.router = waitsFor'[d]
                                   /\ r.space = space'[d] /\ r.server = server'[d]
    <3>1. d # c /\ phase[d] = "waiting" /\ waitsFor'[d] = waitsFor[d]
        BY <2>2, <2>4
    <3>2. waitsFor[d] # p.router
        BY <2>1, <3>1 DEF ServerInv, WaitingIsPrivate
    <3>3. QED
        BY <2>1, <3>1, <3>2 DEF WaitingMatchesPending
  <2>5. ASSUME NEW r \in pending'
        PROVE  \E d \in Client :
                 /\ phase'[d] = "waiting" /\ waitsFor'[d] = r.router
                 /\ \A e \in Client : waitsFor'[e] = r.router => e = d
    <3>1. PICK d \in Client :
            /\ phase[d] = "waiting" /\ waitsFor[d] = r.router
            /\ \A e \in Client : waitsFor[e] = r.router => e = d
        BY <2>1 DEF WaitingMatchesPending
    <3>2. d # c /\ r.router # NoRouter
        BY <2>1, <2>3, <3>1
    <3>3. QED
        BY <2>2, <3>1, <3>2
  <2>6. QED
      BY <2>4, <2>5 DEF WaitingMatchesPending
<1>5. ASSUME NEW c \in Client, NEW p \in pending, FailJoin(c, p)
      PROVE  WaitingMatchesPending'
    BY <1>5 DEF FailJoin, WaitingMatchesPending
<1>6. ASSUME NEW c \in Client, CloseBeforeJoin(c)
      PROVE  WaitingMatchesPending'
    BY <1>6, <1>q DEF CloseBeforeJoin, coordVars, vars, routerVars, clientVars
<1>7. ASSUME NEW c \in Client, Leave(c)
      PROVE  WaitingMatchesPending'
    BY <1>7, <1>q DEF Leave, EndIfIdle
<1>8. ASSUME NEW c \in Client, NEW v \in BOOLEAN, UpdateMember(c, v)
      PROVE  WaitingMatchesPending'
    BY <1>8, <1>q DEF UpdateMember, coordVars, vars, routerVars, sessionVars
<1>9. CASE UNCHANGED allVars
    BY <1>9, <1>q DEF allVars, coordVars, vars, routerVars, sessionVars, clientVars
<1>10. QED
    BY <1>1, <1>2, <1>3, <1>4, <1>5, <1>6, <1>7, <1>8, <1>9 DEF ServerNext

-----------------------------------------------------------------------------
(***************************************************************************)
(* Theorems.                                                               *)
(***************************************************************************)

\* What coordinator, mirrors, sessions and clients know agrees for ever.
THEOREM ServerInvariance ==
  ServerSpec => [](ServerInv /\ ViewMatchesMirror /\ WaitingMatchesPending)
<1> DEFINE Inv == ServerInv /\ ViewMatchesMirror /\ WaitingMatchesPending
<1>1. ServerInit => Inv
  <2>1. ServerInit => ViewMatchesMirror /\ WaitingMatchesPending
      BY DEF ServerInit, Init, ViewMatchesMirror, WaitingMatchesPending
  <2>2. QED
      BY <2>1, ServerInitInv
<1>2. Inv /\ [ServerNext]_allVars => Inv'
    BY ServerStep, ViewStep, MatchingStep
<1>3. QED
    BY <1>1, <1>2, PTL DEF ServerSpec

\* All records of coordinator, servers and clients keep their types.
THEOREM ServerTypes == ServerSpec => []ServerTypeOK
<1>1. ServerInv => ServerTypeOK
    BY DEF ServerInv
<1>2. QED
    BY ServerInvariance, <1>1, PTL

\* A connected client knows what its server's mirror holds: the broadcasts of
\* prepareMember, updateMember and deleteMember complete the snapshot of
\* spaceInit, whatever joins and departures overlap on however many servers.
THEOREM ClientsKnowTheMirror == ServerSpec => []ViewMatchesMirror
    BY ServerInvariance, PTL

\* A registered channel has its member at the coordinator and in the mirror,
\* and its server is subscribed to the space, which runs.
THEOREM SessionsAreBacked == ServerSpec => []SessionIsBacked
<1>1. ServerInv => SessionIsBacked
    BY DEF ServerInv
<1>2. QED
    BY ServerInvariance, <1>1, PTL

\* The coordinator has no member without its registered channel.
THEOREM NoMemberWithoutChannel == ServerSpec => []MembersAreRegistered
<1>1. ServerInv => MembersAreRegistered
    BY DEF ServerInv
<1>2. QED
    BY ServerInvariance, <1>1, PTL

\* A server is subscribed to the spaces it mirrors, and mirrors no empty one.
THEOREM SubscribedIsMirrored == ServerSpec => []SubscribedExactlyWhileMirrored
<1>1. ServerInv => SubscribedExactlyWhileMirrored
    BY DEF ServerInv
<1>2. QED
    BY ServerInvariance, <1>1, PTL

\* A worker's answer finds the one join that asked for it.
THEOREM AnswersFindTheirJoin == ServerSpec => []WaitingMatchesPending
    BY ServerInvariance, PTL

=============================================================================
