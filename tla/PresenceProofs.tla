--------------------------- MODULE PresenceProofs ---------------------------
(***************************************************************************)
(* SignalingServer implements Presence, for any clients, servers, spaces   *)
(* and bounds: a join, a departure and a change of state are each a single *)
(* step of it, and every other step of the servers goes unnoticed.         *)
(*                                                                         *)
(* That nobody knows more or less than is so rests on one fact more than   *)
(* the servers' own agreement: what a server shows of a member of another  *)
(* server is the state it joined with.                                     *)
(***************************************************************************)
EXTENDS SignalingServerProofs

USE SpaceAssumption DEF MemberId, NoMember

\* A server sets the state only of its own clients.
FlagsAreOwn ==
  \A srv \in Server, m \in MemberId :
    state[srv][m] => \E c \in Client : memberOf[c] = m /\ server[c] = srv

-----------------------------------------------------------------------------
(***************************************************************************)
(* Places.                                                                 *)
(***************************************************************************)

\* Who is where.
LEMMA PresentIn ==
  ASSUME NEW srv \in Server, NEW sp \in Space
  PROVE  /\ <<srv, sp>> \in Server \X Space
         /\ \A c : c \in Presents[<<srv, sp>>]
              <=> c \in registered /\ c \in Client /\ server[c] = srv /\ space[c] = sp
         /\ \A c : c \in Strangers[<<srv, sp>>]
              <=> /\ c \in Client /\ ~(server[c] = srv /\ space[c] = sp)
                  /\ memberOf[c] \in mirror[srv][sp]
<1>1. <<srv, sp>> \in Server \X Space
    OBVIOUS
<1>2. Presents[<<srv, sp>>] = registered \cap OnServer(srv, sp)
    BY <1>1 DEF Presents
<1>3. Strangers[<<srv, sp>>] =
        {c \in Client \ OnServer(srv, sp) : memberOf[c] \in mirror[srv][sp]}
    BY <1>1 DEF Strangers
<1>4. QED
    BY <1>1, <1>2, <1>3 DEF OnServer

\* A registered client is in the one place it joined.
LEMMA PlaceIs ==
  ASSUME ServerInv, NEW c \in registered
  PROVE  /\ server[c] \in Server /\ space[c] \in Space
         /\ PresenceOf!PlaceOf(c) = <<server[c], space[c]>>
<1>1. c \in Client /\ server[c] \in Server /\ space[c] \in Space
    BY DEF ServerInv, ServerTypeOK, PhasesFit
<1>2. <<server[c], space[c]>> \in Server \X Space
      /\ c \in Presents[<<server[c], space[c]>>]
    BY <1>1, PresentIn
<1>3. ASSUME NEW p \in Server \X Space, c \in Presents[p]
      PROVE  p = <<server[c], space[c]>>
  <2>1. PICK srv \in Server, sp \in Space : p = <<srv, sp>>
      OBVIOUS
  <2>2. QED
      BY <1>3, <2>1, PresentIn
<1>4. QED
    BY <1>1, <1>2, <1>3 DEF PresenceOf!PlaceOf

\* Those whose members a mirror holds are those present and the strangers.
LEMMA CompanyIs ==
  ASSUME ServerInv, NEW srv \in Server, NEW sp \in Space
  PROVE  {d \in Client : memberOf[d] \in mirror[srv][sp]}
           = Presents[<<srv, sp>>] \cup Strangers[<<srv, sp>>]
<1>1. ASSUME NEW d \in Presents[<<srv, sp>>]
      PROVE  d \in Client /\ memberOf[d] \in mirror[srv][sp]
    BY <1>1, PresentIn DEF ServerInv, SessionIsBacked
<1>2. ASSUME NEW d \in Client, memberOf[d] \in mirror[srv][sp],
             server[d] = srv, space[d] = sp
      PROVE  d \in Presents[<<srv, sp>>]
  <2>1. memberOf[d] # NoMember
      BY <1>2, MirroredInOwnSpace
  <2>2. d \in registered
      BY <1>2, <2>1 DEF ServerInv, MembersAreRegistered
  <2>3. QED
      BY <1>2, <2>2, PresentIn
<1>3. QED
    BY <1>1, <1>2, PresentIn

\* A stranger's state is the one it joined with.
LEMMA StrangersAreSilent ==
  ASSUME ServerInv, FlagsAreOwn, NEW srv \in Server, NEW sp \in Space,
         NEW d \in Strangers[<<srv, sp>>]
  PROVE  ~state[srv][memberOf[d]]
<1>1. /\ d \in Client /\ ~(server[d] = srv /\ space[d] = sp)
      /\ memberOf[d] \in mirror[srv][sp]
    BY PresentIn
<1>2. space[d] = sp /\ memberOf[d] # NoMember
    BY <1>1, MirroredInOwnSpace
<1>3. memberOf[d] \in MemberId
    BY <1>1, <1>2 DEF ServerInv, ServerTypeOK
<1>4. SUFFICES ASSUME NEW e \in Client, memberOf[e] = memberOf[d], server[e] = srv
               PROVE  FALSE
    BY <1>3 DEF FlagsAreOwn
<1>5. e = d
    BY <1>1, <1>2, <1>4 DEF ServerInv, IdsAreOwn
<1>6. QED
    BY <1>1, <1>2, <1>4, <1>5

\* Whoever listens knows the company and the state of each, and nothing else.
LEMMA ListenersAreInformed ==
  ServerInv /\ ViewMatchesMirror /\ FlagsAreOwn => PresenceOf!Informed
<1> SUFFICES ASSUME ServerInv, ViewMatchesMirror, FlagsAreOwn
             PROVE  PresenceOf!Informed
    OBVIOUS
<1> DEFINE Told(c) == [d \in {e \in Client : memberOf[e] \in DOMAIN view[c]} |->
                         view[c][memberOf[d]]]
           True(c) == [d \in PresenceOf!Company(c) |->
                         d \in Presents[PresenceOf!PlaceOf(c)] /\ Flags[d]]
<1>1. ASSUME NEW c \in Listening PROVE Told(c) = True(c)
  <2>1. c \in open \cap registered /\ c \in registered /\ c \in Client
      BY DEF Listening, ServerInv, ServerTypeOK
  <2>2. PICK srv \in Server, sp \in Space : srv = server[c] /\ sp = space[c]
      BY <2>1, PlaceIs
  <2>3. PresenceOf!PlaceOf(c) = <<srv, sp>>
      BY <2>1, <2>2, PlaceIs
  <2>4. view[c] = [y \in mirror[srv][sp] |-> state[srv][y]]
      BY <2>1, <2>2, ViewOf
  <2>5. DOMAIN view[c] = mirror[srv][sp]
        /\ \A y \in mirror[srv][sp] : view[c][y] = state[srv][y]
      BY <2>4, Zenon
  <2>6. {e \in Client : memberOf[e] \in DOMAIN view[c]} = PresenceOf!Company(c)
    <3>1. {e \in Client : memberOf[e] \in mirror[srv][sp]}
            = Presents[<<srv, sp>>] \cup Strangers[<<srv, sp>>]
        BY CompanyIs
    <3>2. PresenceOf!Company(c) = Presents[<<srv, sp>>] \cup Strangers[<<srv, sp>>]
        BY <2>3 DEF PresenceOf!Company
    <3>3. QED
        BY <2>5, <3>1, <3>2
  <2>7. ASSUME NEW d \in PresenceOf!Company(c)
        PROVE  view[c][memberOf[d]] =
                 (d \in Presents[PresenceOf!PlaceOf(c)] /\ Flags[d])
    <3>1. d \in Client /\ memberOf[d] \in mirror[srv][sp]
        BY <2>5, <2>6
    <3>2. view[c][memberOf[d]] = state[srv][memberOf[d]]
        BY <2>5, <3>1
    <3>3. state[srv][memberOf[d]] \in BOOLEAN
      <4>1. memberOf[d] \in MemberId
          BY <3>1 DEF ServerInv, ServerTypeOK
      <4>2. QED
          BY <4>1 DEF ServerInv, ServerTypeOK
    <3>4. CASE d \in Presents[<<srv, sp>>]
      <4>1. d \in registered /\ server[d] = srv
          BY <3>4, PresentIn
      <4>2. Flags[d] = (d \in registered /\ state[server[d]][memberOf[d]])
          BY <3>1, Zenon DEF Flags
      <4>3. QED
          BY <2>3, <3>2, <3>3, <3>4, <4>1, <4>2, Zenon
    <3>5. CASE d \notin Presents[<<srv, sp>>]
      <4>1. d \in Strangers[<<srv, sp>>]
          BY <2>3, <3>5 DEF PresenceOf!Company
      <4>2. ~state[srv][memberOf[d]]
          BY <4>1, StrangersAreSilent
      <4>3. QED
          BY <2>3, <3>2, <3>3, <3>5, <4>2, Zenon
    <3>6. QED
        BY <3>4, <3>5
  <2>8. QED
      BY <2>6, <2>7, Zenon
<1>2. Knowledge = [c \in Client |-> IF c \in Listening THEN True(c) ELSE NoView]
  <2>1. Knowledge = [c \in Client |-> IF c \notin Listening THEN NoView ELSE Told(c)]
      BY Zenon DEF Knowledge
  <2>2. \A c \in Client : (IF c \notin Listening THEN NoView ELSE Told(c))
                             = (IF c \in Listening THEN True(c) ELSE NoView)
      BY <1>1
  <2>3. QED
      BY <2>1, <2>2, Zenon
<1>3. NoView = PresenceOf!Nothing
    BY Zenon DEF NoView, PresenceOf!Nothing
<1>4. QED
    BY <1>2, <1>3, Zenon DEF PresenceOf!Informed

-----------------------------------------------------------------------------
(***************************************************************************)
(* Steps nobody hears of.                                                  *)
(***************************************************************************)

\* Clients that have not joined may open and close their channels.
LEMMA UnheardStep ==
  ASSUME ServerInv,
         UNCHANGED <<registered, memberOf, mirror, state, view>>,
         \A d \in Client : memberOf[d] # NoMember
           => server'[d] = server[d] /\ space'[d] = space[d],
         registered \cap open' = registered \cap open
  PROVE  UNCHANGED PresenceOf!vars /\ (FlagsAreOwn => FlagsAreOwn')
<1>1. \A d \in registered : d \in Client /\ memberOf[d] # NoMember
    BY DEF ServerInv, ServerTypeOK, PhasesFit
<1>2. Listening' = Listening
    BY DEF Listening
<1>3. Presents' = Presents
  <2>1. \A p : registered' \cap OnServer(p[1], p[2])'
                 = registered \cap OnServer(p[1], p[2])
      BY <1>1 DEF OnServer
  <2>2. QED
      BY <2>1, Zenon DEF Presents
<1>4. Strangers' = Strangers
  <2>1. ASSUME NEW srv \in Server, NEW sp \in Space
        PROVE  {c \in Client \ OnServer(srv, sp) : memberOf[c] \in mirror[srv][sp]}'
                 = {c \in Client \ OnServer(srv, sp) : memberOf[c] \in mirror[srv][sp]}
    <3>1. \A d \in Client : memberOf[d] \in mirror[srv][sp] => memberOf[d] # NoMember
        BY MirroredInOwnSpace
    <3>2. QED
        BY <3>1 DEF OnServer
  <2>2. ASSUME NEW p \in Server \X Space
        PROVE  {c \in Client \ OnServer(p[1], p[2]) :
                  memberOf[c] \in mirror[p[1]][p[2]]}'
                 = {c \in Client \ OnServer(p[1], p[2]) :
                      memberOf[c] \in mirror[p[1]][p[2]]}
      BY <2>1
  <2>3. QED
      BY <2>2, Zenon DEF Strangers
<1>5. Flags' = Flags
  <2>1. \A d \in registered : server'[d] = server[d]
      BY <1>1
  <2>2. \A d \in Client : (d \in registered /\ state[server[d]][memberOf[d]])'
                            = (d \in registered /\ state[server[d]][memberOf[d]])
      BY <2>1, Zenon
  <2>3. QED
      BY <2>2, Zenon DEF Flags
<1>6. Knowledge' = Knowledge
    BY <1>2, Zenon DEF Knowledge
<1>7. ASSUME FlagsAreOwn PROVE FlagsAreOwn'
  <2> SUFFICES ASSUME NEW srv \in Server, NEW m \in MemberId, state[srv][m]
               PROVE  \E d \in Client : memberOf'[d] = m /\ server'[d] = srv
      BY DEF FlagsAreOwn
  <2>1. PICK d \in Client : memberOf[d] = m /\ server[d] = srv
      BY <1>7 DEF FlagsAreOwn
  <2>2. memberOf[d] # NoMember
      BY <2>1
  <2>3. QED
      BY <2>1, <2>2
<1>8. QED
    BY <1>2, <1>3, <1>4, <1>5, <1>6, <1>7 DEF PresenceOf!vars

-----------------------------------------------------------------------------
(***************************************************************************)
(* Joins, departures and changes of state.                                 *)
(***************************************************************************)

\* What a join does to the states a server shows: nobody who is there loses its
\* own.
LEMMA JoinFlags ==
  ASSUME ServerInv, FlagsAreOwn,
         NEW c \in Client, NEW srv \in Server, NEW sp \in Space,
         memberOf[c] = NoMember, Joins(c, srv, sp)
  PROVE  /\ FlagsAreOwn'
         /\ Flags' = [Flags EXCEPT ![c] = FALSE]
<1>0. Joined(c, srv, sp)
    BY JoinEffect
<1>1. /\ \A s \in Server : s # srv => state'[s] = state[s]
      /\ \A m \in MemberId : state'[srv][m] =
           IF m = nextMember THEN FALSE
           ELSE IF sp \notin mirrored[srv] /\ m \in members[sp] THEN FALSE
           ELSE state[srv][m]
    BY DEF Joins, EnterSpace, PreparedState, ServerInv, ServerTypeOK
<1>2. ASSUME NEW s \in Server, NEW m \in MemberId, state'[s][m]
      PROVE  state[s][m] /\ (s = srv => m # nextMember)
  <2>1. CASE s = srv
      BY <1>1, <1>2, <2>1, Zenon
  <2>2. CASE s # srv
      BY <1>1, <1>2, <2>2, Zenon
  <2>3. QED
      BY <2>1, <2>2
<1>3. FlagsAreOwn'
  <2> SUFFICES ASSUME NEW s \in Server, NEW m \in MemberId, state'[s][m]
               PROVE  \E d \in Client : memberOf'[d] = m /\ server'[d] = s
      BY DEF FlagsAreOwn
  <2>1. PICK d \in Client : memberOf[d] = m /\ server[d] = s
      BY <1>2 DEF FlagsAreOwn
  <2>2. d # c
      BY <2>1
  <2>3. QED
      BY <1>0, <2>1, <2>2 DEF Joined
<1>4. ASSUME NEW d \in registered, d # c
      PROVE  state'[server[d]][memberOf[d]] = state[server[d]][memberOf[d]]
  <2>1. /\ d \in Client /\ server[d] \in Server /\ space[d] \in Space
        /\ memberOf[d] \in MemberId
        /\ memberOf[d] # nextMember
      BY DEF ServerInv, ServerTypeOK, TypeOK, PhasesFit, IdsAreOwn
  <2>2. CASE server[d] # srv
      BY <1>1, <2>1, <2>2, Zenon
  <2>3. CASE server[d] = srv
    <3>1. memberOf[d] \in members[sp] => sp \in mirrored[srv]
      <4> SUFFICES ASSUME memberOf[d] \in members[sp] PROVE sp \in mirrored[srv]
          OBVIOUS
      <4>1. PICK e \in registered : memberOf[e] = memberOf[d] /\ space[e] = sp
          BY DEF ServerInv, MembersAreRegistered
      <4>2. e = d
          BY <2>1, <4>1 DEF ServerInv, IdsAreOwn, ServerTypeOK
      <4>3. QED
          BY <2>3, <4>1, <4>2
             DEF ServerInv, SessionIsBacked, SubscribedExactlyWhileMirrored
    <3>2. QED
        BY <1>1, <2>1, <2>3, <3>1, Zenon
  <2>4. QED
      BY <2>2, <2>3
<1>5. ~state'[srv][nextMember]
    BY <1>0, <1>1, Zenon DEF Joined
<1>6. Flags' = [Flags EXCEPT ![c] = FALSE]
  <2>1. ASSUME NEW d \in Client
        PROVE  (d \in registered' /\ state'[server'[d]][memberOf'[d]])
                 = IF d = c THEN FALSE
                   ELSE d \in registered /\ state[server[d]][memberOf[d]]
    <3>1. CASE d = c
      <4>1. server'[d] = srv /\ memberOf'[d] = nextMember
          BY <1>0, <3>1 DEF Joined
      <4>2. QED
          BY <1>5, <3>1, <4>1, Zenon
    <3>2. CASE d # c
      <4>1. /\ server'[d] = server[d] /\ memberOf'[d] = memberOf[d]
            /\ d \in registered' <=> d \in registered
          BY <1>0, <3>2 DEF Joined
      <4>2. QED
          BY <1>4, <3>2, <4>1, Zenon
    <3>3. QED
        BY <3>1, <3>2
  <2>2. Flags' = [d \in Client |->
                    d \in registered' /\ state'[server'[d]][memberOf'[d]]]
      BY Zenon DEF Flags
  <2>3. [Flags EXCEPT ![c] = FALSE] =
          [d \in Client |-> IF d = c THEN FALSE
             ELSE d \in registered /\ state[server[d]][memberOf[d]]]
      BY DEF Flags
  <2>4. QED
      BY <2>1, <2>2, <2>3, Zenon
<1>7. QED
    BY <1>3, <1>6

\* A join is an Enter: the client is where it was nowhere before, and whoever
\* was there knew the strangers already.
LEMMA JoinEnters ==
  ASSUME ServerInv, FlagsAreOwn,
         NEW c \in Client, NEW srv \in Server, NEW sp \in Space,
         memberOf[c] = NoMember, c \notin registered, Joins(c, srv, sp),
         open' = open \/ open' = open \cup {c}
  PROVE  FlagsAreOwn' /\ PresenceOf!Enter(c, <<srv, sp>>)
<1>0. Joined(c, srv, sp)
    BY JoinEffect
<1>1. \A d \in Client : /\ memberOf'[d] = IF d = c THEN nextMember ELSE memberOf[d]
                        /\ server'[d] = IF d = c THEN srv ELSE server[d]
                        /\ space'[d] = IF d = c THEN sp ELSE space[d]
    BY <1>0 DEF Joined
<1>2. registered' = registered \cup {c}
    BY <1>0 DEF Joined
<1>3. \A p \in Server \X Space : c \notin Presents[p]
    BY DEF Presents
<1>4. Presents' = [Presents EXCEPT ![<<srv, sp>>] = @ \cup {c}]
  <2>1. ASSUME NEW s \in Server, NEW x \in Space
        PROVE  (registered \cap OnServer(s, x))' =
                 IF <<s, x>> = <<srv, sp>>
                   THEN (registered \cap OnServer(s, x)) \cup {c}
                   ELSE registered \cap OnServer(s, x)
      BY <1>1, <1>2 DEF OnServer
  <2>2. ASSUME NEW p \in Server \X Space
        PROVE  (registered \cap OnServer(p[1], p[2]))' =
                 IF p = <<srv, sp>>
                   THEN (registered \cap OnServer(p[1], p[2])) \cup {c}
                   ELSE registered \cap OnServer(p[1], p[2])
    <3>1. PICK s \in Server, x \in Space : p = <<s, x>> /\ p[1] = s /\ p[2] = x
        OBVIOUS
    <3>2. QED
        BY <2>1, <3>1, Zenon
  <2>3. QED
      BY <2>2 DEF Presents
<1>5. ASSUME NEW s \in Server, NEW x \in Space,
             ~(s = srv /\ x = sp) \/ Presents[<<srv, sp>>] # {}
      PROVE  {d \in Client \ OnServer(s, x) : memberOf[d] \in mirror[s][x]}'
               = {d \in Client \ OnServer(s, x) : memberOf[d] \in mirror[s][x]}
  <2>1. \/ mirror'[s][x] = mirror[s][x]
        \/ /\ mirror'[s][x] = mirror[s][x] \cup {nextMember}
           /\ s = srv /\ x = sp
    <3>1. CASE s = srv /\ x = sp
      <4>1. PICK d : d \in registered /\ server[d] = srv /\ space[d] = sp
          BY <1>5, <3>1, PresentIn
      <4>2. sp \in mirrored[srv]
          BY <4>1 DEF ServerInv, SessionIsBacked, SubscribedExactlyWhileMirrored
      <4>3. QED
          BY <1>0, <3>1, <4>2 DEF Joined, PreparedMirror
    <3>2. CASE ~(s = srv /\ x = sp)
      <4>1. mirror'[s][x] = IF s = srv /\ x = sp
                              THEN PreparedMirror(srv, sp) \cup {nextMember}
                              ELSE mirror[s][x]
          BY <1>0 DEF Joined
      <4>2. mirror'[s][x] = mirror[s][x]
          BY <3>2, <4>1
      <4>3. QED
          BY <4>2
    <3>3. QED
        BY <3>1, <3>2
  <2>2. nextMember \notin mirror[s][x] /\ NoMember \notin mirror[s][x]
    <3>1. \A d \in Client : memberOf[d] \in mirror[s][x]
            => memberOf[d] # nextMember
        BY DEF ServerInv, ServerTypeOK, TypeOK, IdsAreOwn
    <3>2. \A m \in mirror[s][x] : \E d \in Client : memberOf[d] = m
        BY DEF ServerInv, MirroredHaveJoined
    <3>3. NoMember \notin mirror[s][x]
        BY DEF ServerInv, ServerTypeOK
    <3>4. QED
        BY <3>1, <3>2, <3>3
  <2>3. \A d \in Client : memberOf[d] # nextMember
      BY <1>0 DEF ServerInv, ServerTypeOK, TypeOK, IdsAreOwn
  <2>4. ASSUME NEW d \in Client
        PROVE  (~(server[d] = s /\ space[d] = x) /\ memberOf[d] \in mirror[s][x])'
                 <=> ~(server[d] = s /\ space[d] = x) /\ memberOf[d] \in mirror[s][x]
    <3>1. CASE d = c
        BY <1>1, <2>1, <2>2, <3>1
    <3>2. CASE d # c
        BY <1>1, <2>1, <2>3, <3>2
    <3>3. QED
        BY <3>1, <3>2
  <2>5. QED
      BY <2>4 DEF OnServer
<1>6. ASSUME NEW p \in Server \X Space, p # <<srv, sp>> \/ Presents[p] # {}
      PROVE  Strangers'[p] = Strangers[p]
  <2>1. PICK s \in Server, x \in Space : p = <<s, x>>
      OBVIOUS
  <2>2. ~(s = srv /\ x = sp) \/ Presents[<<srv, sp>>] # {}
      BY <1>6, <2>1
  <2>3. QED
      BY <1>5, <2>1, <2>2 DEF Strangers
<1>7. Strangers' \in [Server \X Space -> SUBSET Client]
    BY DEF Strangers
<1>8. Listening' \in {Listening, Listening \cup {c}}
    BY <1>2 DEF Listening
<1>9. FlagsAreOwn' /\ Flags' = [Flags EXCEPT ![c] = FALSE]
    BY JoinFlags
<1>10. QED
    BY <1>3, <1>4, <1>6, <1>7, <1>8, <1>9 DEF PresenceOf!Enter

\* A departure is a Leave.
LEMMA LeaveLeaves ==
  ASSUME ServerInv, FlagsAreOwn, NEW c \in Client, Leave(c)
  PROVE  FlagsAreOwn' /\ PresenceOf!Leave(c, <<server[c], space[c]>>)
<1>0. /\ Left(c) /\ c \in registered /\ memberOf[c] # NoMember
      /\ server[c] \in Server /\ space[c] \in Space
    BY LeaveEffect, LeaverIsRegistered
<1>1. /\ UNCHANGED <<server, space, memberOf, state>>
      /\ registered' = registered \ {c} /\ open' = open \ {c} /\ c \in open
    BY DEF Leave
<1>2. c \in Presents[<<server[c], space[c]>>] /\ c \in Listening
    BY <1>0, <1>1, PresentIn DEF Listening
<1>3. Presents' = [Presents EXCEPT ![<<server[c], space[c]>>] = @ \ {c}]
  <2>1. ASSUME NEW s \in Server, NEW x \in Space
        PROVE  (registered \cap OnServer(s, x))' =
                 IF <<s, x>> = <<server[c], space[c]>>
                   THEN (registered \cap OnServer(s, x)) \ {c}
                   ELSE registered \cap OnServer(s, x)
      BY <1>1 DEF OnServer
  <2>2. ASSUME NEW p \in Server \X Space
        PROVE  (registered \cap OnServer(p[1], p[2]))' =
                 IF p = <<server[c], space[c]>>
                   THEN (registered \cap OnServer(p[1], p[2])) \ {c}
                   ELSE registered \cap OnServer(p[1], p[2])
    <3>1. PICK s \in Server, x \in Space : p = <<s, x>> /\ p[1] = s /\ p[2] = x
        OBVIOUS
    <3>2. QED
        BY <2>1, <3>1, Zenon
  <2>3. QED
      BY <2>2 DEF Presents
<1>4. Listening' = Listening \ {c}
    BY <1>1 DEF Listening
<1>5. Strangers' = Strangers
  <2>1. ASSUME NEW s \in Server, NEW x \in Space
        PROVE  {d \in Client \ OnServer(s, x) : memberOf[d] \in mirror[s][x]}'
                 = {d \in Client \ OnServer(s, x) : memberOf[d] \in mirror[s][x]}
    <3>1. \A d \in Client : memberOf[d] = memberOf[c] => d = c
        BY <1>0 DEF ServerInv, IdsAreOwn
    <3>2. \A m : m \in mirror'[s][x]
            <=> m \in mirror[s][x]
                  /\ ~(s = server[c] /\ x = space[c] /\ m = memberOf[c])
        BY <1>0 DEF Left
    <3>3. QED
        BY <1>1, <3>1, <3>2 DEF OnServer
  <2>2. ASSUME NEW p \in Server \X Space
        PROVE  {d \in Client \ OnServer(p[1], p[2]) :
                  memberOf[d] \in mirror[p[1]][p[2]]}'
                 = {d \in Client \ OnServer(p[1], p[2]) :
                      memberOf[d] \in mirror[p[1]][p[2]]}
      BY <2>1
  <2>3. QED
      BY <2>2, Zenon DEF Strangers
<1>6. Flags' = [Flags EXCEPT ![c] = FALSE]
    BY <1>1 DEF Flags
<1>7. FlagsAreOwn'
    BY <1>1 DEF FlagsAreOwn
<1>8. QED
    BY <1>2, <1>3, <1>4, <1>5, <1>6, <1>7 DEF PresenceOf!Leave

\* A change of a client's state is a Change.
LEMMA UpdateChanges ==
  ASSUME ServerInv, FlagsAreOwn, NEW c \in Client, NEW v \in BOOLEAN,
         UpdateMember(c, v)
  PROVE  FlagsAreOwn' /\ PresenceOf!Change(c, v)
<1>1. /\ UNCHANGED <<open, registered, server, space, memberOf, mirror>>
      /\ c \in Listening
    BY DEF UpdateMember, sessionVars, Listening, ServerInv, PhasesFit
<1>2. server[c] \in Server /\ memberOf[c] \in MemberId /\ memberOf[c] # NoMember
    BY DEF UpdateMember, ServerInv, ServerTypeOK, PhasesFit
<1>3. /\ \A s \in Server : s # server[c] => state'[s] = state[s]
      /\ \A m \in MemberId : state'[server[c]][m] =
           IF m = memberOf[c] THEN v ELSE state[server[c]][m]
    BY <1>2 DEF UpdateMember, ServerInv, ServerTypeOK
<1>4. UNCHANGED <<Presents, Strangers, Listening>>
    BY <1>1 DEF Presents, Strangers, Listening, OnServer
<1>5. FlagsAreOwn'
  <2> SUFFICES ASSUME NEW s \in Server, NEW m \in MemberId, state'[s][m]
               PROVE  \E d \in Client : memberOf[d] = m /\ server[d] = s
      BY <1>1 DEF FlagsAreOwn
  <2>1. CASE s = server[c] /\ m = memberOf[c]
      BY <2>1
  <2>2. CASE ~(s = server[c] /\ m = memberOf[c])
    <3>1. state'[s][m] = state[s][m]
      <4>1. CASE s = server[c]
          BY <1>3, <2>2, <4>1, Zenon
      <4>2. CASE s # server[c]
          BY <1>3, <4>2, Zenon
      <4>3. QED
          BY <4>1, <4>2
    <3>2. state[s][m]
        BY <3>1, Zenon
    <3>3. QED
        BY <3>2 DEF FlagsAreOwn
  <2>3. QED
      BY <2>1, <2>2
<1>6. Flags' = [Flags EXCEPT ![c] = v]
  <2>1. ASSUME NEW d \in Client
        PROVE  (d \in registered /\ state'[server[d]][memberOf[d]])
                 = IF d = c THEN v
                   ELSE d \in registered /\ state[server[d]][memberOf[d]]
    <3>1. CASE d = c
      <4>1. state'[server[c]][memberOf[c]] = v /\ c \in registered
          BY <1>1, <1>2, <1>3 DEF Listening
      <4>2. QED
          BY <3>1, <4>1, Zenon
    <3>2. CASE d # c
      <4>1. ASSUME d \in registered
            PROVE  state'[server[d]][memberOf[d]] = state[server[d]][memberOf[d]]
        <5>1. server[d] \in Server /\ memberOf[d] \in MemberId
            BY <4>1 DEF ServerInv, ServerTypeOK, PhasesFit
        <5>2. memberOf[d] # memberOf[c]
            BY <1>2, <3>2 DEF ServerInv, IdsAreOwn
        <5>3. CASE server[d] = server[c]
            BY <1>3, <5>1, <5>2, <5>3, Zenon
        <5>4. CASE server[d] # server[c]
            BY <1>3, <5>1, <5>4, Zenon
        <5>5. QED
            BY <5>3, <5>4
      <4>2. QED
          BY <3>2, <4>1, Zenon
    <3>3. QED
        BY <3>1, <3>2
  <2>2. Flags' = [d \in Client |-> d \in registered /\ state'[server[d]][memberOf[d]]]
      BY <1>1, Zenon DEF Flags
  <2>3. [Flags EXCEPT ![c] = v] =
          [d \in Client |-> IF d = c THEN v
             ELSE d \in registered /\ state[server[d]][memberOf[d]]]
      BY DEF Flags
  <2>4. QED
      BY <2>1, <2>2, <2>3, Zenon
<1>7. QED
    BY <1>1, <1>4, <1>5, <1>6 DEF PresenceOf!Change

-----------------------------------------------------------------------------
(***************************************************************************)
(* Every step.                                                             *)
(***************************************************************************)

\* Everybody's next step but for what is then known.
Moves ==
  \E c \in Client :
    \/ \E p \in Server \X Space :
         PresenceOf!Enter(c, p) \/ PresenceOf!Leave(c, p)
    \/ \E v \in BOOLEAN : PresenceOf!Change(c, v)

\* One case per action of ServerNext.
LEMMA PresenceStep ==
  ASSUME ServerInv, FlagsAreOwn, [ServerNext]_allVars
  PROVE  FlagsAreOwn' /\ (Moves \/ UNCHANGED PresenceOf!vars)
<1> DEFINE Goal == FlagsAreOwn' /\ (Moves \/ UNCHANGED PresenceOf!vars)
<1>u. ASSUME UNCHANGED <<registered, memberOf, mirror, state, view>>,
             \A d \in Client : memberOf[d] # NoMember
               => server'[d] = server[d] /\ space'[d] = space[d],
             registered \cap open' = registered \cap open
      PROVE  Goal
    BY <1>u, UnheardStep
<1>j. ASSUME NEW c \in Client, NEW srv \in Server, NEW sp \in Space,
             phase[c] # "joined", Joins(c, srv, sp),
             open' = open \/ open' = open \cup {c}
      PROVE  Goal
  <2>1. memberOf[c] = NoMember /\ c \notin registered
      BY <1>j, NewcomerIsBlank
  <2>2. FlagsAreOwn' /\ PresenceOf!Enter(c, <<srv, sp>>)
      BY <1>j, <2>1, JoinEnters
  <2>3. <<srv, sp>> \in Server \X Space
      OBVIOUS
  <2>4. QED
      BY <2>2, <2>3 DEF Moves
<1>1. ASSUME NEW sp \in Space, CreateSpace(sp),
             UNCHANGED <<sessionVars, mirrorVars, clientVars>>
      PROVE  Goal
    BY <1>1, <1>u DEF sessionVars, mirrorVars, clientVars
<1>2. ASSUME NEW c \in Client, NEW srv \in Server, NEW sp \in Space,
             JoinMirrored(c, srv, sp)
      PROVE  Goal
  <2>1. phase[c] = "idle" /\ open' = open \cup {c}
      BY <1>2 DEF JoinMirrored, OpenChannel
  <2>2. QED
      BY <1>2, <1>j, <2>1, JoinMirroredJoins
<1>3. ASSUME NEW c \in Client, NEW srv \in Server, NEW sp \in Space,
             JoinRunning(c, srv, sp)
      PROVE  Goal
  <2>1. phase[c] = "idle" /\ open' = open \cup {c}
      BY <1>3 DEF JoinRunning, OpenChannel
  <2>2. QED
      BY <1>3, <1>j, <2>1, JoinRunningJoins
<1>4. ASSUME NEW c \in Client, NEW srv \in Server, NEW sp \in Space,
             JoinStarting(c, srv, sp) \/ JoinRefused(c, srv, sp)
      PROVE  Goal
  <2>1. /\ phase[c] = "idle" /\ open' = open \cup {c}
        /\ server' = [server EXCEPT ![c] = srv] /\ space' = [space EXCEPT ![c] = sp]
        /\ UNCHANGED <<registered, memberOf, mirror, state, view>>
      BY <1>4 DEF JoinStarting, JoinRefused, OpenChannel, mirrorVars, clientVars
  <2>2. memberOf[c] = NoMember /\ c \notin registered
      BY <2>1, NewcomerIsBlank
  <2>3. QED
      BY <1>u, <2>1, <2>2 DEF ServerInv, ServerTypeOK
<1>5. ASSUME NEW c \in Client, NEW p \in pending, ResumeJoin(c, p)
      PROVE  Goal
  <2>1. phase[c] = "waiting" /\ open' = open
      BY <1>5 DEF ResumeJoin
  <2>2. QED
      BY <1>5, <1>j, <2>1, ResumeJoinJoins
<1>6. ASSUME NEW c \in Client, NEW p \in pending, FailJoin(c, p)
      PROVE  Goal
    BY <1>6, <1>u DEF FailJoin, sessionVars, mirrorVars
<1>7. ASSUME NEW c \in Client, CloseBeforeJoin(c)
      PROVE  Goal
  <2>1. c \notin registered
      BY <1>7 DEF CloseBeforeJoin, ServerInv, PhasesFit
  <2>2. QED
      BY <1>7, <1>u, <2>1 DEF CloseBeforeJoin, mirrorVars, clientVars
<1>8. ASSUME NEW c \in Client, Leave(c)
      PROVE  Goal
  <2>1. <<server[c], space[c]>> \in Server \X Space
      BY <1>8, LeaverIsRegistered
  <2>2. QED
      BY <1>8, <2>1, LeaveLeaves DEF Moves
<1>9. ASSUME NEW c \in Client, NEW v \in BOOLEAN, UpdateMember(c, v)
      PROVE  Goal
    BY <1>9, UpdateChanges DEF Moves
<1>10. CASE UNCHANGED allVars
    BY <1>10, <1>u DEF allVars, sessionVars, mirrorVars, clientVars
<1>11. QED
    BY <1>1, <1>2, <1>3, <1>4, <1>5, <1>6, <1>7, <1>8, <1>9, <1>10 DEF ServerNext

\* What clients learn of each other is Presence: every join, departure and
\* change on a server reaches all its clients in the space as one step, in one
\* order, and what they know is always what is so.
THEOREM PresenceIsImplemented == ServerSpec => ImplementsPresence
<1>1. ServerInit => FlagsAreOwn /\ PresenceOf!Init
  <2> SUFFICES ASSUME ServerInit PROVE FlagsAreOwn /\ PresenceOf!Init
      OBVIOUS
  <2>1. FlagsAreOwn
      BY DEF ServerInit, FlagsAreOwn
  <2>2. Presents = [p \in Server \X Space |-> {}] /\ Listening = {}
      BY DEF ServerInit, Presents, Listening
  <2>3. Strangers = [p \in Server \X Space |-> {}]
    <3>1. ASSUME NEW p \in Server \X Space PROVE mirror[p[1]][p[2]] = {}
        BY DEF ServerInit
    <3>2. QED
        BY <3>1 DEF Strangers
  <2>4. Flags = [c \in Client |-> FALSE]
      BY DEF ServerInit, Flags
  <2>5. Knowledge = [c \in Client |-> PresenceOf!Nothing]
      BY <2>2, Zenon DEF Knowledge, NoView, PresenceOf!Nothing
  <2>6. QED
      BY <2>1, <2>2, <2>3, <2>4, <2>5 DEF PresenceOf!Init
<1>2. ServerInv /\ FlagsAreOwn /\ [ServerNext]_allVars => FlagsAreOwn'
    BY PresenceStep
<1>3. /\ ServerInv /\ FlagsAreOwn /\ PresenceOf!Informed' /\ [ServerNext]_allVars
      => [PresenceOf!Next]_(PresenceOf!vars)
    BY PresenceStep DEF Moves, PresenceOf!Next
<1>4. ServerSpec => []FlagsAreOwn
    BY <1>1, <1>2, ServerInvariance, PTL DEF ServerSpec
<1>5. ServerSpec => []PresenceOf!Informed
    BY <1>4, ServerInvariance, ListenersAreInformed, PTL
<1>6. QED
    BY <1>1, <1>3, <1>4, <1>5, ServerInvariance, PTL
       DEF ServerSpec, ImplementsPresence, PresenceOf!Spec

=============================================================================
