-------------------------- MODULE SignalingServer --------------------------
(***************************************************************************)
(* Signaling servers and their member sessions, composed with the          *)
(* coordinator of SpaceService.                                            *)
(*                                                                         *)
(* A client opens one channel to one server; MemberSession.start() then    *)
(* subscribes the server (prepareSpace), adds the member (prepareMember),  *)
(* emits spaceInit and registers the channel.  It is suspended only while  *)
(* the coordinator waits for a router; up to there and from there on it    *)
(* runs to its end in one step, coordinator handlers included.             *)
(*                                                                         *)
(* `view' is what the events emitted on a channel add up to: the members   *)
(* of spaceInit, then memberJoin, memberLeave and memberStateUpdate.  A    *)
(* member's state is one flag, such as transportIsConnected.               *)
(***************************************************************************)
EXTENDS SpaceService

CONSTANTS
  Client       \* clients, each opening one channel

NoMember == 0

VARIABLES
  phase,       \* how far start() got: "idle", "waiting", "joined", "failed"
  open,        \* clients whose channel is connected
  server,      \* the server a client connected to, NoServer before
  space,       \* the spaceUuid it asked for, NoSpace before
  waitsFor,    \* the router request its start() is suspended on
  memberOf,    \* MemberSession.memberId
  registered,  \* clients whose channel is in memberIdToChannel
  mirrored,    \* SignalingServer.spaces
  mirror,      \* members of each mirrored space
  state,       \* Member.state in each server's mirror
  view,        \* what the client was told of its space
  down         \* the process died of an unhandled rejection

sessionVars == <<phase, open, server, space, waitsFor, memberOf, registered>>
mirrorVars  == <<mirrored, mirror, state>>
clientVars  == <<view, down>>
coordVars   == vars
allVars     == <<coordVars, sessionVars, mirrorVars, clientVars>>

ServerTypeOK ==
  /\ TypeOK
  /\ phase \in [Client -> {"idle", "waiting", "joined", "failed"}]
  /\ open \subseteq Client
  /\ server \in [Client -> Server \cup {NoServer}]
  /\ space \in [Client -> Space \cup {NoSpace}]
  /\ waitsFor \in [Client -> RouterId \cup {NoRouter}]
  /\ memberOf \in [Client -> MemberId \cup {NoMember}]
  /\ registered \subseteq Client
  /\ mirrored \in [Server -> SUBSET Space]
  /\ mirror \in [Server -> [Space -> SUBSET MemberId]]
  /\ state \in [Server -> [MemberId -> BOOLEAN]]
  /\ DOMAIN view = Client
  /\ \A c \in Client : DOMAIN view[c] \subseteq MemberId
  /\ down \in BOOLEAN

NoView == [m \in {} |-> FALSE]

ServerInit ==
  /\ Init
  /\ phase = [c \in Client |-> "idle"]
  /\ open = {}
  /\ server = [c \in Client |-> NoServer]
  /\ space = [c \in Client |-> NoSpace]
  /\ waitsFor = [c \in Client |-> NoRouter]
  /\ memberOf = [c \in Client |-> NoMember]
  /\ registered = {}
  /\ mirrored = [srv \in Server |-> {}]
  /\ mirror = [srv \in Server |-> [sp \in Space |-> {}]]
  /\ state = [srv \in Server |-> [m \in MemberId |-> FALSE]]
  /\ view = [c \in Client |-> NoView]
  /\ down = FALSE

-----------------------------------------------------------------------------
(***************************************************************************)
(* Local mirror and broadcasts                                             *)
(***************************************************************************)

\* Mutant: a broadcast reaches every registered channel of the server.
AudienceOfServer(srv, sp) ==
  {c \in registered : server[c] = srv /\ sp \in mirrored[srv]}

\* Clients a broadcast in the space reaches: members of the mirror whose
\* channel is registered.
Audience(srv, sp) ==
  {c \in registered : server[c] = srv /\ memberOf[c] \in mirror[srv][sp]}

MirrorView(srv, sp) == [m \in mirror[srv][sp] |-> state[srv][m]]

\* What a client knows after it is told the state of one member.
Learn(known, m, v) ==
  [x \in DOMAIN known \cup {m} |-> IF x = m THEN v ELSE known[x]]

\* The subscribe ack: the space and the members the coordinator has, with the
\* state they joined with, unless the server already mirrors the space.
PreparedMirror(srv, sp) ==
  IF sp \in mirrored[srv] THEN mirror[srv][sp] ELSE members[sp]

\* Mutant: the coordinator's copy overwrites the states of an existing mirror.
OverwrittenState(srv, sp) ==
  [m \in MemberId |-> IF m \in members[sp] THEN FALSE ELSE state[srv][m]]

PreparedState(srv, sp) ==
  [m \in MemberId |->
     IF sp \notin mirrored[srv] /\ m \in members[sp] THEN FALSE
                                                     ELSE state[srv][m]]

\* prepareSpace's mirror, then prepareMember's member, the memberJoin
\* broadcast, spaceInit and registerChannel.
EnterSpace(c, srv, sp) ==
  LET m == nextMember IN
  /\ mirrored' = [mirrored EXCEPT ![srv] = @ \cup {sp}]
  /\ mirror' = [mirror EXCEPT ![srv][sp] = PreparedMirror(srv, sp) \cup {m}]
  /\ state' = [state EXCEPT ![srv] = [PreparedState(srv, sp) EXCEPT ![m] = FALSE]]
  /\ view' = [d \in Client |->
                IF d = c THEN MirrorView(srv, sp)'
                ELSE IF d \in Audience(srv, sp) THEN Learn(view[d], m, FALSE)
                ELSE view[d]]
  /\ memberOf' = [memberOf EXCEPT ![c] = m]
  /\ registered' = registered \cup {c}
  /\ phase' = [phase EXCEPT ![c] = "joined"]

\* Mutant: server and space of the session are mixed up.
OpenChannelSwapped(c, srv, sp) ==
  /\ ~down
  /\ phase[c] = "idle"
  /\ open' = open \cup {c}
  /\ server' = [server EXCEPT ![c] = sp]
  /\ space' = [space EXCEPT ![c] = srv]

OpenChannel(c, srv, sp) ==
  /\ ~down
  /\ phase[c] = "idle"
  /\ open' = open \cup {c}
  /\ server' = [server EXCEPT ![c] = srv]
  /\ space' = [space EXCEPT ![c] = sp]

-----------------------------------------------------------------------------
(***************************************************************************)
(* MemberSession.start()                                                   *)
(***************************************************************************)

\* The server mirrors the space: no subscription, only a member.
JoinMirrored(c, srv, sp) ==
  /\ OpenChannel(c, srv, sp)
  /\ sp \in mirrored[srv]
  /\ AddMember(srv, sp)
  /\ EnterSpace(c, srv, sp)
  /\ UNCHANGED <<waitsFor, down>>

\* The space runs already: subscription and member in one go.
JoinRunning(c, srv, sp) ==
  /\ OpenChannel(c, srv, sp)
  /\ sp \notin mirrored[srv]
  /\ status[sp] = "running"
  /\ primaryRouter[sp] # NoRouter
  /\ RecordSubscription(srv, sp)
  /\ AddTo(sp)
  /\ EnterSpace(c, srv, sp)
  /\ UNCHANGED <<lifeVars, routerVars, waitsFor, down>>

\* The space has to be started: start() is suspended on the router.
JoinStarting(c, srv, sp) ==
  /\ OpenChannel(c, srv, sp)
  /\ sp \notin mirrored[srv]
  /\ StartBySubscribe(srv, sp)
  /\ phase' = [phase EXCEPT ![c] = "waiting"]
  /\ waitsFor' = [waitsFor EXCEPT ![c] = nextRouter]
  /\ UNCHANGED <<memberOf, registered, mirrorVars, clientVars>>

\* The subscription is refused at once: connectionFailed.
JoinRefused(c, srv, sp) ==
  /\ OpenChannel(c, srv, sp)
  /\ sp \notin mirrored[srv]
  /\ status[sp] \in {"absent", "ended"}
  /\ phase' = [phase EXCEPT ![c] = "failed"]
  /\ UNCHANGED <<coordVars, waitsFor, memberOf, registered, mirrorVars, clientVars>>

\* The router is there: the coordinator's handler resumes, then start().  It
\* does not look whether the channel is still open.
ResumeJoin(c, p) ==
  /\ ~down
  /\ phase[c] = "waiting" /\ waitsFor[c] = p.router
  /\ p.kind = "subscribe"
  /\ AssignRouter(p)
  /\ status' = [status EXCEPT ![p.space] = "running"]
  /\ RecordSubscription(p.server, p.space)
  /\ AddTo(p.space)
  /\ EnterSpace(c, p.server, p.space)
  /\ waitsFor' = [waitsFor EXCEPT ![c] = NoRouter]
  /\ UNCHANGED <<open, server, space, down>>

\* No router: the nack callback throws inside a promise handler nobody awaits.
FailJoin(c, p) ==
  /\ ~down
  /\ phase[c] = "waiting" /\ waitsFor[c] = p.router
  /\ RouterFailed(p)
  /\ down' = TRUE
  /\ UNCHANGED <<sessionVars, mirrorVars, view>>

(***************************************************************************)
(* The channel closes.  A session that has no member id yet does nothing.  *)
(* Otherwise unregisterChannel, deleteMember with the coordinator's        *)
(* removal and the memberLeave broadcast, and, when the mirror is empty,   *)
(* deleteSpace with the coordinator's unsubscription.                      *)
(***************************************************************************)
CloseBeforeJoin(c) ==
  /\ ~down
  /\ c \in open
  /\ memberOf[c] = NoMember
  /\ open' = open \ {c}
  /\ UNCHANGED <<coordVars, phase, server, space, waitsFor, memberOf,
                 registered, mirrorVars, clientVars>>

Leave(c) ==
  LET srv == server[c]
      sp == space[c]
      m == memberOf[c]
      rest == mirror[srv][sp] \ {m} IN
  /\ ~down
  /\ c \in open
  /\ m \in members[sp]
  /\ open' = open \ {c}
  /\ registered' = registered \ {c}
  /\ RemoveFrom(sp, m)
  /\ mirror' = [mirror EXCEPT ![srv][sp] = rest]
  /\ IF rest = {}
       THEN /\ mirrored' = [mirrored EXCEPT ![srv] = @ \ {sp}]
            /\ DropSubscription(srv, sp)
       ELSE UNCHANGED <<mirrored, subVars>>
  /\ EndIfIdle(sp)
  /\ view' = [d \in Client |->
                IF d \in Audience(srv, sp) \ {c}
                THEN [x \in DOMAIN view[d] \ {m} |-> view[d][x]]
                ELSE view[d]]
  /\ UNCHANGED <<phase, server, space, waitsFor, memberOf, state, down>>

\* updateMember(), for the client's updateMemberState and for the
\* coordinator's producerConnectedEvent.
UpdateMember(c, v) ==
  LET srv == server[c]
      m == memberOf[c] IN
  /\ ~down
  /\ c \in open
  /\ phase[c] = "joined"
  /\ state' = [state EXCEPT ![srv][m] = v]
  /\ view' = [d \in Client |->
                IF d \in Audience(srv, space[c]) THEN Learn(view[d], m, v)
                ELSE view[d]]
  /\ UNCHANGED <<coordVars, sessionVars, mirrored, mirror, down>>

ServerNext ==
  \/ \E sp \in Space :
       /\ ~down
       /\ CreateSpace(sp)
       /\ UNCHANGED <<sessionVars, mirrorVars, clientVars>>
  \/ \E c \in Client :
       \/ \E srv \in Server, sp \in Space :
            \/ JoinMirrored(c, srv, sp)
            \/ JoinRunning(c, srv, sp)
            \/ JoinStarting(c, srv, sp)
            \/ JoinRefused(c, srv, sp)
       \/ \E p \in pending : ResumeJoin(c, p) \/ FailJoin(c, p)
       \/ CloseBeforeJoin(c)
       \/ Leave(c)
       \/ \E v \in BOOLEAN : UpdateMember(c, v)

ServerSpec == ServerInit /\ [][ServerNext]_allVars

-----------------------------------------------------------------------------
(***************************************************************************)
(* Safety                                                                  *)
(***************************************************************************)

\* What a connected client was told, snapshot and broadcasts together, is
\* what its server's mirror holds, member by member and state by state: no
\* broadcast precedes the snapshot, none is lost or reaches another space.
ViewMatchesMirror ==
  \A c \in open \cap registered :
    view[c] = MirrorView(server[c], space[c])

\* A registered channel's member is known to the coordinator and mirrored by
\* its server, which is subscribed to the running space.
SessionIsBacked ==
  \A c \in registered :
    LET sp == space[c] IN
    /\ status[sp] = "running"
    /\ IsSubscribed(server[c], sp)
    /\ memberOf[c] \in members[sp] \cap mirror[server[c]][sp]

\* Every member the coordinator has belongs to one registered channel: a
\* departure leaves no record of the member in the coordinator or the mirror
\* of the server it left.
MembersAreRegistered ==
  /\ \A sp \in Space : members[sp] =
       {memberOf[c] : c \in {d \in registered : space[d] = sp}}
  /\ \A c \in Client \ registered : \A sp \in Space :
       memberOf[c] # NoMember => memberOf[c] \notin mirror[server[c]][sp]

\* The coordinator counts a server as a subscriber exactly while that server
\* mirrors the space, and a mirror is never empty.
SubscribedExactlyWhileMirrored ==
  \A srv \in Server, sp \in Space :
    /\ IsSubscribed(srv, sp) <=> sp \in mirrored[srv]
    /\ sp \in mirrored[srv] <=> mirror[srv][sp] # {}

\* Suspended joins and unanswered router requests match one to one, request
\* by request: no answer can resume a join of another space or server, and no
\* request is left that nobody waits for.
WaitingMatchesPending ==
  ~down =>
    /\ \A c \in Client : phase[c] = "waiting" =>
         \E p \in pending : /\ p.router = waitsFor[c]
                            /\ p.space = space[c] /\ p.server = server[c]
    /\ \A p \in pending : \E c \in Client :
         /\ phase[c] = "waiting" /\ waitsFor[c] = p.router
         /\ \A d \in Client : waitsFor[d] = p.router => d = c

(***************************************************************************)
(* Refinement                                                              *)
(***************************************************************************)
Listening == registered \cap open

OnServer(srv, sp) == {c \in Client : server[c] = srv /\ space[c] = sp}

Presents ==
  [p \in Server \X Space |-> registered \cap OnServer(p[1], p[2])]

Strangers ==
  [p \in Server \X Space |->
     {c \in Client \ OnServer(p[1], p[2]) : memberOf[c] \in mirror[p[1]][p[2]]}]

Flags ==
  [c \in Client |-> c \in registered /\ state[server[c]][memberOf[c]]]

Knowledge ==
  [c \in Client |->
     IF c \notin Listening THEN NoView
     ELSE [d \in {e \in Client : memberOf[e] \in DOMAIN view[c]} |->
             view[c][memberOf[d]]]]

PresenceOf == INSTANCE Presence WITH
  Place     <- Server \X Space,
  present   <- Presents,
  strangers <- Strangers,
  listening <- Listening,
  flag      <- Flags,
  knows     <- Knowledge

\* What clients learn from snapshots and broadcasts is Presence: joins,
\* departures and state changes appear to every client of the space on their
\* server as single steps, in one order.
ImplementsPresence == PresenceOf!Spec

(***************************************************************************)
(* What comments and tests say and the code does not do.                   *)
(***************************************************************************)

\* "On channel close, the member is removed": no member of a closed channel.
ClosedChannelHasNoMember ==
  \A c \in Client \ open : memberOf[c] # NoMember =>
    memberOf[c] \notin members[space[c]]

\* "When this server has no members left in the space, unsubscribe so the
\* coordinator can end the space once all servers have left."
EmptyServerUnsubscribes ==
  \A srv \in Server, sp \in Space : IsSubscribed(srv, sp) =>
    \E c \in registered : server[c] = srv /\ space[c] = sp

=============================================================================
