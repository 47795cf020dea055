----------------------------- MODULE ClientSpace -----------------------------
(***************************************************************************)
(* A browser's copy of a space: Space, its SignalingSocketWrapper and      *)
(* TransportFactory, and the mute button and audio effects of SpacePage,   *)
(* over connections that break and are made again.                         *)
(*                                                                         *)
(* The client's n-th connection makes it the member n; other members join  *)
(* once each.  The server's side is SignalingServer with this client and   *)
(* the others on one server; it notices a broken connection some time      *)
(* later.  What is on the wire arrives in order or not at all.             *)
(***************************************************************************)
EXTENDS Naturals, Sequences

CONSTANTS
  Other,          \* members other than this client, by id
  MaxConnections, \* bound: connections the client makes
  MaxToggles,     \* bound: presses of its mute button
  MaxQueue        \* bound: events on the wire before the server acts again

ASSUME ClientAssumption ==
  /\ MaxConnections \in Nat \ {0}
  /\ MaxToggles \in Nat /\ MaxQueue \in Nat
  /\ Other \cap Nat = {}

Session == 1 .. MaxConnections
Id == Other \cup Session

VARIABLES
  \* the server
  room,      \* Space.members of its mirror
  muted,     \* Member.state.isMuted of its mirror
  fresh,     \* members that are yet to be added
  phase,     \* how far MemberSession.start() is
  offered,   \* members whose transportParams were sent to this session
  \* the connection
  link,      \* the open connection, 0 if none
  used,      \* connections made so far
  down,      \* events on the way to the browser
  up,        \* values of updateMemberState on the way to the server
  buffer,    \* those the socket keeps while it is disconnected
  \* the browser
  status,       \* SignalingSocketWrapper.status
  initReceived, \* Space._spaceInitReceived
  selfId,       \* Space._producerMemberId, 0 for null
  known,        \* Space._consumerMembers, as a set, with each isMuted
  selfMuted,    \* Space._producerMember.state.isMuted
  track,        \* the microphone: enabled since granted, or by the button
  shown,        \* the page shows the space
  stopped,      \* cleanup() was called
  isReady,      \* TransportFactory._isReady
  deferred,     \* TransportFactory._onceReadyHandlers
  transports,   \* session whose options each Member._transport was made from
  toggles

serverVars == <<room, muted, fresh, phase, offered>>
wireVars   == <<link, used, down, up, buffer>>
viewVars   == <<initReceived, selfId, known, selfMuted>>
mediaVars  == <<isReady, deferred, transports>>
pageVars   == <<track, shown, toggles>>
clientVars == <<status, stopped, viewVars, mediaVars, pageVars>>
vars == <<serverVars, wireVars, clientVars>>

Self == 0
Entry == [id : Id, muted : BOOLEAN]
Ids(view) == {entry.id : entry \in view}

ClientTypeOK ==
  /\ room \subseteq Id /\ muted \in [Id -> BOOLEAN] /\ fresh \subseteq Id
  /\ phase \in {"closed", "opened", "prepared", "registered", "refused"}
  /\ offered \subseteq room \cup {link}
  /\ used \in 0 .. MaxConnections /\ link \in {0, used}
  /\ up \in Seq(BOOLEAN) /\ buffer \in Seq(BOOLEAN)
  /\ status \in {"disconnected", "connecting", "connected"}
  /\ initReceived \in BOOLEAN /\ selfId \in 0 .. used
  /\ known \subseteq Entry /\ \A e, f \in known : e.id = f.id => e = f
  /\ selfId \notin Ids(known)
  /\ selfMuted \in BOOLEAN /\ track \in {"none", "granted", "on", "off"}
  /\ shown \in BOOLEAN /\ stopped \in BOOLEAN /\ isReady \in BOOLEAN
  /\ deferred \in Seq([id : Id \cup {Self}, session : Session])
  /\ transports \in [Id \cup {Self} -> 0 .. used]

Init ==
  /\ room = {} /\ fresh = Other /\ offered = {} /\ phase = "closed"
  /\ muted = [id \in Id |-> FALSE]
  /\ link = 0 /\ used = 0 /\ down = <<>> /\ up = <<>> /\ buffer = <<>>
  /\ status = "disconnected" /\ initReceived = FALSE /\ selfId = 0
  /\ known = {} /\ selfMuted = FALSE /\ track = "none"
  /\ shown = FALSE /\ stopped = FALSE /\ toggles = 0
  /\ isReady = FALSE /\ deferred = <<>>
  /\ transports = [id \in Id \cup {Self} |-> 0]

-----------------------------------------------------------------------------
(***************************************************************************)
(* The server                                                              *)
(***************************************************************************)
Event(kind, id, m) == [kind |-> kind, id |-> id, muted |-> m]

Room(view) == [kind |-> "init", id |-> link, view |-> view]

\* memberIdToChannel has the client from registerChannel until it closes.
Broadcast(event) ==
  down' = IF phase = "registered" THEN Append(down, event) ELSE down

ServerMayAct == Len(down) < MaxQueue

\* prepareSpace succeeds, or nacks.
SpacePrepared ==
  /\ phase = "opened"
  /\ \/ phase' = "prepared" /\ down' = Append(down, Event("success", link, FALSE))
     \/ phase' = "refused" /\ down' = Append(down, Event("failed", link, FALSE))
  /\ UNCHANGED <<room, muted, fresh, offered, link, used, up, buffer, clientVars>>

\* prepareMember succeeds: the snapshot is sent and the channel registered.
MemberPrepared ==
  /\ phase = "prepared"
  /\ phase' = "registered"
  /\ room' = room \cup {link}
  /\ down' = Append(down, Room({[id |-> id, muted |-> muted[id]] : id \in room'}))
  /\ UNCHANGED <<muted, fresh, offered, link, used, up, buffer, clientVars>>

MemberJoins(id) ==
  /\ ServerMayAct
  /\ id \in fresh
  /\ fresh' = fresh \ {id}
  /\ room' = room \cup {id}
  /\ Broadcast(Event("join", id, muted[id]))
  /\ UNCHANGED <<muted, phase, offered, link, used, up, buffer, clientVars>>

\* Another member leaves, or the server notices that an earlier connection of
\* this client is gone.
MemberLeaves(id) ==
  /\ ServerMayAct
  /\ id \in room \ {link}
  /\ room' = room \ {id}
  /\ offered' = offered \ {id}
  /\ Broadcast(Event("leave", id, FALSE))
  /\ UNCHANGED <<muted, fresh, phase, link, used, up, buffer, clientVars>>

UpdateMember(id, m) ==
  /\ muted' = [muted EXCEPT ![id] = m]
  /\ Broadcast(Event("update", id, m))

OtherToggles(o) ==
  /\ ServerMayAct
  /\ o \in room
  /\ UpdateMember(o, ~muted[o])
  /\ UNCHANGED <<room, fresh, phase, offered, link, used, up, buffer, clientVars>>

\* An update that comes before its handler is set up is lost.
ServerHears ==
  /\ ServerMayAct
  /\ up # <<>>
  /\ up' = Tail(up)
  /\ IF phase = "registered" THEN UpdateMember(link, Head(up))
                             ELSE UNCHANGED <<muted, down>>
  /\ UNCHANGED <<room, fresh, phase, offered, link, used, buffer, clientVars>>

\* A transport is ready: the client's own, or one for a member's media.
Offer(id) ==
  /\ ServerMayAct
  /\ phase = "registered"
  /\ id \in room \ offered
  /\ offered' = offered \cup {id}
  /\ Broadcast(Event("params", id, FALSE))
  /\ UNCHANGED <<room, muted, fresh, phase, link, used, up, buffer, clientVars>>

-----------------------------------------------------------------------------
(***************************************************************************)
(* The connection                                                          *)
(***************************************************************************)
\* connect(), from init() and again after every disconnect.
Connect ==
  /\ ~stopped
  /\ link = 0 /\ down = <<>> /\ used < MaxConnections
  /\ used' = used + 1 /\ link' = used + 1
  /\ phase' = "opened" /\ offered' = {}
  /\ down' = <<Event("connect", used + 1, FALSE)>>
  /\ UNCHANGED <<room, muted, fresh, up, buffer, clientVars>>

\* The connection breaks: a part of what was on the wire still arrives.  A
\* start() that is not done goes on and adds its member.
Break ==
  /\ link # 0
  /\ status # "disconnected"
  /\ link' = 0 /\ phase' = "closed" /\ up' = <<>>
  /\ fresh' = IF phase \in {"opened", "prepared"} THEN fresh \cup {link} ELSE fresh
  /\ \E n \in 0 .. Len(down) :
       down' = Append(SubSeq(down, 1, n), Event("disconnect", 0, FALSE))
  /\ UNCHANGED <<room, muted, offered, used, buffer, clientVars>>

-----------------------------------------------------------------------------
(***************************************************************************)
(* The browser handles an event                                            *)
(***************************************************************************)
Arrived == Head(down)
Takes(kind) == down # <<>> /\ Arrived.kind = kind /\ down' = Tail(down)

\* notifySnapshotUpdate(): the page is drawn from getSnapshot().
Notify == shown' = initReceived

HandleConnect ==
  /\ Takes("connect")
  /\ status' = "connecting"
  /\ up' = up \o buffer /\ buffer' = <<>>
  /\ UNCHANGED <<serverVars, link, used, stopped, viewVars, mediaVars, pageVars>>

HandleConnectionSuccessful ==
  /\ Takes("success")
  /\ status' = "connected"
  /\ UNCHANGED <<serverVars, link, used, up, buffer, stopped, viewVars,
                 mediaVars, pageVars>>

\* cleanup(): the listeners go and the connection is closed.
Cleanup ==
  /\ stopped' = TRUE /\ initReceived' = FALSE /\ status' = "disconnected"
  /\ link' = 0 /\ phase' = "closed" /\ up' = <<>> /\ down' = <<>>
  /\ UNCHANGED <<room, muted, fresh, offered, used, buffer, selfId, known,
                 selfMuted, mediaVars, pageVars>>

HandleConnectionFailed ==
  /\ down # <<>> /\ Arrived.kind = "failed"
  /\ Cleanup

\* The page is left.
LeavePage == ~stopped /\ Cleanup

\* Mutant: the snapshot of the last connection is taken for the next one's.
DisconnectKeepsInit ==
  /\ Takes("disconnect")
  /\ status' = "disconnected"
  /\ UNCHANGED <<serverVars, link, used, up, buffer, stopped, viewVars,
                 mediaVars, pageVars>>

\* Nothing is drawn anew; Connect follows.
HandleDisconnect ==
  /\ Takes("disconnect")
  /\ status' = "disconnected"
  /\ initReceived' = FALSE
  /\ UNCHANGED <<serverVars, link, used, up, buffer, stopped, selfId, known,
                 selfMuted, mediaVars, pageVars>>

\* Mutant: the client is a member like any other.
OthersAndSelf(event) == event.view

Others(event) == {e \in event.view : e.id # event.id}

\* Members of the snapshot replace those of the same id, their transports with
\* them; other members are kept.
HandleSpaceInit ==
  /\ Takes("init")
  /\ IF initReceived THEN UNCHANGED <<viewVars, transports, shown>>
     ELSE LET others == Others(Arrived) IN
       /\ initReceived' = TRUE /\ shown' = TRUE
       /\ selfId' = Arrived.id
       /\ \E e \in Arrived.view : e.id = Arrived.id /\ selfMuted' = e.muted
       /\ known' = {e \in known : e.id \notin Ids(others)} \cup others
       /\ transports' = [id \in Id \cup {Self} |->
                           IF id \in Ids(others) THEN 0 ELSE transports[id]]
  /\ UNCHANGED <<serverVars, link, used, up, buffer, status, stopped, isReady,
                 deferred, track, toggles>>

HandleMemberJoin ==
  /\ Takes("join")
  /\ IF Arrived.id \in Ids(known) \cup {selfId} THEN UNCHANGED <<known, shown>>
     ELSE /\ known' = known \cup {[id |-> Arrived.id, muted |-> Arrived.muted]}
          /\ Notify
  /\ UNCHANGED <<serverVars, link, used, up, buffer, status, stopped,
                 initReceived, selfId, selfMuted, mediaVars, track, toggles>>

\* Mutant: only the transport of the member that left is dropped.
MemberLeaveKeepsMember ==
  /\ Takes("leave")
  /\ transports' = [transports EXCEPT ![Arrived.id] = 0]
  /\ UNCHANGED <<serverVars, link, used, up, buffer, status, stopped,
                 viewVars, isReady, deferred, pageVars>>

HandleMemberLeave ==
  /\ Takes("leave")
  /\ IF Arrived.id \notin Ids(known) THEN UNCHANGED <<known, transports, shown>>
     ELSE /\ known' = {e \in known : e.id # Arrived.id}
          /\ transports' = [transports EXCEPT ![Arrived.id] = 0]
          /\ Notify
  /\ UNCHANGED <<serverVars, link, used, up, buffer, status, stopped,
                 initReceived, selfId, selfMuted, isReady, deferred, track,
                 toggles>>

\* Mutant: the client's own isMuted is set from the server's echo.
UpdateTakesEcho ==
  /\ Takes("update")
  /\ selfMuted' = IF Arrived.id = selfId THEN Arrived.muted ELSE selfMuted
  /\ known' = {IF e.id = Arrived.id THEN [e EXCEPT !.muted = Arrived.muted] ELSE e :
                 e \in known}
  /\ Notify
  /\ UNCHANGED <<serverVars, link, used, up, buffer, status, stopped,
                 initReceived, selfId, mediaVars, track, toggles>>

\* The client keeps its own isMuted.
HandleMemberStateUpdate ==
  /\ Takes("update")
  /\ known' = {IF e.id = Arrived.id THEN [e EXCEPT !.muted = Arrived.muted] ELSE e :
                 e \in known}
  /\ IF Arrived.id \in Ids(known) \cup {selfId}
       THEN Notify
       ELSE UNCHANGED shown
  /\ UNCHANGED <<serverVars, link, used, up, buffer, status, stopped,
                 initReceived, selfId, selfMuted, mediaVars, track, toggles>>

\* A handler of onceReady: createProducer or createConsumer, assignTransport.
Handler(id) == [id |-> IF id = selfId THEN Self ELSE id, session |-> used]

HandleTransportParams ==
  /\ Takes("params")
  /\ IF Arrived.id \notin Ids(known) \cup {selfId}
       THEN UNCHANGED <<deferred, transports, shown>>
       ELSE LET handler == Handler(Arrived.id) IN
            /\ IF isReady
                 THEN /\ transports' = [transports EXCEPT ![handler.id] = used]
                      /\ UNCHANGED deferred
                 ELSE /\ deferred' = Append(deferred, handler)
                      /\ UNCHANGED transports
            /\ Notify
  /\ UNCHANGED <<serverVars, link, used, up, buffer, status, stopped, viewVars,
                 isReady, track, toggles>>

-----------------------------------------------------------------------------
(***************************************************************************)
(* The page                                                                *)
(***************************************************************************)
\* Handlers run in order until one is for a member that left, and throws; then
\* the list is kept but never run again.
RunnableUpTo(n) ==
  \A i \in 1 .. n : deferred[i].id \in Ids(known) \cup {Self}

LastSession(id, n) ==
  LET runs == {i \in 1 .. n : deferred[i].id = id} IN
  IF runs = {} THEN transports[id]
  ELSE deferred[CHOOSE i \in runs : \A j \in runs : j <= i].session

\* Mutant: the factory is ready, and what waited for it is forgotten.
ReadyForgetsHandlers ==
  /\ ~isReady /\ selfId # 0 /\ ~stopped
  /\ isReady' = TRUE
  /\ deferred' = <<>>
  /\ UNCHANGED <<serverVars, wireVars, status, stopped, viewVars, pageVars,
                 transports>>

\* After the first spaceInit and a click: initTransportFactory().
FactoryReady ==
  /\ ~isReady /\ selfId # 0 /\ ~stopped
  /\ isReady' = TRUE
  /\ \E n \in 0 .. Len(deferred) :
       /\ RunnableUpTo(n)
       /\ n < Len(deferred) => ~RunnableUpTo(n + 1)
       /\ transports' = [id \in Id \cup {Self} |-> LastSession(id, n)]
       /\ deferred' = IF n = Len(deferred) THEN <<>> ELSE deferred
  /\ UNCHANGED <<serverVars, wireVars, status, stopped, viewVars, pageVars>>

\* getUserMedia() is granted: the track is enabled.
GrantMedia ==
  /\ track = "none"
  /\ track' = "granted"
  /\ UNCHANGED <<serverVars, wireVars, status, stopped, viewVars, mediaVars,
                 shown, toggles>>

\* An emit is kept while the socket is disconnected, and lost while it does not
\* know yet that it is.
Emit(value) ==
  IF status = "disconnected" THEN buffer' = Append(buffer, value) /\ UNCHANGED up
  ELSE IF link = 0 THEN UNCHANGED <<up, buffer>>
  ELSE up' = Append(up, value) /\ UNCHANGED buffer

\* toggleMute(): the track, the client's own state, and the server.
Toggle ==
  /\ shown /\ toggles < MaxToggles
  /\ toggles' = toggles + 1
  /\ selfMuted' = ~selfMuted
  /\ track' = IF track = "none" THEN "none" ELSE IF selfMuted THEN "on" ELSE "off"
  /\ Emit(~selfMuted)
  /\ Notify
  /\ UNCHANGED <<serverVars, link, used, down, status, stopped, initReceived,
                 selfId, known, mediaVars>>

Server ==
  \/ SpacePrepared \/ MemberPrepared \/ ServerHears
  \/ \E o \in Other : OtherToggles(o)
  \/ \E id \in Id : MemberJoins(id) \/ MemberLeaves(id) \/ Offer(id)

Receive ==
  \/ HandleConnect \/ HandleConnectionSuccessful \/ HandleConnectionFailed
  \/ HandleDisconnect \/ HandleSpaceInit \/ HandleMemberJoin
  \/ HandleMemberLeave \/ HandleMemberStateUpdate \/ HandleTransportParams

Page == FactoryReady \/ GrantMedia \/ Toggle \/ LeavePage

Next == Server \/ Connect \/ Break \/ Receive \/ Page

Spec == Init /\ [][Next]_vars

-----------------------------------------------------------------------------
\* The client is in the space and everything the server said has arrived.
Settled == phase = "registered" /\ down = <<>>

\* The factory became ready while a member it had a transport for was gone.
Stuck == isReady /\ deferred # <<>>

\* A client that has heard everything shows everybody in the space with the
\* state the server has; on its first connection it shows nobody else.
\* Reconnections, missed events and repeated snapshots do not break this.
ViewMatchesRoom ==
  Settled =>
    /\ {[id |-> id, muted |-> muted[id]] : id \in room \ {link}} \subseteq known
    /\ used = 1 => Ids(known) = room \ {link}

\* A client that shows a space knows its own id on the present connection, the
\* one by which it tells its own events from others', and sends on it.
IdIsCurrent == initReceived => selfId = used /\ status = "connected"

\* Once the audio context runs, a transport exists for each offer of the present
\* connection, made from that offer and not from one of an earlier connection,
\* whether it was offered before or after; until then each is kept.  The one
\* exception is a list of handlers cut short by a departed member.
OffersAreTaken ==
  Settled /\ ~Stuck =>
    \A id \in offered :
      LET handler == Handler(id) IN
      IF isReady THEN transports[handler.id] = used
                 ELSE \E i \in DOMAIN deferred : deferred[i] = handler

\* On the first connection the button's last press decides: late echoes of
\* earlier presses change neither what the page shows nor the microphone, and
\* the server ends up with the same state.
LastPressDecides ==
  used = 1 /\ initReceived =>
    /\ track = "on" => ~selfMuted
    /\ track = "off" => selfMuted
    /\ Settled /\ up = <<>> => muted[link] = selfMuted

=============================================================================
