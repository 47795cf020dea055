----------------------------- MODULE SpacePage -----------------------------
(***************************************************************************)
(* A browser on its way into a space: the home page, the preflight of the  *)
(* space page, the Space object it makes, its connections, the audio       *)
(* context that a click lets run, and the microphone.                      *)
(*                                                                         *)
(* The page asks for a space each time it is shown at another address, a   *)
(* visit; the components of one visit are kept for the next.  React        *)
(* renders some time after the state was set, and runs the effects of a    *)
(* render some time after that, before the next one.  Of the client's      *)
(* members and transports (ClientSpace, MediaHandshake) only its own       *)
(* producer transport is here, one for each connection.                    *)
(***************************************************************************)
EXTENDS JoinPreflight, FiniteSetsExt

CONSTANTS
  Space,           \* space uuids
  MaxVisits,       \* bound: addresses the page is shown at
  MaxConnections,  \* bound: connections the Space object makes
  None             \* null

ASSUME PageAssumption ==
  /\ MaxVisits \in Nat \ {0} /\ MaxConnections \in Nat \ {0}
  /\ None \notin Space \cup Server

Visit == 1 .. MaxVisits
Session == 1 .. MaxConnections
Track == 1 .. MaxVisits

VARIABLES
  \* the preflight
  created,      \* the space a POST of the home page created, its answer on the way
  visit,        \* the visit rendered last, 0 on the home page
  effectVisit,  \* the visit its effect last ran for: the others are cancelled
  address,      \* the space each visit asks for
  answers,      \* what came of its two fetches
  settled,      \* visits whose answers were looked at, or dropped
  queued,       \* accessState and serverUrl as the next render will find them
  overtaken,    \* history: answers were looked at or waited to be rendered
                \* while the address they are for was left
  accessState,
  serverUrl,
  effectOf,     \* the accessState the effects last ran for
  \* Space and its connections
  spaceUuid,    \* the uuid the Space object was made with
  stopped,      \* cleanup() was called, and init() not since
  link,         \* the open connection, 0 if none
  used,         \* connections made so far
  initReceived, \* Space._spaceInitReceived
  \* audio context and transport factory
  context,      \* AudioContext.state; "resuming" from the click on
  listening,    \* the page listens for a click
  resolver,     \* a spaceInit waits in audioContextResumeResolverRef
  selfStarted,  \* history: the context came to run without a click
  factory,      \* TransportFactory: "none", "loading", "ready", "failed"
  deferred,     \* connections whose offer waits for the factory
  \* producer transports and the microphone
  transport,    \* Member._transport of the client, by its connection
  producer,     \* Producer._mediasoupProducer of each transport
  sending,      \* the track each producer sends, 0 the silent one
  asks,         \* calls of getUserMedia that are open
  track,        \* userMediaTrack, 0 for null
  effectTrack,  \* the track its effect last ran for
  handlers      \* tracks a transportReady handler is to set

askVars     == <<created, visit, effectVisit, address, answers, settled, queued,
                 overtaken>>
stateVars   == <<accessState, serverUrl, effectOf, spaceUuid>>
linkVars    == <<stopped, link, used, initReceived>>
contextVars == <<context, listening, resolver, selfStarted>>
factoryVars == <<factory, deferred, transport, producer>>
trackVars   == <<sending, asks, track, effectTrack, handlers>>
pageVars    == <<askVars, stateVars, linkVars, contextVars, factoryVars, trackVars>>
vars        == <<preflightVars, pageVars>>

\* Both fetches are answered; one of them is not yet; one was rejected.
Answer == [read : {"missing", "open", "ended"}, join : Server \cup {Refused}]
Asked  == [read |-> "asked", join |-> None]
Failed == [read |-> "failed", join |-> None]

Verdicts == {"available", "ended", "missing", "error"}

AccessState == Verdicts \cup {"loading"}

\* The types; and a Space that was cleaned up has no connection, one without a
\* connection was not initialized by the server.
PageTypeOK ==
  /\ PreflightTypeOK
  /\ created \in Space \cup {None}
  /\ visit \in 0 .. MaxVisits /\ effectVisit \in 0 .. visit
  /\ settled \subseteq 1 .. effectVisit
  /\ address \in [Visit -> Space \cup {None}]
  /\ answers \in [Visit -> Answer \cup {Asked, Failed}]
  /\ queued \in [state : AccessState, url : Server \cup {None}]
  /\ overtaken \in BOOLEAN
  /\ accessState \in AccessState /\ effectOf \in AccessState
  /\ serverUrl \in Server \cup {None} /\ spaceUuid \in Space \cup {None}
  /\ stopped \in BOOLEAN /\ initReceived \in BOOLEAN
  /\ used \in 0 .. MaxConnections /\ link \in {0, used}
  /\ stopped => link = 0
  /\ initReceived => link # 0
  /\ context \in {"suspended", "resuming", "running"}
  /\ listening \in BOOLEAN /\ resolver \in BOOLEAN /\ selfStarted \in BOOLEAN
  /\ factory \in {"none", "loading", "ready", "failed"}
  /\ deferred \subseteq 1 .. used /\ transport \in 0 .. used
  /\ producer \in [Session -> {"none", "producing", "ready", "failed"}]
  /\ sending \in [Session -> Track \cup {0}]
  /\ asks \in 0 .. MaxVisits /\ track \in Track \cup {0}
  /\ effectTrack \in 0 .. track /\ handlers \subseteq Track

Init ==
  /\ PreflightInit
  /\ created = None /\ visit = 0 /\ effectVisit = 0 /\ settled = {}
  /\ address = [v \in Visit |-> None]
  /\ answers = [v \in Visit |-> Asked]
  /\ accessState = "loading" /\ effectOf = "loading"
  /\ serverUrl = None /\ spaceUuid = None
  /\ queued = [state |-> "loading", url |-> None] /\ overtaken = FALSE
  /\ stopped = TRUE /\ link = 0 /\ used = 0 /\ initReceived = FALSE
  /\ context = "suspended" /\ listening = TRUE /\ resolver = FALSE
  /\ selfStarted = FALSE
  /\ factory = "none" /\ deferred = {} /\ transport = 0
  /\ producer = [k \in Session |-> "none"]
  /\ sending = [k \in Session |-> 0]
  /\ asks = 0 /\ track = 0 /\ effectTrack = 0 /\ handlers = {}

\* React runs the effects of one render before the next.
EffectsDone ==
  effectVisit = visit /\ effectOf = accessState /\ effectTrack = track

\* What was set differs from what is rendered.
RenderDue == queued # [state |-> accessState, url |-> serverUrl]

-----------------------------------------------------------------------------
(***************************************************************************)
(* Home page and addresses                                                 *)
(***************************************************************************)

\* The form is submitted, and the POST creates a space nobody has visited.
CreateSubmit(sp) ==
  /\ visit = 0 /\ created = None
  /\ created' = sp
  /\ UNCHANGED <<preflightVars, visit, effectVisit, address, answers, settled,
                 queued, overtaken, stateVars, linkVars, contextVars, factoryVars,
                 trackVars>>

\* The page is rendered at an address; its effect has yet to run.
Visited(sp) ==
  /\ EffectsDone
  /\ visit < MaxVisits
  /\ visit' = visit + 1
  /\ address' = [address EXCEPT ![visit + 1] = sp]
  /\ created' = None
  /\ overtaken' = (overtaken \/ RenderDue)
  /\ UNCHANGED <<preflightVars, effectVisit, answers, settled, queued, stateVars,
                 linkVars, contextVars, factoryVars, trackVars>>

\* The POST is answered: navigate(), or an error that is only logged.
CreateAnswered ==
  /\ created # None
  /\ \/ Visited(created)
     \/ /\ created' = None
        /\ UNCHANGED <<preflightVars, visit, effectVisit, address, answers,
                       settled, queued, overtaken, stateVars, linkVars,
                       contextVars, factoryVars, trackVars>>

\* A link is opened, or the browser goes back or forward.
Navigate(sp) ==
  /\ created = None
  /\ visit > 0 => address[visit] # sp
  /\ Visited(sp)

(***************************************************************************)
(* The preflight: two fetches at once, about a space whose status may      *)
(* change in between                                                       *)
(***************************************************************************)

\* The effect of an address: the fetches of the one before are cancelled, and
\* its own are made.
FetchEffect ==
  /\ effectVisit # visit
  /\ effectVisit' = visit
  /\ UNCHANGED <<preflightVars, created, visit, address, answers, settled, queued,
                 overtaken, stateVars, linkVars, contextVars, factoryVars, trackVars>>

FetchesAnswered(v) ==
  /\ v <= effectVisit /\ answers[v] = Asked
  /\ \E before, after \in SpaceStatus, srv \in Server \cup {Refused} :
       /\ TryJoinSpace(after, srv)
       /\ answers' = [answers EXCEPT ![v] = [read |-> ReadSpace(before), join |-> srv]]
  /\ UNCHANGED <<created, visit, effectVisit, address, settled, queued, overtaken,
                 stateVars, linkVars, contextVars, factoryVars, trackVars>>

\* One is rejected, and Promise.all with it.
FetchFailed(v) ==
  /\ v <= effectVisit /\ answers[v] = Asked
  /\ answers' = [answers EXCEPT ![v] = Failed]
  /\ UNCHANGED <<preflightVars, created, visit, effectVisit, address, settled,
                 queued, overtaken, stateVars, linkVars, contextVars, factoryVars,
                 trackVars>>

\* What the checks on the answers of a visit come to.
Verdict(v) ==
  IF answers[v] = Failed THEN "error"
  ELSE IF answers[v].read # "open" THEN answers[v].read
  ELSE IF answers[v].join = Refused THEN "error" ELSE "available"

\* setServerUrl() and setAccessState().
TakeVerdict(v) ==
  queued' = [state |-> Verdict(v),
             url   |-> IF Verdict(v) = "available" THEN answers[v].join
                                                   ELSE queued.url]

\* Mutant: the answers of a cancelled visit are taken as well.
SettleLate(v) ==
  /\ v <= effectVisit /\ v \notin settled /\ answers[v] # Asked
  /\ settled' = settled \cup {v}
  /\ TakeVerdict(v)
  /\ overtaken' = (overtaken \/ (v = effectVisit /\ v # visit))
  /\ UNCHANGED <<preflightVars, created, visit, effectVisit, address, answers,
                 stateVars, linkVars, contextVars, factoryVars, trackVars>>

\* The answers are looked at, unless their visit was cancelled, which it was not
\* yet between the render of the next one and its effect.
Settle(v) ==
  /\ v <= effectVisit /\ v \notin settled /\ answers[v] # Asked
  /\ settled' = settled \cup {v}
  /\ IF v = effectVisit THEN TakeVerdict(v) ELSE UNCHANGED queued
  /\ overtaken' = (overtaken \/ (v = effectVisit /\ v # visit))
  /\ UNCHANGED <<preflightVars, created, visit, effectVisit, address, answers,
                 stateVars, linkVars, contextVars, factoryVars, trackVars>>

\* What was set is rendered, and useSpace() makes the Space object for the
\* present address once there is a server for it, unless there is one.
Render ==
  /\ RenderDue /\ EffectsDone
  /\ accessState' = queued.state /\ serverUrl' = queued.url
  /\ spaceUuid' = IF spaceUuid = None /\ queued.url # None
                    THEN address[visit] ELSE spaceUuid
  /\ UNCHANGED <<preflightVars, askVars, effectOf, linkVars, contextVars,
                 factoryVars, trackVars>>

-----------------------------------------------------------------------------
(***************************************************************************)
(* The Space object and its connections                                    *)
(***************************************************************************)

\* Mutant: the Space object is not cleaned up.
RunEffectsKeepSpace ==
  /\ effectOf # accessState
  /\ effectOf' = accessState
  /\ stopped' = (stopped /\ accessState # "available")
  /\ asks' = IF accessState = "available" THEN asks + 1 ELSE asks
  /\ UNCHANGED <<preflightVars, askVars, accessState, serverUrl, spaceUuid, link,
                 used, initReceived, contextVars, factoryVars, sending, track,
                 effectTrack, handlers>>

\* The effects of an accessState: leaving "available" cleans the Space object
\* up; coming to it starts it, again perhaps, and asks for the microphone.
RunEffects ==
  /\ effectOf # accessState
  /\ effectOf' = accessState
  /\ IF effectOf = "available"
       THEN stopped' = TRUE /\ link' = 0 /\ initReceived' = FALSE
       ELSE stopped' = (accessState # "available") /\ UNCHANGED <<link, initReceived>>
  /\ asks' = IF accessState = "available" THEN asks + 1 ELSE asks
  /\ UNCHANGED <<preflightVars, askVars, accessState, serverUrl, spaceUuid, used,
                 contextVars, factoryVars, sending, track, effectTrack, handlers>>

\* connect(), at once after init() and after every disconnect.
Connect ==
  /\ ~stopped /\ link = 0 /\ used < MaxConnections
  /\ used' = used + 1 /\ link' = used + 1
  /\ UNCHANGED <<preflightVars, askVars, stateVars, stopped, initReceived,
                 contextVars, factoryVars, trackVars>>

\* Mutant: the initialization is kept for the next connection.
DisconnectKeepsInit ==
  /\ link # 0
  /\ link' = 0
  /\ stopped' \in BOOLEAN
  /\ UNCHANGED <<preflightVars, askVars, stateVars, used, initReceived,
                 contextVars, factoryVars, trackVars>>

\* The connection breaks; or it is refused or the space closed, and cleanup()
\* lets none follow.
Disconnect ==
  /\ link # 0
  /\ link' = 0 /\ initReceived' = FALSE
  /\ stopped' \in BOOLEAN
  /\ UNCHANGED <<preflightVars, askVars, stateVars, used, contextVars,
                 factoryVars, trackVars>>

-----------------------------------------------------------------------------
(***************************************************************************)
(* The audio context and the transport factory                             *)
(***************************************************************************)

\* initTransportFactory(): a device that is loaded, or being loaded, is not
\* loaded again.
InitFactory ==
  factory' = IF factory \in {"none", "failed"} THEN "loading" ELSE factory

\* spaceInit arrives: the factory is initialized, now or when the context runs.
SpaceInit ==
  /\ link # 0 /\ ~initReceived
  /\ initReceived' = TRUE
  /\ IF context = "running" THEN InitFactory /\ UNCHANGED resolver
                            ELSE resolver' = TRUE /\ UNCHANGED factory
  /\ UNCHANGED <<preflightVars, askVars, stateVars, stopped, link, used, context,
                 listening, selfStarted, deferred, transport, producer, trackVars>>

\* The first click on the page, whatever the context's state.
Click ==
  /\ visit # 0 /\ listening
  /\ listening' = FALSE
  /\ context' = IF context = "suspended" THEN "resuming" ELSE context
  /\ UNCHANGED <<preflightVars, askVars, stateVars, linkVars, resolver,
                 selfStarted, factoryVars, trackVars>>

\* Mutant: nobody is told that the context runs.
ResumedQuietly ==
  /\ context = "resuming"
  /\ context' = "running"
  /\ UNCHANGED <<preflightVars, askVars, stateVars, linkVars, listening, resolver,
                 selfStarted, factoryVars, trackVars>>

\* resume() is done: what waits in the resolver goes on.
Resumed ==
  /\ context = "resuming"
  /\ context' = "running"
  /\ resolver' = FALSE
  /\ IF resolver THEN InitFactory ELSE UNCHANGED factory
  /\ UNCHANGED <<preflightVars, askVars, stateVars, linkVars, listening,
                 selfStarted, deferred, transport, producer, trackVars>>

\* The browser lets the context run by itself; nobody listens for that.
StartItself ==
  /\ visit # 0 /\ context = "suspended"
  /\ context' = "running" /\ selfStarted' = TRUE
  /\ UNCHANGED <<preflightVars, askVars, stateVars, linkVars, listening, resolver,
                 factoryVars, trackVars>>

\* createProducer() and assignTransport() for offers, the last one last.
CreateProducers(offers) ==
  /\ producer' = [k \in Session |->
                    IF k \in offers THEN "producing" ELSE producer[k]]
  /\ transport' = IF offers = {} THEN transport ELSE Max(offers)

\* The device is loaded, and the offers that waited are taken; or it is not.
FactoryLoaded ==
  /\ factory = "loading"
  /\ \/ /\ factory' = "ready"
        /\ CreateProducers(deferred)
        /\ deferred' = {}
     \/ /\ factory' = "failed"
        /\ UNCHANGED <<deferred, transport, producer>>
  /\ UNCHANGED <<preflightVars, askVars, stateVars, linkVars, contextVars, trackVars>>

\* transportParams for the client's own transport, once a connection.
TransportOffered ==
  /\ initReceived
  /\ link \notin deferred /\ producer[link] = "none"
  /\ IF factory = "ready"
       THEN CreateProducers({link}) /\ UNCHANGED deferred
       ELSE deferred' = deferred \cup {link} /\ UNCHANGED <<transport, producer>>
  /\ UNCHANGED <<preflightVars, askVars, stateVars, linkVars, contextVars, factory,
                 trackVars>>

-----------------------------------------------------------------------------
(***************************************************************************)
(* The microphone                                                          *)
(***************************************************************************)
IsReady(k) == k # 0 /\ producer[k] = "ready"

\* getUserMedia() is granted or denied.
MediaAnswered ==
  /\ EffectsDone
  /\ asks > 0
  /\ asks' = asks - 1
  /\ track' \in {track, track + 1}
  /\ UNCHANGED <<preflightVars, askVars, stateVars, linkVars, contextVars,
                 factoryVars, sending, effectTrack, handlers>>

\* Mutant: a transport that is not ready yet is not waited for.
TrackEffectOnce ==
  /\ effectTrack # track
  /\ effectTrack' = track
  /\ sending' = IF IsReady(transport) THEN [sending EXCEPT ![transport] = track]
                                      ELSE sending
  /\ UNCHANGED <<preflightVars, askVars, stateVars, linkVars, contextVars,
                 factoryVars, asks, track, handlers>>

\* The effect of a new track: it is sent now, or a handler waits for the next
\* transportReady.
TrackEffect ==
  /\ effectTrack # track
  /\ effectTrack' = track
  /\ IF IsReady(transport)
       THEN sending' = [sending EXCEPT ![transport] = track] /\ UNCHANGED handlers
       ELSE handlers' = handlers \cup {track} /\ UNCHANGED sending
  /\ UNCHANGED <<preflightVars, askVars, stateVars, linkVars, contextVars,
                 factoryVars, asks, track>>

\* A transport of any connection is ready, and transportReady is emitted: each
\* handler runs once, on the transport the member has now.
Produced(k) ==
  /\ producer[k] = "producing"
  /\ producer' = [producer EXCEPT ![k] = "ready"]
  /\ handlers' = {}
  /\ sending' = IF handlers # {} /\ (transport = k \/ IsReady(transport))
                  THEN [sending EXCEPT ![transport] = Max(handlers)]
                  ELSE sending
  /\ UNCHANGED <<preflightVars, askVars, stateVars, linkVars, contextVars, factory,
                 deferred, transport, asks, track, effectTrack>>

\* produce() is rejected, after a timeout for one.
ProduceFailed(k) ==
  /\ producer[k] = "producing"
  /\ producer' = [producer EXCEPT ![k] = "failed"]
  /\ UNCHANGED <<preflightVars, askVars, stateVars, linkVars, contextVars, factory,
                 deferred, transport, trackVars>>

-----------------------------------------------------------------------------
Next ==
  \/ PreflightNext /\ UNCHANGED pageVars
  \/ \E sp \in Space : CreateSubmit(sp) \/ Navigate(sp)
  \/ CreateAnswered \/ FetchEffect
  \/ \E v \in Visit : FetchesAnswered(v) \/ FetchFailed(v) \/ Settle(v)
  \/ Render \/ RunEffects \/ Connect \/ Disconnect
  \/ SpaceInit \/ Click \/ Resumed \/ StartItself
  \/ FactoryLoaded \/ TransportOffered
  \/ MediaAnswered \/ TrackEffect
  \/ \E k \in Session : Produced(k) \/ ProduceFailed(k)

Spec == Init /\ [][Next]_vars

-----------------------------------------------------------------------------
\* Once the fetches of the present visit are through, what the page is about to
\* show and where it would connect comes from them, however late or out of
\* order the answers to earlier visits are.
VerdictIsCurrent ==
  visit \in settled =>
    /\ queued.state = Verdict(visit)
    /\ queued.state = "available" => queued.url = answers[visit].join

\* The page connects to a space only if a preflight for that very space found
\* it joinable, also after the address has changed.  Excepted is a change of
\* address that overtakes answers: looked at before the effect that cancels
\* them, or rendered after it, they make the Space object for the new address.
ConnectsWhereCleared ==
  link # 0 /\ ~overtaken =>
    \E v \in settled : address[v] = spaceUuid /\ Verdict(v) = "available"

\* A page that was refused its present space leaves the one it was in: once
\* that is rendered and its effects have run there is no connection, and none
\* is made, not even by the retry after a broken one.
RefusedIsDisconnected ==
  visit \in settled /\ Verdict(visit) # "available" /\ ~RenderDue /\ EffectsDone
    => link = 0 /\ stopped

\* A context that runs, however click, resume and spaceInit interleave, has the
\* factory of a joined space initialized, unless it came to run without the
\* click; and the factory is never initialized on one that does not run.
FactoryFollowsContext ==
  /\ initReceived /\ context = "running" => factory # "none" \/ selfStarted
  /\ factory # "none" => context = "running"

\* No track waits for a transport that is ready already, and on the first
\* connection the microphone is what a ready transport sends, whichever of the
\* two came first.
TrackReachesTransport ==
  /\ handlers # {} => ~IsReady(transport)
  /\ used = 1 /\ IsReady(transport) /\ effectTrack # 0 =>
       sending[transport] = effectTrack

(***************************************************************************)
(* What a comment says and the code does not do.                           *)
(***************************************************************************)

\* On "transportReady": "Nothing to do right now; track will be set by another
\* useEffect".  A microphone that one transport sent is sent by the next, too.
MicrophoneIsSent ==
  IsReady(transport) /\ (\E k \in Session : track # 0 /\ sending[k] = track)
    => sending[transport] = track

=============================================================================
