# Twolk: TLA+ models of the prototype backend and its web client

Twolk is an audio conferencing service. Its backend prototype
(`src/backend/.prototype`) runs a coordinator, signaling servers and SFU workers
in one Node.js process, connected by an in-process message bus; the web client
(`src/web`) talks to a signaling server over Socket.IO and to a worker over
WebRTC. This directory holds TLA+ modules of the parts that coordinate, the TLC
configurations that check them on small instances, and proofs, checked by TLAPS,
that the central invariants hold for every instance. Paths below are relative to
`src/backend/.prototype` unless they start with `web/`.

## 1. The system

### Components, their state and their operations

| component | state | operations |
|---|---|---|
| `SpaceService` (space-service.ts) | spaces with status and primary router; two subscription maps | create, read, subscribe, unsubscribe requests; `applyTransition`; `notifyMemberLeft` |
| lifecycle policies (subscription-driven-policy.ts) | none | say which status a space should move to; may keep a `transition` callback |
| `RouterAllocator` | router records, connected workers | `allocate` (asks a worker, waits), `remove` |
| `MemberService` | members per space, a member's producer and consumer transports | add and remove member requests |
| `TransportAllocator` | transport records | `allocate` (asks a worker, waits, announces), `remove` |
| `SpaceUpdateDispatcher` | a transport's `connected` status | forwards connect, produce, consume, resume to the workers |
| `Coordinator`, `ChannelPreAllocator` | registered signaling servers, the counter of the round robin | registration; answers the join preflight with the next server |
| `SignalingServer` (server.ts) | mirror of spaces and members, registered channels | prepare and delete space and member, update member, pass on coordinator events |
| `MemberSession` | its member id | joins its client, forwards its requests, cleans up on close |
| `SfuWorker` (worker.ts) | routers, transports, producers, consumers, buffered consume requests | new router, new transport, transport updates |
| `InProcessBus` (bus.ts) | callbacks per queue | `publish` calls every consumer synchronously |
| HTTP server | – | create, read and try-join over HTTP |
| config, app | – | settings and process start |
| web `Space`, `SignalingSocketWrapper` | the client's copy of the space, connection status | handles events, reconnects |
| web `TransportFactory` | transports, pending handshakes | connect, produce, consume, resume with 5 s timeouts |
| web pages and hooks | verdict of the preflight, `Space` object, audio context, microphone track | two fetches per address; init and cleanup; the click that resumes the context; setting the track; rendering |

### How they interact

The space page asks over HTTP whether its space exists and which signaling server
to use, and connects there. A channel opens and `MemberSession.start()` publishes `subscribeToSpaceRequest`
(the coordinator may have to start the space, which needs a router from a
worker) and `addMemberRequest`; the member's producer transport and then the
consumer transports between it and everybody else are requested from the worker
in the background, and announced to the owning client over `spaceUpdateStream`.
The client connects, produces and consumes through session, dispatcher and
worker. When the channel closes the member is removed, the server unsubscribes
when its mirror is empty, and the policy ends a space nobody uses.

### What is hard about it

There is one thread and no broker, so a published message runs its consumer at
once and an `await` on a settled promise resumes before the next event. The
interleavings come from the calls that really wait: a worker creating a router or
a transport, the media process answering, a client's socket. Between such a call
and its answer anything may happen: another request for the same space, the end
of the space, a departure, a closed channel. None of the continuations looks
again at what it checked before the wait. `PROJECT.json` lists the hazards with
their lines.

### What makes each component correct

- **Space lifecycle**: a space runs exactly while it is used; a running space has
  a router recorded under it; a member never outlives its router; the two
  subscription maps agree.
- **Signaling**: what a client was told equals what its server's mirror holds;
  every registered channel is backed by the coordinator's member, subscription and
  running space; a server is subscribed exactly while it mirrors; a suspended
  join resumes with its own answer.
- **Transports**: any two members who stay get consumer transports in both
  directions; the index points at live transports for the right direction; what
  clients are told names the right source.
- **Worker**: each request is answered exactly once; no request is left behind a
  producer that exists; no consumer without a producer on its router.
- **Preflight**: joins take the registered servers in turn, also while servers come
  and go.
- **Page**: what it shows about a space comes from the fetches for that space; it
  connects only where a preflight cleared it, and leaves the space it was in when it
  is refused the next; the transport factory is initialized
  exactly when the audio context runs; the microphone reaches the transport,
  whichever is there first.

## 2. Modules

| module | models | abstract counterpart |
|---|---|---|
| `SpaceService` | space-service.ts, router-allocator.ts, the policies, membership of member-service.ts | – |
| `SignalingServer` | server.ts and member-session.ts, composed with `SpaceService` by `EXTENDS` | `Presence` |
| `Presence` | what the servers promise their clients | – |
| `TransportMesh` | transports in member-service.ts and transport-allocator.ts | – |
| `SfuWorker` | worker.ts | `ConsumeBuffer` |
| `ConsumeBuffer` | what a worker promises about consume requests | – |
| `MediaHandshake` | space-update-dispatcher.ts, the forwarding in member-session.ts, web/src/types/transport.ts, composed with `SfuWorker` by `EXTENDS` | – |
| `ClientSpace` | web/src/types/space.ts and signaling.socket.ts, the factory of transport.ts, the mute button of web/src/pages/SpacePage.tsx | – |
| `JoinPreflight` | coordinator.ts, channel-pre-allocator.ts, the round robin, the HTTP questions | – |
| `SpacePage` | web/src/pages/HomePage.tsx and SpacePage.tsx, web/src/hooks/useSpace.ts and what they use of `Space` and the factory, composed with `JoinPreflight` by `EXTENDS` | – |
| `MCSignalingServer`, `MCSpacePage` | symmetry sets for TLC | – |
| `SpaceServiceProofs`, `SignalingServerProofs`, `TransportMeshProofs`, `SfuWorkerProofs`, `MediaHandshakeProofs`, `ClientSpaceProofs`, `SpacePageProofs` | theorems about the module they are named after, `SpacePageProofs` also about `JoinPreflight` | – |
| `PresenceProofs` | that `SignalingServer` implements `Presence` | – |

`map` in `PROJECT.json` gives, for every definition, the lines it stands for.
Operators whose comment starts with *Mutant* are not part of a specification:
each is a plausible slip in the definition that follows it, kept to show that a
property notices.

**SpaceService.** One action is one bus request handled to its end, or one answer
of a worker with everything that resumes on it. A request that waits is a record
in `pending`, with the router it waits for and what continues
(`subscribe`, `transition` or `addMember`). Requests the code refuses are
stutters. Spaces in `Scheduled` have a policy that answers every hook with
`undefined` and calls its `transition` callback (as `FakePolicy` in `test-fakes`
does); the others have `SubscriptionDrivenPolicy`. Ids start at 1 and 0 stands
for "none", where the code counts from 0 and has `null`.

**SignalingServer.** A client opens one channel to any server, for any space.
`start()` is suspended only on the router of a space that has to be started
(`JoinStarting`, then `ResumeJoin` or `FailJoin`); otherwise it runs through in
one step (`JoinMirrored`, `JoinRunning`, `JoinRefused`). These actions conjoin
the coordinator's operations, so each is client, server and coordinator together.
`view` is what the events emitted on a channel add up to. `down` is the end of
the process by an unhandled rejection: the nack callbacks throw inside a promise
handler nobody awaits (server.ts:345).

**Presence.** A *place* is a space as one server shows it. Clients enter, leave and
change in single steps, and every listener of the place knows at once. Whoever
opens a place may find *strangers*, members of the same space on other servers,
whose departure nobody announces: that is the comment "Forward member leaves to
other signaling servers" (a TODO in server.ts) made into a specification, and what
`stale_mirror` runs into.

**TransportMesh.** One running space. A member has one producer transport, and a
consumer transport is requested when the producer transport of either end is
ready, so `[owner, source, by]` names a transport. `live` is
`TransportAllocator.transports`, `consumers` is `memberToConsumerMap`, `told` the
`transportParams` events. `ReplacePrimary` is the late router answer of
`SpaceService`.

**SfuWorker.** Each handler is cut at its media call; the request is then in
`inflight` and any other request may be handled before the answer. `acks` and
`nacks` count answers. Requests name transports by id. What the media process
does is external: every call is answered, with a success or a failure.

**MediaHandshake.** One speaker and one listener, and every request between
browser, session, dispatcher and worker. `Forward` is a session publishing a
browser's request: the dispatcher publishes it to the worker within the same
call, so the action conjoins one of `SfuWorker`'s. An answer of the worker is one
action with what the dispatcher and the session do on it. The channels in
between, `up` and `down`, keep order. `browser[t]` is what the browser transport
made from `t`'s parameters waits for; a request's kind and that transport stand
for its `cId`. `index` is the listener's one entry of `memberToConsumerMap` for
the speaker: `TransportMesh` shows that two transports may be made for a
direction, and then both browser transports are mapped to the later one. The
second connect request is then refused silently (space-update-dispatcher.ts:149)
and its browser times out, which is why several properties speak of the only
transport of its direction (`OnlyOne`). The speaker's own transport always is that,
however many the listener has.

**ClientSpace.** One browser and its server, which is `SignalingServer` reduced to
what this client can tell: room, mute states, and how far its session is. The
n-th connection makes the client member n; a broken connection is noticed by the
server some time later, so the client may find its own earlier self in the room,
and a connection that breaks within `start()` adds a member that was never
announced (the ghost of `ghost_member`). `Break` cuts what is on the wire at any
point. `deferred` and `transports` record the connection an offer came on, which
tells a stale transport from a fresh one. Pressing the mute button reads what the
page shows, so `shown` follows the notifications and not the state.

**JoinPreflight.** `servers` is the list of `ChannelPreAllocator`, `counter` the
round robin's, and `given` a history of the servers that joins were given since the
list last changed. The status of a space is a parameter of the two questions, since
`SpaceService` may change it between any two requests. The application registers
its server once and never deregisters; the port and the coordinator handle both,
so both are actions.

**SpacePage.** The page as a chain of visits, one per address. React renders some
time after a state was set and runs the effects of a render some time after that,
before the next render: `queued` is the state as set, `accessState` and `serverUrl`
the state as rendered (`Render`), `visit` the address as rendered (`Visited`), and
`FetchEffect`, `RunEffects` and `TrackEffect` are the effects, for which renders wait
(`EffectsDone`). `effectVisit` is the visit whose `[spaceUuid]` effect ran last: that
effect cancels the fetches of the visit before (SpacePage.tsx:88) and makes its own.
The two fetches of a visit are one action, answered about a status that may change in
between; `Settle` is the continuation behind `Promise.all`, which takes the answers
unless their visit is cancelled. Between the render of a new address and its effect
the old visit is not cancelled yet, so old answers are taken there, and the next
render makes the `Space` object, which takes its uuid from the address rendered
(useSpace.ts:21), for a space nobody cleared. The history variable `overtaken` records
that this may have happened. The `Space` object outlives the visit that made it.
The client's own producer transport is there once per connection; `handlers` are
the tracks a `transportReady` handler is to set. `selfStarted` records that the
browser let the audio context run without a click, which the page does not
notice.

## 3. Runs

| run | instance | shows |
|---|---|---|
| `space_lifecycle` | 2 servers, one subscription-driven and one scheduled space, 3 routers, 2 members | who uses a space, whether it runs and which router it has agree; `RouterOutlivesUsers` |
| `signaling` | 3 clients, 2 servers, 2 spaces, 3 routers, 3 members, symmetric | five invariants over coordinator, mirrors and clients; suspended joins find their answer; `SignalingServer` implements `Presence` |
| `mesh` | 2 members, 2 departures, 4 refusals, 2 routers | requested, indexed and announced transports fit together, departed members cannot be consumed, and the mesh of those who stay is completed |
| `worker` | 2 routers, 1 producer, 2 consumer transports | exactly-once answers, and `SfuWorker` implements `ConsumeBuffer` |
| `handshake` | 1 router, 1 producer transport, up to 2 consumer transports | ready transports carry media, no request or status goes astray, late answers complete nothing, a listener follows its speaker |
| `client` | 1 other member, 2 connections, 2 presses, 2 events per server turn | the browser's copy, its transports and its mute state against the server |
| `page` | 2 spaces, 2 visits, 2 connections, 2 servers, 2 joins, symmetric | verdicts, connections, factory and microphone of the page; joins are given the servers in turn |

The bounds, and why they are enough: two servers are needed for any disagreement
between mirrors, three clients for a server that has a local and a remote member
when a third joins; three routers let a space be started twice and once more
after it ended; two consumer
transports of one producer give a buffer of two and two routers a refusal. Two
members make every direction of a mesh once, with both ends free to leave before,
between and after its steps, and four refusals let every transport of one member
fail; a third member only adds pairs that do not touch each other's records, as
the proofs of `TransportMeshProofs` show for any number. In `page` a second visit
is what late answers of a first can disturb, and a second connection what a
microphone can be lost on. In
`handshake` the two consumer transports are the duplicates `TransportMesh` allows,
and the runs with one are among its behaviours. In `client` the second connection
meets the other member and the client's earlier self, so two members come and go
there, and two presses are the least that can overtake an echo.
`MaxRouters`, `MaxMembers`, `MaxFailures`, `MaxDepartures`, `Attempt`,
`MaxConnections`, `MaxToggles`, `MaxQueue`, `MaxPicks` and `MaxVisits` are the
bounds on ids, refusals, departures, repetitions, events under way, joins and
addresses; a model at its bound stops,
which is why the runs other than those of `SpaceService` do not check deadlock.
Symmetry is used only in runs that check no liveness.

Five runs end in a violation. Each states a sentence of the repository that the
code does not keep:

| run | property | what happens |
|---|---|---|
| `ended_is_final` | `EndedIsFinal` | two requests to start a space are under way at once, of two servers or of one; it runs, ends, and the second router's answer sets it running again |
| `ghost_member` | `ClosedChannelHasNoMember` | a channel closes while its join waits for the router; the join goes on and nothing removes the member |
| `stale_mirror` | `EmptyServerUnsubscribes` | the mirror keeps a member of another server, so its size never is 0 |
| `duplicate_transports` | `OneConsumerPerDirection` | two members join before either producer transport is ready; each direction is requested twice |
| `silent_microphone` | `MicrophoneIsSent` | the connection breaks after the microphone was sent; the transport of the next one sends silence |

The properties that hold are stated around these facts: `MembersAreRegistered`
speaks of registered channels, open or not, and `MeshIsRequested` of at least one
transport. Those of `ClientSpace` leave out four things the code does, named in
the hazards: members who left during a broken connection stay in view, a deferred
handler for a departed member stops the ones behind it, mute updates made without
a connection are lost or come late, and a microphone granted while muted is
enabled until the next press. `ConnectsWhereCleared` leaves out a change of address
that overtakes answers (`overtaken`): they were looked at between the render of the
new address and the effect that cancels them, or set before it and rendered after.
The code then connects to the new space without its own preflight having cleared it.
It is a narrow window (React runs the effects soon after the commit), the server
still refuses a space that cannot be joined, and no comment or test of the repository
speaks of it, so it is a hazard with a note and not a finding.

## 4. Fairness

- `SpaceService`: weak fairness of an answer per router id. A worker answers each
  `newRouterRequest` with ack or nack (worker.ts:131-141); a worker that dies ends
  the process (app.ts:76). Nothing obliges a client, a server or a policy to act. The
  properties of the module are safety and do not rest on it.
- `SignalingServer` states none and checks safety only: `WaitingMatchesPending`
  says that a suspended join has an unanswered request. That the worker answers it is
  the assumption above and is not claimed as a result.
- `TransportMesh`: an answer per transport requested, for the same reason.
- `SfuWorker`: an answer of the media process per call. No producer is obliged to
  appear, and `ConsumeBuffer` promises an answer only once it exists.
- `MediaHandshake`: channels deliver while they are open (Socket.IO runs over one
  ordered connection) and media calls are answered. Timers have no fairness: five
  seconds may be shorter or longer than anything else, so `ListenerFollows` allows
  for giving up.
- `ClientSpace`, `JoinPreflight` and `SpacePage` have none; their properties are
  safety. No browser is obliged to answer a prompt, click or stay connected.

## 5. Proofs

Each `...Proofs` module proves its theorems for any values of the constants, from
the named assumption of the module alone, by an inductive invariant and a step
with one case per action. `PROJECT.json` lists the theorems.

`SpaceServiceProofs`: the inductive invariant is `TypeOK /\ RouterInv /\ UseInv`.

- `RouterInv` says who holds which router. `RunningHasRouter` is not inductive
  alone: a late answer could hand a space a router that another space holds or
  that was removed, so it needs `PendingRouterIsPrivate` (the router of a pending
  request is recorded under its space, is nobody's primary, and has one request),
  which in turn needs `RouterIdsAreFresh`.
- `UseInv` says who uses which space. `RunningExactlyWhileInUse` needs the two
  subscription maps to agree, `UnstartedIsEmpty` for spaces that have not run, and
  `RequestFitsPolicy`, because a pending `addMember` or `transition` of a
  subscription-driven space would put a member into a space that is not running,
  or start one that nobody uses.

The step is split in the same way: `TypeStep`, `RouterStep` and `UseStep`, with
`AllocateEffect`, `EndSpaceEffect` and `EndIfIdleEffect` for the operators most
actions share. `RouterLifetime` proves the action property `RouterOutlivesUsers`
from the same invariant.

`SignalingServerProofs` proves every invariant of the `signaling` run. A join or a
departure changes coordinator, mirror, session and views in one step, so
`ServerInv` joins all of them and adds what they rest on: `IdsAreOwn` (a member id
is given to one client and never again), `MirroredHaveJoined` (a mirror holds only
members of its space, so mirrors of two spaces on one server share nobody and a
broadcast in one touches no view of the other), `PhasesFit`, `UsedIsRunning`, and
`WaitingIsPrivate` (the answer of a worker finds the client, server and space that
asked). The three ways to join are shown to be one (`Joins`), and `Joined` and
`Left` say point by point what a join and a departure do; `JoinStep`, `LeaveStep`
and `QuietStep` then keep the agreement, `JoinViews`, `LeaveViews` and
`UpdateViews` what clients know.

`TransportMeshProofs`: `MeshInv` is the type invariant with `MembersOnly` (only
members have transports requested), `MembersKeepRecords`, `AskedOnce` (while a
member's producer transport is pending, no consumer transport was asked for because of
it), `IndexIsSorted` (an entry of the index names a transport of its own owner and
source) and `EndedIsEmpty`. The four safety properties of `mesh` follow from it, each by a
step lemma of its own.

`SfuWorkerProofs`: `WorkerInv` is the type invariant with `UsedAreMade` (requests in
flight and consumers belong to transports that exist) and `BufferIsSorted` (a
buffered request is kept under its own source, between transports of one router):
the produce answer that empties a buffer then finds exactly the requests for its
producer, which keeps `NothingWaitsForProducer` and `ConsumersHaveProducers`. `ConsumeBufferSteps` proves the safety half
of the refinement: initial states of `SfuWorker` are initial states of
`ConsumeBuffer`, and every step is a step of it or a stutter.

`PresenceProofs`: `PresenceIsImplemented` is the whole refinement, since `Presence`
states no fairness. On top of `ServerInv` it needs `FlagsAreOwn` (a server sets the
state only of its own clients, so it shows a member of another server as it joined),
without which a client could know a state of a stranger that `Presence` does not
give it. A join, a departure and an update each
come out as one step `Enter`, `Leave` or `Change` of one place, with every listener
of that place told in the same step; the places of other spaces, and of the same
space on other servers, are shown not to move; all other steps are stutters. The
`signaling` run checks the same with three clients.

`MediaHandshakeProofs`: `HandshakeInv` holds browser, session, dispatcher and worker
together, and extends `WorkerInv`.

- `OneStepAtATime`: as long as a browser has not given up on a transport, there is
  at most one request for it, in the channel up, at the worker or answered in the
  channel down, and the worker acknowledged every step the browser has left behind.
  This is what makes late answers harmless (`AnswersMatchSteps`).
- `StatusFollowsWorker` (what the dispatcher calls connected, the worker has
  connected) is inductive only with `AcksHaveEffects`, what an ack of the worker did.
- `UsedAreAllocated`, `RequestsAreSorted` and `ParamsComeFirst` say which transport a
  request can be about: a transport is used after its parameters were sent, and a
  producer's requests are not a consumer's.
- `ProducesAfterConnect` carries `AnnouncedIsProducing`, and `NobodyWaitsInVain`
  carries `NoRequestIsDropped`.

`ClientSpaceProofs`: the events on the way lead the browser from where it is to where
its server is, and the invariant says so of each thing they carry.

- `WireInOrder`: each event on the wire fits the phase that the ones before it lead
  to, so a snapshot comes once in a connection and nothing comes after a disconnect.
- `CopyCatchesUp`: there is a chain of copies, one for after each event on the way,
  from the browser's present one to one that shows everybody in the room. An event the
  server emits adds a link at one end, an event the browser handles takes one off at
  the other, a connection that breaks cuts the chain: what the whole wire comes to
  needs no induction over it.
- `RoomInOrder` (nobody is in the room who is yet to be added, and who is yet to come
  is not muted) keeps the browser's earlier selves apart from its present one.
- `PressesArrive`: until the first snapshot is handled nobody can press the button;
  from then on, on the first connection, the last press is the last update on its way
  up, or the server holds it.
- `OffersArrive`: an offer of this connection is on its way, deferred, or made into a
  transport, and nothing on the way removes its member before it is handled.

Where an argument goes along the wire to the first event of a kind, it takes the least
position, which the library's well-founded order of the naturals provides.

`SpacePageProofs`: `PageInv` joins the types and five parts, each kept by a step lemma
of its own. `SettledStays` (a settled visit has been answered, and is not answered
again) makes `VerdictIsCurrent` inductive. `MadeWhereCleared` says that, unless answers
were overtaken, the `Space` object was made for the address of a visit that cleared it,
and that while its render is due the present address is such a one; it exists before
the page says "available" and before the effects start it: `ConnectsWhereCleared`
follows, and with `VerdictIsCurrent` also `RefusedIsDisconnected`.
`WaitingIsResolved` (an initialization that came before the context runs has a
resolver) carries `FactoryFollowsContext`. `TrackIsAwaited` (on the first connection
a track that no ready transport sends has a handler) carries
`TrackReachesTransport`. The types need a count, `AsksFollowVisits`: calls of
`getUserMedia`, tracks, an effect that is due and a render that will make one due are
together no more than the visits settled so far. `GivenInTurn` says of the joins since
the list last changed that they had the servers of the counter's last values, in order;
as fewer calls apart than there are servers the remainders differ
(`RemaindersDiffer`) and no server is in the list twice, `JoinsTakeTurns` follows.

The types of `SpaceService`, `TransportMesh` and `SfuWorker`, and
`SubscriptionMapsAgree` and `RequestFitsPolicy`, are proved and no longer checked
by a run of their own.

Every invariant that a passing run checks, and the action property
`RouterOutlivesUsers`, is a theorem. Only model-checked is liveness, which is out of
the prover's reach together with fairness and `ENABLED`: `MeshIsCompleted`,
`ListenerFollows` and the fairness of `ConsumeBuffer`. The five sentences that the
code does not keep (section 3) are refuted by TLC.

## 6. Not modelled, and what is left

Not modelled: contents of names and media parameters; Socket.IO, HTTP and
mediasoup themselves, with the adapters that only translate to them
(client-channel-socketio.ts, media-mediasoup.ts); configuration (config.ts,
config.yaml) and process start (app.ts), which are sequential; rendering, the audio
analyzers, the archive page and the placeholders of the home page;
`producerToConsumersSet`, which nothing reads; the wrap of the id counters at
2^53 - 1; media workers that come and go, and two signaling servers with one id,
which the code leaves to a TODO and the application never lets happen. In
`SpacePage`: the second run of every effect under React's StrictMode, a body of an
answer that cannot be parsed (it ends like a rejected fetch), and leaving the home
page while its POST is on its way.

What could follow, in this order:

1. The end of a space under a running handshake, and a second space in
   `MediaHandshake`.
2. The connect request of a transport made from an old offer in `ClientSpace`, which
   may reach the worker before that of the new one.
