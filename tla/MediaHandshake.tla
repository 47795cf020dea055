--------------------------- MODULE MediaHandshake ---------------------------
(***************************************************************************)
(* How one member comes to hear another: the Speaker's browser connects    *)
(* and produces on its producer transport, the Listener's browser          *)
(* consumes, connects and resumes on its consumer transports for the       *)
(* Speaker, each request going from browser to MemberSession, through      *)
(* SpaceUpdateDispatcher, to the worker of SfuWorker, and its answer back. *)
(*                                                                         *)
(* A browser's transport is named after the worker transport whose         *)
(* parameters it was created from.  A browser has one request of a kind    *)
(* per transport, so the kind and the transport stand for the cId, and a   *)
(* worker request's n is the browser transport that asked.                 *)
(*                                                                         *)
(* A member that leaves closes its channel for good.                       *)
(***************************************************************************)
EXTENDS SfuWorker, Sequences

CONSTANTS
  Speaker,  \* the member whose media flows
  Listener, \* the member who is to receive it
  Mic       \* the Speaker's producer transport

ASSUME HandshakeAssumption ==
  /\ Sender = {Mic}
  /\ Attempt = Transport
  /\ Speaker # Listener

Member == {Speaker, Listener}
Owner(t) == IF t = Mic THEN Speaker ELSE Listener

Kind == {"connect", "produce", "consume", "resume"}
Message == [kind : Kind \cup {"params"}, t : Transport]
Msg(kind, t) == [kind |-> kind, t |-> t]

VARIABLES
  members,   \* Space.members, and members whose channel is registered
  status,    \* Transport.status in the coordinator
  index,     \* the Listener's memberToConsumerMap entry for the Speaker
  browser,   \* what each browser transport waits for, or how that ended
  up,        \* requests on the way from each browser
  down,      \* events and answers on the way to each browser
  announced  \* the Speaker's transportIsConnected in the server's mirror

serverVars == <<members, status, index, announced>>
clientVars == <<browser, up, down>>
handshakeVars == <<serverVars, clientVars>>
allVars == <<vars, handshakeVars>>

HandshakeTypeOK ==
  /\ TypeOK
  /\ members \subseteq Member
  /\ status \in [Transport -> {"unallocated", "allocated", "connected"}]
  /\ index \in Receiver \cup {None}
  /\ browser \in [Transport -> Kind \cup {"none", "ready", "failed"}]
  /\ \A m \in Member : \A wire \in {up[m], down[m]} :
       \A i \in DOMAIN wire : wire[i] \in Message /\ Owner(wire[i].t) = m
  /\ announced \in BOOLEAN

HandshakeInit ==
  /\ Init
  /\ members = {}
  /\ status = [t \in Transport |-> "unallocated"]
  /\ index = None
  /\ browser = [t \in Transport |-> "none"]
  /\ up = [m \in Member |-> <<>>]
  /\ down = [m \in Member |-> <<>>]
  /\ announced = FALSE

-----------------------------------------------------------------------------
(***************************************************************************)
(* The coordinator requests transports and hears of them.                  *)
(***************************************************************************)

\* What is put on the channel of a member that left is lost.
Post(wire, msg) ==
  IF Owner(msg.t) \in members
    THEN [wire EXCEPT ![Owner(msg.t)] = Append(@, msg)]
    ELSE wire

\* onAddMemberRequest: the Speaker's producer transport is requested.
Join(m, r) ==
  /\ m \notin members
  /\ \A t \in Transport : Owner(t) = m => browser[t] = "none"
  /\ routerState[r] = "ready"
  /\ members' = members \cup {m}
  /\ IF m = Speaker THEN NewTransport(Mic, r) ELSE UNCHANGED vars
  /\ UNCHANGED <<status, index, announced, clientVars>>

\* Both members are in the space; before the Speaker's transport is ready only
\* the Listener's own arrival asks for a consumer transport.
RequestConsumer(t, r) ==
  /\ members = Member
  /\ \/ status[Mic] # "unallocated"
     \/ \A u \in Receiver : transportState[u] = "none"
  /\ NewTransport(t, r)
  /\ UNCHANGED handshakeVars

\* Mutant: the transport is entered in the index whatever it is for.
ReadyIndexesAny(t) ==
  /\ TransportAnswer(t)
  /\ transportState'[t] = "ready"
  /\ status' = [status EXCEPT ![t] = "allocated"]
  /\ index' = t
  /\ down' = Post(down, Msg("params", t))
  /\ UNCHANGED <<members, announced, browser, up>>

\* The index entry and the event need the record of the Speaker's transport,
\* which goes with the Speaker.
TransportReady(t) ==
  /\ TransportAnswer(t)
  /\ transportState'[t] = "ready"
  /\ status' = [status EXCEPT ![t] = "allocated"]
  /\ IF Speaker \in members
       THEN /\ index' = IF t = Mic THEN index ELSE t
            /\ down' = Post(down, Msg("params", t))
       ELSE UNCHANGED <<index, down>>
  /\ UNCHANGED <<members, announced, browser, up>>

TransportRefused(t) ==
  /\ TransportAnswer(t)
  /\ transportState'[t] = "failed"
  /\ UNCHANGED handshakeVars

-----------------------------------------------------------------------------
(***************************************************************************)
(* MemberSession forwards a request and SpaceUpdateDispatcher publishes it *)
(* to the worker, which handles it at once.                                *)
(***************************************************************************)

\* The consumer transport of a request is found under the source member.
WorkerRequest(msg) ==
  [kind   |-> msg.kind,
   id     |-> IF msg.t = Mic THEN Mic ELSE index,
   source |-> IF msg.kind = "consume" THEN Mic ELSE None,
   n      |-> msg.t]

\* Mutant: consume and resume wait for the recorded status to be "connected".
DispatchedIfConnected(q) ==
  /\ q.id # None
  /\ q.kind \in {"consume", "resume"} => status[q.id] = "connected"
  /\ q.kind = "connect" => status[q.id] = "allocated"

\* A transport that is connected is not connected again; the Speaker must be
\* there to be consumed.
Dispatched(q) ==
  /\ q.id # None
  /\ status[q.id] # "unallocated"
  /\ q.kind = "connect" => status[q.id] # "connected"
  /\ q.kind = "consume" => Speaker \in members

WorkerHandles(q) ==
  \/ OnConnectOrProduce(q)
  \/ OnConsumeRefused(q)
  \/ OnConsumeNow(q)
  \/ OnConsumeBuffered(q)
  \/ OnResume(q)

\* A nack is logged by the session and not passed on.
Forward(m) ==
  /\ up[m] # <<>>
  /\ up' = [up EXCEPT ![m] = Tail(@)]
  /\ LET q == WorkerRequest(Head(up[m])) IN
       IF Dispatched(q) THEN WorkerHandles(q) ELSE UNCHANGED vars
  /\ UNCHANGED <<serverVars, browser, down>>

-----------------------------------------------------------------------------
(***************************************************************************)
(* The worker's answer goes back to the browser that asked.                *)
(***************************************************************************)

\* Mutant: the answer names the worker's transport and not the cId.
ReplyToTransport(q) == down' = Post(down, Msg(q.kind, q.id))

Reply(q) == down' = Post(down, Msg(q.kind, q.n))

\* Mutant: the status of the asking browser's own transport is set.
ConnectAnsweredForAsker(q) ==
  /\ q.kind = "connect"
  /\ ConnectOrResumeDone(q)
  /\ status' = [status EXCEPT ![q.n] = "connected"]
  /\ Reply(q)
  /\ UNCHANGED <<members, index, announced, browser, up>>

\* Mutant: transportIsConnected is announced as soon as the transport connects.
ConnectAnswerAnnounces(q) ==
  /\ q.kind = "connect"
  /\ ConnectOrResumeDone(q)
  /\ status' = [status EXCEPT ![q.id] = "connected"]
  /\ Reply(q)
  /\ announced' = (announced \/ q.id = Mic)
  /\ UNCHANGED <<members, index, browser, up>>

ConnectAnswered(q) ==
  /\ q.kind = "connect"
  /\ ConnectOrResumeDone(q)
  /\ status' = [status EXCEPT ![q.id] = "connected"]
  /\ Reply(q)
  /\ UNCHANGED <<members, index, announced, browser, up>>

\* The ack, then the producerConnected event to the Speaker's server.
ProduceAnswered(q) ==
  /\ ProduceDone(q)
  /\ Reply(q)
  /\ announced' = (announced \/ Speaker \in members)
  /\ UNCHANGED <<members, status, index, browser, up>>

ConsumeOrResumeAnswered(q) ==
  /\ \/ ConsumeDone(q)
     \/ q.kind = "resume" /\ ConnectOrResumeDone(q)
  /\ Reply(q)
  /\ UNCHANGED <<serverVars, browser, up>>

RequestFailed(q) ==
  /\ MediaFailed(q)
  /\ UNCHANGED handshakeVars

Answered(q) ==
  \/ ConnectAnswered(q)
  \/ ProduceAnswered(q)
  \/ ConsumeOrResumeAnswered(q)
  \/ RequestFailed(q)

-----------------------------------------------------------------------------
(***************************************************************************)
(* The browser: TransportFactory                                           *)
(***************************************************************************)
Ask(t, kind) ==
  /\ browser' = [browser EXCEPT ![t] = kind]
  /\ up' = Post(up, Msg(kind, t))

\* createProducer and createConsumer: a consumer transport consumes first.
Create(t) == Ask(t, IF t = Mic THEN "connect" ELSE "consume")

\* Mutant: a consumer transport is ready without being resumed.
StepAfterWithoutResume(kind, t) ==
  IF t = Mic THEN [connect |-> "produce", produce |-> "ready"][kind]
  ELSE [consume |-> "connect", connect |-> "ready"][kind]

StepAfter(kind, t) ==
  IF t = Mic THEN [connect |-> "produce", produce |-> "ready"][kind]
  ELSE [consume |-> "connect", connect |-> "resume", resume |-> "ready"][kind]

\* An answer that the browser no longer waits for is dropped.
OnAnswer(kind, t) ==
  IF browser[t] # kind THEN UNCHANGED <<browser, up>>
  ELSE IF StepAfter(kind, t) = "ready"
    THEN browser' = [browser EXCEPT ![t] = "ready"] /\ UNCHANGED up
    ELSE Ask(t, StepAfter(kind, t))

ClientReceives(m) ==
  /\ down[m] # <<>>
  /\ down' = [down EXCEPT ![m] = Tail(@)]
  /\ LET msg == Head(down[m]) IN
       IF msg.kind = "params" THEN Create(msg.t) ELSE OnAnswer(msg.kind, msg.t)
  /\ UNCHANGED <<vars, serverVars>>

\* Five seconds without an answer: the transport is given up.
Timeout(t) ==
  /\ browser[t] \in Kind
  /\ browser' = [browser EXCEPT ![t] = "failed"]
  /\ UNCHANGED <<vars, serverVars, up, down>>

\* The channel closes and onRemoveMemberRequest follows; the worker is not told.
Leave(m) ==
  /\ m \in members
  /\ members' = members \ {m}
  /\ browser' = [t \in Transport |-> IF Owner(t) = m THEN "failed" ELSE browser[t]]
  /\ up' = [up EXCEPT ![m] = <<>>]
  /\ down' = [down EXCEPT ![m] = <<>>]
  /\ UNCHANGED <<vars, status, index, announced>>

HandshakeNext ==
  \/ \E r \in Router :
       /\ NewRouter(r) \/ RouterAnswer(r)
       /\ UNCHANGED handshakeVars
  \/ \E r \in Router, m \in Member : Join(m, r)
  \/ \E r \in Router, t \in Receiver : RequestConsumer(t, r)
  \/ \E t \in Transport :
       \/ TransportReady(t)
       \/ TransportRefused(t)
       \/ Timeout(t)
  \/ \E m \in Member : Forward(m) \/ ClientReceives(m) \/ Leave(m)
  \/ \E q \in Request : Answered(q)

\* Channels deliver while they are open, and the media process answers; no
\* timer is obliged to be slower.
HandshakeFairness ==
  /\ \A m \in Member : WF_allVars(Forward(m)) /\ WF_allVars(ClientReceives(m))
  /\ \A q \in Request : WF_allVars(Answered(q))

HandshakeSpec == HandshakeInit /\ [][HandshakeNext]_allVars /\ HandshakeFairness

-----------------------------------------------------------------------------
Carried(wire, msg) == \E i \in DOMAIN wire : wire[i] = msg
AskedBy(t, kind) == {q \in sent : q.kind = kind /\ q.n = t}

\* The transport is the only one of its direction, as the Speaker's always is;
\* TransportMesh may ask for two consumer transports of one, and the
\* coordinator's index then has the later one only.
OnlyOne(t) == t = Mic \/ \A u \in Receiver : transportState[u] # "none" => u = t

\* The Speaker was gone when its media was asked for, or the worker nacked.
Refused(t) ==
  \/ browser[t] = "consume" /\ Speaker \notin members
  \/ \E q \in AskedBy(t, browser[t]) : nacks[q] > 0

\* The request a browser waits for is on its way, taken on by the worker, or
\* answered, unless it was refused.
RequestIsAlive(t) ==
  LET msg == Msg(browser[t], t) IN
  \/ Carried(up[Owner(t)], msg)
  \/ \E q \in AskedBy(t, browser[t]) : q \in inflight \/ Buffered(q)
  \/ Carried(down[Owner(t)], msg)
  \/ Refused(t)

\* The worker did what a browser needs for the transport, on the worker
\* transport it was created for and with this browser's parameters.
Flowing(t) ==
  /\ \A kind \in (IF t = Mic THEN {"connect", "produce"}
                             ELSE {"consume", "connect", "resume"}) :
       \E q \in AskedBy(t, kind) : q.id = t /\ acks[q] = 1
  /\ Mic \in producers
  /\ t # Mic => consumers[t] = Mic

\* A transport that is ready in a browser carries media, if it is the only one
\* of its direction: connected with this browser's parameters, and the producer
\* exists, or the consumer was made and resumed, all at this browser's request.
ReadyMeansFlowing ==
  \A t \in Transport : browser[t] = "ready" /\ OnlyOne(t) => Flowing(t)

\* Nobody between browser and media process loses a request for the only
\* transport of its direction without a nack.
NoRequestIsDropped ==
  \A t \in Transport : browser[t] \in Kind /\ OnlyOne(t) => RequestIsAlive(t)

\* The coordinator records a transport as connected exactly when the worker has
\* connected it, whatever became of the browser that asked.
StatusFollowsWorker ==
  \A t \in Transport :
    status[t] = "connected" <=> \E q \in Connects : q.id = t /\ acks[q] > 0

\* transportIsConnected, as other members see it, is true only of a producer
\* transport that is connected and produces, and of every one that does while
\* its member is there.
AnnouncedIsProducing ==
  /\ announced => Mic \in producers /\ status[Mic] = "connected"
  /\ Mic \in producers /\ Speaker \in members => announced

\* An answer on the way is the one its transport waits for, or comes too late
\* for a transport that was given up; it never completes another step.
AnswersMatchSteps ==
  \A m \in Member : \A i \in DOMAIN down[m] :
    LET msg == down[m][i] IN
    IF msg.kind = "params" THEN browser[msg.t] = "none"
                           ELSE browser[msg.t] \in {msg.kind, "failed"}

\* Once the Speaker produces, a Listener that waits on its only transport for
\* the Speaker becomes ready, unless it gives up, is refused or somebody leaves.
ListenerFollows ==
  \A t \in Receiver :
    (browser[Mic] = "ready" /\ browser[t] \in Kind)
      ~> \/ browser[t] \in {"ready", "failed"} \/ Refused(t)
         \/ members # Member \/ ~OnlyOne(t)

=============================================================================
