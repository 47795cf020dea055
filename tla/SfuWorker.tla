----------------------------- MODULE SfuWorker -----------------------------
(***************************************************************************)
(* One SFU worker: its routers, transports, producers and consumers, and   *)
(* the consume requests it buffers until their producer exists.            *)
(*                                                                         *)
(* Every media call is an await on the media process.  A handler runs to   *)
(* that call, its request is then in `inflight', and the rest of it runs   *)
(* when the process answers; other requests are handled in between.        *)
(*                                                                         *)
(* A transport is named by its assignedId.  Requests for a router or a     *)
(* transport the worker does not have are another worker's and skipped.    *)
(***************************************************************************)
EXTENDS Naturals, FiniteSets

CONSTANTS
  Router,     \* router ids assigned to this worker
  Sender,     \* ids of producer transports
  Receiver,   \* ids of consumer transports
  Attempt,    \* bound: how often the coordinator sends the same update
  None

Transport == Sender \cup Receiver

ASSUME WorkerAssumption ==
  /\ Sender \cap Receiver = {}
  /\ None \notin Router \cup Transport

(***************************************************************************)
(* The transportUpdateStream requests.  `source' is producingTransportId   *)
(* of a consume request.                                                   *)
(***************************************************************************)
Connects == [kind : {"connect"}, id : Transport, source : {None}, n : Attempt]
Produces == [kind : {"produce"}, id : Sender, source : {None}, n : Attempt]
Consumes == [kind : {"consume"}, id : Receiver, source : Sender, n : Attempt]
Resumes  == [kind : {"resume"}, id : Receiver, source : {None}, n : Attempt]
Request  == Connects \cup Produces \cup Consumes \cup Resumes

VARIABLES
  routerState,     \* newRouterRequest: "none", "creating", "ready", "failed"
  transportState,  \* newWebRtcTransportRequest: likewise
  on,              \* the router of a transport, None before its request
  producers,       \* transports with an entry in webRtcProducers
  consumers,       \* webRtcConsumers: the source of each consumer, or None
  pendingConsumes, \* buffered requests of each producing transport
  sent,            \* requests received
  inflight,        \* requests waiting for the media process
  acks,            \* how often each request was acked
  nacks            \* how often each request was nacked

mediaVars   == <<routerState, transportState, on>>
resultVars  == <<producers, consumers>>
requestVars == <<pendingConsumes, sent, inflight, acks, nacks>>
vars        == <<mediaVars, resultVars, requestVars>>

Stage == {"none", "creating", "ready", "failed"}

TypeOK ==
  /\ routerState \in [Router -> Stage]
  /\ transportState \in [Transport -> Stage]
  /\ on \in [Transport -> Router \cup {None}]
  /\ producers \subseteq Sender
  /\ consumers \in [Receiver -> Sender \cup {None}]
  /\ pendingConsumes \in [Sender -> SUBSET Consumes]
  /\ sent \subseteq Request /\ inflight \subseteq Request
  /\ acks \in [Request -> Nat] /\ nacks \in [Request -> Nat]

Init ==
  /\ routerState = [r \in Router |-> "none"]
  /\ transportState = [t \in Transport |-> "none"]
  /\ on = [t \in Transport |-> None]
  /\ producers = {}
  /\ consumers = [t \in Receiver |-> None]
  /\ pendingConsumes = [t \in Sender |-> {}]
  /\ sent = {} /\ inflight = {}
  /\ acks = [q \in Request |-> 0] /\ nacks = [q \in Request |-> 0]

-----------------------------------------------------------------------------
(***************************************************************************)
(* newRouterRequest and newWebRtcTransportRequest                          *)
(***************************************************************************)
NewRouter(r) ==
  /\ routerState[r] = "none"
  /\ routerState' = [routerState EXCEPT ![r] = "creating"]
  /\ UNCHANGED <<transportState, on, resultVars, requestVars>>

RouterAnswer(r) ==
  /\ routerState[r] = "creating"
  /\ \E s \in {"ready", "failed"} : routerState' = [routerState EXCEPT ![r] = s]
  /\ UNCHANGED <<transportState, on, resultVars, requestVars>>

NewTransport(t, r) ==
  /\ routerState[r] = "ready"
  /\ transportState[t] = "none"
  /\ transportState' = [transportState EXCEPT ![t] = "creating"]
  /\ on' = [on EXCEPT ![t] = r]
  /\ UNCHANGED <<routerState, resultVars, requestVars>>

TransportAnswer(t) ==
  /\ transportState[t] = "creating"
  /\ \E s \in {"ready", "failed"} :
       transportState' = [transportState EXCEPT ![t] = s]
  /\ UNCHANGED <<routerState, on, resultVars, requestVars>>

-----------------------------------------------------------------------------
(***************************************************************************)
(* transportUpdateStream: a request of a transport this worker has.        *)
(***************************************************************************)
Receive(q) ==
  /\ q \notin sent
  /\ transportState[q.id] = "ready"
  /\ sent' = sent \cup {q}
  /\ UNCHANGED <<mediaVars, resultVars>>

StartMedia(q) ==
  /\ inflight' = inflight \cup {q}
  /\ UNCHANGED <<pendingConsumes, acks, nacks>>

Refuse(q) ==
  /\ nacks' = [nacks EXCEPT ![q] = @ + 1]
  /\ UNCHANGED <<pendingConsumes, inflight, acks>>

OnConnectOrProduce(q) ==
  /\ q \in Connects \cup Produces
  /\ Receive(q)
  /\ StartMedia(q)

\* Mutant: any transport of the worker will do, of whatever router.
ConsumableAcrossRouters(q) == transportState[q.source] = "ready"

Consumable(q) ==
  transportState[q.source] = "ready" /\ on[q.source] = on[q.id]

OnConsumeRefused(q) ==
  /\ q \in Consumes
  /\ Receive(q)
  /\ ~Consumable(q)
  /\ Refuse(q)

\* Mutant: the consume call is made whether there is a producer or not.
ConsumeUnproduced(q) ==
  /\ q \in Consumes
  /\ Receive(q)
  /\ Consumable(q)
  /\ StartMedia(q)

OnConsumeNow(q) ==
  /\ q \in Consumes
  /\ Receive(q)
  /\ Consumable(q)
  /\ q.source \in producers
  /\ StartMedia(q)

\* Mutant: every consume request is buffered.
BufferProduced(q) ==
  /\ q \in Consumes
  /\ Receive(q)
  /\ Consumable(q)
  /\ pendingConsumes' = [pendingConsumes EXCEPT ![q.source] = @ \cup {q}]
  /\ UNCHANGED <<inflight, acks, nacks>>

OnConsumeBuffered(q) ==
  /\ q \in Consumes
  /\ Receive(q)
  /\ Consumable(q)
  /\ q.source \notin producers
  /\ pendingConsumes' = [pendingConsumes EXCEPT ![q.source] = @ \cup {q}]
  /\ UNCHANGED <<inflight, acks, nacks>>

OnResume(q) ==
  /\ q \in Resumes
  /\ Receive(q)
  /\ IF consumers[q.id] = None THEN Refuse(q) ELSE StartMedia(q)

-----------------------------------------------------------------------------
(***************************************************************************)
(* The media process answers.                                              *)
(***************************************************************************)
Ack(q) ==
  /\ acks' = [acks EXCEPT ![q] = @ + 1]
  /\ UNCHANGED <<nacks, sent, mediaVars>>

Done(q) ==
  /\ q \in inflight
  /\ inflight' = inflight \ {q}
  /\ UNCHANGED pendingConsumes
  /\ Ack(q)

ConnectOrResumeDone(q) ==
  /\ q \in Connects \cup Resumes
  /\ Done(q)
  /\ UNCHANGED resultVars

\* Mutant: the buffer is worked off and not emptied.
ProduceKeepsBuffer(q) ==
  /\ q \in Produces \cap inflight
  /\ producers' = producers \cup {q.id}
  /\ inflight' = (inflight \ {q}) \cup pendingConsumes[q.id]
  /\ UNCHANGED pendingConsumes
  /\ Ack(q)
  /\ UNCHANGED consumers

\* Mutant: the buffer is emptied and not worked off.
ProduceDropsBuffer(q) ==
  /\ q \in Produces \cap inflight
  /\ producers' = producers \cup {q.id}
  /\ inflight' = inflight \ {q}
  /\ pendingConsumes' = [pendingConsumes EXCEPT ![q.id] = {}]
  /\ Ack(q)
  /\ UNCHANGED consumers

\* The producer exists: ack, and start the consume calls that waited for it.
ProduceDone(q) ==
  /\ q \in Produces \cap inflight
  /\ producers' = producers \cup {q.id}
  /\ inflight' = (inflight \ {q}) \cup pendingConsumes[q.id]
  /\ pendingConsumes' = [pendingConsumes EXCEPT ![q.id] = {}]
  /\ Ack(q)
  /\ UNCHANGED consumers

ConsumeDone(q) ==
  /\ q \in Consumes
  /\ Done(q)
  /\ consumers' = [consumers EXCEPT ![q.id] = q.source]
  /\ UNCHANGED producers

MediaFailed(q) ==
  /\ q \in inflight
  /\ inflight' = inflight \ {q}
  /\ nacks' = [nacks EXCEPT ![q] = @ + 1]
  /\ UNCHANGED <<mediaVars, resultVars, pendingConsumes, sent, acks>>

MediaAnswer(q) ==
  \/ ConnectOrResumeDone(q)
  \/ ProduceDone(q)
  \/ ConsumeDone(q)
  \/ MediaFailed(q)

Next ==
  \/ \E r \in Router : NewRouter(r) \/ RouterAnswer(r)
  \/ \E t \in Transport :
       \/ TransportAnswer(t)
       \/ \E r \in Router : NewTransport(t, r)
  \/ \E q \in Request :
       \/ OnConnectOrProduce(q)
       \/ OnConsumeRefused(q)
       \/ OnConsumeNow(q)
       \/ OnConsumeBuffered(q)
       \/ OnResume(q)
       \/ MediaAnswer(q)

\* The media process answers every call it was given.
Fairness == \A q \in Request : WF_vars(MediaAnswer(q))

Spec == Init /\ [][Next]_vars /\ Fairness

-----------------------------------------------------------------------------
(***************************************************************************)
(* Safety                                                                  *)
(***************************************************************************)
Buffered(q) == q \in Consumes /\ q \in pendingConsumes[q.source]

\* A request the worker took on is waiting for the media process, buffered, or
\* answered, exactly one of these and answered only once: flushing a buffer
\* against new consume and produce requests neither loses nor repeats one.
EachRequestIsAnsweredOnce ==
  \A q \in Request :
    LET answers == acks[q] + nacks[q] IN
    /\ q \notin sent => answers = 0 /\ q \notin inflight /\ ~Buffered(q)
    /\ q \in sent =>
         \/ answers = 0 /\ q \in inflight /\ ~Buffered(q)
         \/ answers = 0 /\ q \notin inflight /\ Buffered(q)
         \/ answers = 1 /\ q \notin inflight /\ ~Buffered(q)

\* Nothing stays buffered behind a producer that exists.
NothingWaitsForProducer ==
  \A p \in producers : pendingConsumes[p] = {}

\* A consume call in the media process, and so every consumer, has a producer
\* on the router of the consuming transport.
ConsumersHaveProducers ==
  /\ \A q \in inflight \cap Consumes :
       q.source \in producers /\ on[q.source] = on[q.id]
  /\ \A t \in Receiver : consumers[t] # None =>
       consumers[t] \in producers /\ on[consumers[t]] = on[t]

\* Requests in the buffer are found under their own source, between transports
\* of one router.
BufferIsSorted ==
  \A p \in Sender : \A q \in pendingConsumes[p] :
    q.source = p /\ on[p] = on[q.id]

(***************************************************************************)
(* Refinement                                                              *)
(***************************************************************************)
Buffer == INSTANCE ConsumeBuffer WITH
  Request  <- Consumes,
  Producer <- Sender,
  SourceOf <- [q \in Consumes |-> q.source],
  exists   <- producers,
  waiting  <- {q \in Consumes : Buffered(q) \/ q \in inflight},
  answered <- {q \in Consumes : acks[q] + nacks[q] > 0}

\* The worker keeps the promise of ConsumeBuffer: once the producer exists,
\* every consume request it took on is answered.
ImplementsConsumeBuffer == Buffer!Spec

=============================================================================
