------------------------ MODULE MediaHandshakeProofs ------------------------
(***************************************************************************)
(* Proofs about MediaHandshake: its safety invariants hold for any number  *)
(* of routers and consumer transports, however requests, answers, timeouts *)
(* and departures interleave.                                              *)
(*                                                                         *)
(* The core is OneStepAtATime: as long as a browser has not given up on a  *)
(* transport, there is one request for it at most, which is on its way up, *)
(* with the worker, or answered and on its way down; and the worker has    *)
(* acknowledged every step the browser has left behind.  Everything else   *)
(* says which transport that request is for.                               *)
(***************************************************************************)
EXTENDS MediaHandshake, SfuWorkerProofs

Active == Kind \cup {"ready"}

\* The steps a browser takes with a transport, and which precede which.
Steps(t) == IF t = Mic THEN {"connect", "produce"}
                       ELSE {"consume", "connect", "resume"}

StepOrder(t) ==
  IF t = Mic
    THEN {<<"connect", "produce">>, <<"connect", "ready">>, <<"produce", "ready">>}
    ELSE {<<"consume", "connect">>, <<"consume", "resume">>, <<"consume", "ready">>,
          <<"connect", "resume">>, <<"connect", "ready">>, <<"resume", "ready">>}

\* The browser has left a step of the transport behind.
Passed(t, kind) == <<kind, browser[t]>> \in StepOrder(t)

\* A wire carries something for a transport, and not twice.
Mentions(wire, t) == \E i \in DOMAIN wire : wire[i].t = t
Once(wire, t) ==
  \A i, j \in DOMAIN wire : wire[i].t = t /\ wire[j].t = t => i = j

\* Types, with the steps that belong to each transport.
HandshakeTypes ==
  /\ members \subseteq Member
  /\ status \in [Transport -> {"unallocated", "allocated", "connected"}]
  /\ index \in Receiver \cup {None}
  /\ browser \in [Transport -> Active \cup {"none", "failed"}]
  /\ \A t \in Transport : browser[t] \in Active => browser[t] \in Steps(t) \cup {"ready"}
  /\ up \in [Member -> Seq(Message)] /\ down \in [Member -> Seq(Message)]
  /\ \A m \in Member, x \in Message :
       /\ Carried(up[m], x) => Owner(x.t) = m /\ x.kind \in Steps(x.t)
       /\ Carried(down[m], x) => Owner(x.t) = m /\ x.kind \in Steps(x.t) \cup {"params"}
  /\ announced \in BOOLEAN

\* Who is not in the space has no channel and no transports at work; a
\* transport that a member gave up was allocated.
MembersOnly ==
  /\ \A m \in Member \ members : up[m] = <<>> /\ down[m] = <<>>
  /\ \A t \in Transport : browser[t] \in Active => Owner(t) \in members
  /\ \A t \in Transport :
       browser[t] = "failed" /\ Owner(t) \in members => status[t] # "unallocated"
  /\ Speaker \in members => Made(Mic)
  /\ \A t \in Receiver : Made(t) => Made(Mic)

\* Something happens to a transport in a browser, or on the way.
InUse(t) ==
  \/ browser[t] \in Active
  \/ Mentions(up[Owner(t)], t) \/ Mentions(down[Owner(t)], t)
  \/ \E q \in sent : q.n = t

\* A transport is used once the coordinator has it, and a consumer transport
\* is in the index then, it or a later one.
UsedAreAllocated ==
  /\ \A t \in Transport : status[t] # "unallocated" <=> transportState[t] = "ready"
  /\ \A t \in Transport : InUse(t) => status[t] # "unallocated"
  /\ \A t \in Receiver : InUse(t) => index # None
  /\ index # None => status[index] # "unallocated"

\* A request is for the Speaker's transport, or for one the index held.
RequestsAreSorted ==
  \A q \in sent :
    /\ q.kind \in Steps(q.n)
    /\ q.n = Mic => q.id = Mic
    /\ q.n # Mic => q.id # Mic
    /\ OnlyOne(q.n) => q.id = q.n
    /\ status[q.id] # "unallocated"

\* What is on the way for a transport is for the browser's present step.
OnItsWay(t) ==
  /\ Once(up[Owner(t)], t) /\ Once(down[Owner(t)], t)
  /\ ~ (Mentions(up[Owner(t)], t) /\ Mentions(down[Owner(t)], t))
  /\ \A kind \in Kind : Carried(up[Owner(t)], Msg(kind, t)) => browser[t] = kind
  /\ \A kind \in Kind : Carried(down[Owner(t)], Msg(kind, t)) => browser[t] = kind

\* What the worker has is for the present step or an earlier one, and earlier
\* ones are acknowledged.
AtTheWorker(t) ==
  /\ \A q \in sent : q.n = t =>
       q.kind = browser[t] \/ (Passed(t, q.kind) /\ acks[q] = 1)
  /\ \A kind \in Steps(t) : Passed(t, kind) => \E q \in AskedBy(t, kind) : acks[q] = 1
  /\ \A q, p \in AskedBy(t, browser[t]) : q = p
  /\ Mentions(up[Owner(t)], t) => AskedBy(t, browser[t]) = {}
  /\ \A kind \in Kind : Carried(down[Owner(t)], Msg(kind, t)) =>
       /\ \E q \in AskedBy(t, kind) : acks[q] = 1
       /\ \A q \in AskedBy(t, kind) : acks[q] = 1

\* A transport's parameters find it untouched, never given up before.
ParamsComeFirst ==
  \A t \in Transport :
    Carried(down[Owner(t)], Msg("params", t)) => browser[t] = "none"

OneStepAtATime ==
  \A t \in Transport : browser[t] # "failed" => OnItsWay(t) /\ AtTheWorker(t)

\* What an acknowledged request has done, and that a producer has a transport.
AcksHaveEffects ==
  /\ \A q \in Produces : acks[q] > 0 => q.id \in producers
  /\ \A q \in Consumes : acks[q] > 0 => consumers[q.id] = q.source
  /\ \A p \in producers : Made(p)

\* The Speaker's browser produces only on a connected transport.
ProducesAfterConnect ==
  \/ Carried(down[Speaker], Msg("connect", Mic))
  \/ Carried(up[Speaker], Msg("produce", Mic))
  \/ browser[Mic] \in {"produce", "ready"}
  \/ \E q \in sent : q.kind = "produce"
  => status[Mic] = "connected"

\* NoRequestIsDropped, in terms of acks: what the worker has not acknowledged
\* is with the media process, buffered or nacked.
WaitedFor(t) ==
  \/ Carried(up[Owner(t)], Msg(browser[t], t))
  \/ \E q \in AskedBy(t, browser[t]) : acks[q] = 0
  \/ Carried(down[Owner(t)], Msg(browser[t], t))
  \/ browser[t] = "consume" /\ Speaker \notin members

NobodyWaitsInVain ==
  \A t \in Transport : browser[t] \in Kind /\ OnlyOne(t) => WaitedFor(t)

HandshakeInv ==
  /\ WorkerInv /\ AcksHaveEffects
  /\ HandshakeTypes /\ MembersOnly /\ UsedAreAllocated /\ RequestsAreSorted
  /\ ParamsComeFirst /\ OneStepAtATime
  /\ StatusFollowsWorker
  /\ ProducesAfterConnect /\ AnnouncedIsProducing
  /\ NobodyWaitsInVain

-----------------------------------------------------------------------------
(***************************************************************************)
(* Wires                                                                   *)
(***************************************************************************)

\* A wire with one more message at its end.
LEMMA AppendWire ==
  ASSUME NEW w \in Seq(Message), NEW msg \in Message
  PROVE  /\ Append(w, msg) \in Seq(Message)
         /\ \A x : Carried(Append(w, msg), x) <=> Carried(w, x) \/ x = msg
         /\ \A t : Mentions(Append(w, msg), t) <=> Mentions(w, t) \/ msg.t = t
         /\ \A t : Once(w, t) /\ ~ (Mentions(w, t) /\ msg.t = t)
                     => Once(Append(w, msg), t)
<1> DEFINE a == Append(w, msg)
<1>1. /\ a \in Seq(Message)
      /\ DOMAIN a = DOMAIN w \cup {Len(w) + 1} /\ Len(w) + 1 \notin DOMAIN w
      /\ a[Len(w) + 1] = msg
      /\ \A i \in DOMAIN w : a[i] = w[i]
    OBVIOUS
<1> HIDE DEF a
<1>2. \A x : Carried(a, x) <=> Carried(w, x) \/ x = msg
    BY <1>1 DEF Carried
<1>3. \A t : Mentions(a, t) <=> Mentions(w, t) \/ msg.t = t
    BY <1>1 DEF Mentions
<1>4. \A t : Once(w, t) /\ ~ (Mentions(w, t) /\ msg.t = t) => Once(a, t)
    BY <1>1 DEF Mentions, Once
<1>5. QED
    BY <1>1, <1>2, <1>3, <1>4 DEF a

\* A wire whose first message is taken off.
LEMMA TailWire ==
  ASSUME NEW w \in Seq(Message), w # <<>>
  PROVE  /\ Head(w) \in Message /\ Tail(w) \in Seq(Message)
         /\ \A x : Carried(w, x) <=> x = Head(w) \/ Carried(Tail(w), x)
         /\ \A t : Mentions(w, t) <=> Head(w).t = t \/ Mentions(Tail(w), t)
         /\ \A t : Once(w, t) => Once(Tail(w), t)
         /\ \A t : Once(w, t) /\ Head(w).t = t => ~ Mentions(Tail(w), t)
<1> DEFINE h == Head(w)
           r == Tail(w)
<1>1. /\ h \in Message /\ r \in Seq(Message)
      /\ Len(w) \in Nat /\ Len(w) # 0 /\ DOMAIN w = 1 .. Len(w)
      /\ w[1] = h
      /\ DOMAIN r = 1 .. (Len(w) - 1) /\ \A i \in DOMAIN r : r[i] = w[i + 1]
    OBVIOUS
<1> HIDE DEF h, r
<1>2. \A i \in DOMAIN w : i = 1 \/ (i - 1 \in DOMAIN r /\ w[i] = r[i - 1])
    BY <1>1
<1>3. \A i \in DOMAIN r : i + 1 \in DOMAIN w /\ r[i] = w[i + 1]
    BY <1>1
<1> 1 \in DOMAIN w
    BY <1>1
<1>4. \A x : Carried(w, x) <=> x = h \/ Carried(r, x)
  <2>1. ASSUME NEW x, Carried(w, x)
        PROVE  x = h \/ Carried(r, x)
    <3>1. PICK i \in DOMAIN w : w[i] = x
        BY <2>1 DEF Carried
    <3>2. QED
        BY <1>1, <1>2, <3>1 DEF Carried
  <2>2. ASSUME NEW x, x = h \/ Carried(r, x)
        PROVE  Carried(w, x)
      BY <1>1, <1>3, <2>2 DEF Carried
  <2>3. QED
      BY <2>1, <2>2
<1>5. \A t : Mentions(w, t) <=> h.t = t \/ Mentions(r, t)
  <2>1. ASSUME NEW t, Mentions(w, t)
        PROVE  h.t = t \/ Mentions(r, t)
    <3>1. PICK i \in DOMAIN w : w[i].t = t
        BY <2>1 DEF Mentions
    <3>2. QED
        BY <1>1, <1>2, <3>1 DEF Mentions
  <2>2. ASSUME NEW t, h.t = t \/ Mentions(r, t)
        PROVE  Mentions(w, t)
      BY <1>1, <1>3, <2>2 DEF Mentions
  <2>3. QED
      BY <2>1, <2>2
<1>6. \A t : Once(w, t) => Once(r, t)
    BY <1>1, <1>3 DEF Once
<1>7. \A t : Once(w, t) /\ h.t = t => ~ Mentions(r, t)
    BY <1>1, <1>3 DEF Once, Mentions
<1>8. QED
    BY <1>1, <1>4, <1>5, <1>6, <1>7 DEF h, r

\* What an empty wire carries, and what a mention is.
LEMMA Wires ==
  /\ <<>> \in Seq(Message)
  /\ \A x : ~ Carried(<<>>, x)
  /\ \A t : ~ Mentions(<<>>, t) /\ Once(<<>>, t)
  /\ \A w \in Seq(Message), t \in Transport :
       /\ Mentions(w, t) <=> \E kind \in Kind \cup {"params"} : Carried(w, Msg(kind, t))
       /\ \A x \in Message : Carried(w, x) => Mentions(w, x.t)
  /\ \A x : x \in Message <=>
       \E kind \in Kind \cup {"params"}, t \in Transport : x = Msg(kind, t)
  /\ \A kind, t : Msg(kind, t).kind = kind /\ Msg(kind, t).t = t
<1>1. /\ <<>> \in Seq(Message)
      /\ \A x : ~ Carried(<<>>, x)
      /\ \A t : ~ Mentions(<<>>, t) /\ Once(<<>>, t)
    BY DEF Carried, Mentions, Once
<1>2. \A x : x \in Message <=>
       \E kind \in Kind \cup {"params"}, t \in Transport : x = Msg(kind, t)
    BY DEF Message, Msg
<1>3. \A kind, t : Msg(kind, t).kind = kind /\ Msg(kind, t).t = t
    BY DEF Msg
<1>4. ASSUME NEW w \in Seq(Message), NEW t \in Transport
      PROVE  /\ Mentions(w, t) <=> \E kind \in Kind \cup {"params"} : Carried(w, Msg(kind, t))
             /\ \A x \in Message : Carried(w, x) => Mentions(w, x.t)
  <2>1. \A i \in DOMAIN w : w[i] \in Message
      OBVIOUS
  <2>2. QED
      BY <2>1, <1>2, <1>3 DEF Carried, Mentions
<1>5. QED
    BY <1>1, <1>2, <1>3, <1>4

\* What a message posted on the wires does to them: it is lost, or at the end
\* of its owner's.
Posted(after, before, msg) ==
  /\ after \in [Member -> Seq(Message)]
  /\ \A m \in Member : m \notin members => after[m] = before[m]
  /\ \A m \in Member : \A x : Carried(after[m], x) <=>
       Carried(before[m], x) \/ (x = msg /\ m = Owner(msg.t) /\ m \in members)
  /\ \A m \in Member : \A t : Mentions(after[m], t) <=>
       Mentions(before[m], t) \/ (msg.t = t /\ m = Owner(msg.t) /\ m \in members)
  /\ \A m \in Member : \A t :
       Once(before[m], t) /\ ~ (Mentions(before[m], t) /\ msg.t = t)
         => Once(after[m], t)

LEMMA PostEffect ==
  ASSUME HandshakeTypes, NEW msg \in Message,
         NEW wire \in [Member -> Seq(Message)]
  PROVE  Posted(Post(wire, msg), wire, msg)
<1>1. Owner(msg.t) \in Member
    BY DEF Owner, Member
<1>2. \A m \in Member :
        /\ wire[m] \in Seq(Message)
        /\ Post(wire, msg)[m] = IF m = Owner(msg.t) /\ m \in members
                                  THEN Append(wire[m], msg) ELSE wire[m]
    BY <1>1 DEF Post
<1>3. Post(wire, msg) \in [Member -> Seq(Message)]
    BY <1>1, AppendWire DEF Post
<1>4. ASSUME NEW m \in Member
      PROVE  /\ \A x : Carried(Post(wire, msg)[m], x) <=>
                  Carried(wire[m], x) \/ (x = msg /\ m = Owner(msg.t) /\ m \in members)
             /\ \A t : Mentions(Post(wire, msg)[m], t) <=>
                  \/ Mentions(wire[m], t)
                  \/ msg.t = t /\ m = Owner(msg.t) /\ m \in members
             /\ \A t : Once(wire[m], t) /\ ~ (Mentions(wire[m], t) /\ msg.t = t)
                         => Once(Post(wire, msg)[m], t)
  <2>1. CASE m = Owner(msg.t) /\ m \in members
    <3>1. Post(wire, msg)[m] = Append(wire[m], msg)
        BY <1>2, <2>1
    <3>2. QED
        BY <1>2, <2>1, <3>1, AppendWire
  <2>2. CASE ~ (m = Owner(msg.t) /\ m \in members)
      BY <1>2, <2>2
  <2>3. QED
      BY <2>1, <2>2
<1>5. QED
    BY <1>2, <1>3, <1>4 DEF Posted

\* A request's parts.
LEMMA Requests ==
  /\ \A q \in Request : /\ q.kind \in Kind /\ q.n \in Transport /\ q.id \in Transport
                        /\ q.source \in {Mic, None}
                        /\ q = [kind |-> q.kind, id |-> q.id, source |-> q.source,
                                n |-> q.n]
                        /\ q \in Connects <=> q.kind = "connect"
                        /\ q \in Produces <=> q.kind = "produce"
                        /\ q \in Consumes <=> q.kind = "consume"
                        /\ q \in Resumes <=> q.kind = "resume"
                        /\ q.source = Mic <=> q.kind = "consume"
                        /\ q.kind = "produce" => q.id = Mic
                        /\ q.kind \in {"consume", "resume"} => q.id \in Receiver
  /\ Mic \in Transport /\ Mic \notin Receiver /\ Mic # None /\ None \notin Transport
  /\ Transport = Receiver \cup {Mic}
  /\ \A t \in Transport : Owner(t) \in Member
  /\ Speaker \in Member /\ Listener \in Member /\ Speaker # Listener
BY HandshakeAssumption, WorkerAssumption
   DEF Request, Connects, Produces, Consumes, Resumes, Transport, Kind, Owner, Member

\* The worker is asked only what a request may say.
LEMMA WorkerRequests ==
  ASSUME index \in Receiver \cup {None}, NEW msg \in Message,
         msg.kind \in Steps(msg.t), WorkerRequest(msg).id # None
  PROVE  /\ WorkerRequest(msg) \in Request
         /\ WorkerRequest(msg).kind = msg.kind /\ WorkerRequest(msg).n = msg.t
         /\ WorkerRequest(msg).id = IF msg.t = Mic THEN Mic ELSE index
<1>1. msg.t \in Transport
    BY DEF Message
<1>2. msg.t # Mic => index \in Receiver
    BY DEF WorkerRequest
<1>3. CASE msg.t = Mic
    BY <1>1, <1>3, HandshakeAssumption
       DEF WorkerRequest, Steps, Request, Connects, Produces, Transport
<1>4. CASE msg.t # Mic
  <2>1. CASE msg.kind = "consume"
      BY <1>1, <1>2, <1>4, <2>1, HandshakeAssumption
         DEF WorkerRequest, Request, Consumes, Transport
  <2>2. CASE msg.kind = "connect"
      BY <1>1, <1>2, <1>4, <2>2, HandshakeAssumption
         DEF WorkerRequest, Request, Connects, Transport
  <2>3. CASE msg.kind = "resume"
      BY <1>1, <1>2, <1>4, <2>3, HandshakeAssumption
         DEF WorkerRequest, Request, Resumes, Transport
  <2>4. QED
      BY <1>1, <1>4, <2>1, <2>2, <2>3 DEF Steps
<1>5. QED
    BY <1>3, <1>4 DEF WorkerRequest

-----------------------------------------------------------------------------
(***************************************************************************)
(* What the worker does in a step                                          *)
(***************************************************************************)

\* Every step is a step of the worker, or leaves it alone.
LEMMA WorkerMoves == [HandshakeNext]_allVars => [Next]_vars
<1> SUFFICES ASSUME [HandshakeNext]_allVars PROVE [Next]_vars
    OBVIOUS
<1>1. CASE UNCHANGED allVars
    BY <1>1 DEF allVars
<1>2. ASSUME NEW r \in Router, NewRouter(r) \/ RouterAnswer(r)
      PROVE  Next
    BY <1>2 DEF Next
<1>3. ASSUME NEW r \in Router, NEW m \in Member, Join(m, r)
      PROVE  [Next]_vars
    BY <1>3, Requests DEF Join, Next
<1>4. ASSUME NEW r \in Router, NEW t \in Receiver, RequestConsumer(t, r)
      PROVE  Next
    BY <1>4, Requests DEF RequestConsumer, Next
<1>5. ASSUME NEW t \in Transport, TransportReady(t) \/ TransportRefused(t)
      PROVE  Next
    BY <1>5 DEF TransportReady, TransportRefused, Next
<1>6. ASSUME NEW q, WorkerHandles(q)
      PROVE  Next
  <2>1. q \in Request
      BY <1>6 DEF WorkerHandles, Request, OnConnectOrProduce, OnConsumeRefused,
         OnConsumeNow, OnConsumeBuffered, OnResume
  <2>2. QED
      BY <1>6, <2>1 DEF WorkerHandles, Next
<1>7. ASSUME NEW m \in Member, Forward(m)
      PROVE  [Next]_vars
    BY <1>6, <1>7 DEF Forward
<1>8. ASSUME NEW q \in Request, Answered(q)
      PROVE  Next
    BY <1>8 DEF Answered, ConnectAnswered, ProduceAnswered,
       ConsumeOrResumeAnswered, RequestFailed, MediaAnswer, Next
<1>9. ASSUME NEW m \in Member, ClientReceives(m) \/ Leave(m)
      PROVE  UNCHANGED vars
    BY <1>9 DEF ClientReceives, Leave
<1>10. ASSUME NEW t \in Transport, Timeout(t)
       PROVE  UNCHANGED vars
    BY <1>10 DEF Timeout
<1>11. QED
    BY <1>1, <1>2, <1>3, <1>4, <1>5, <1>7, <1>8, <1>9, <1>10 DEF HandshakeNext

\* A request the worker took on is unacknowledged as long as it is with the
\* media process or buffered, or if it was nacked.
LEMMA Unacknowledged ==
  ASSUME WorkerInv
  PROVE  /\ sent \subseteq Request
         /\ \A q \in Request : acks[q] \in Nat
         /\ \A q \in sent :
              /\ acks[q] \in {0, 1}
              /\ acks[q] = 0 <=> q \in inflight \/ Buffered(q) \/ nacks[q] > 0
         /\ \A q \in Request : acks[q] > 0 => q \in sent
         /\ \A q \in inflight : q \in sent /\ acks[q] = 0
<1>1. /\ sent \subseteq Request /\ inflight \subseteq Request
      /\ \A q \in Request : acks[q] \in Nat /\ nacks[q] \in Nat
    BY DEF WorkerInv, TypeOK
<1>2. ASSUME NEW q \in Request
      PROVE  /\ q \notin sent => acks[q] = 0 /\ q \notin inflight
             /\ q \in sent => /\ acks[q] \in {0, 1}
                              /\ acks[q] = 0 <=> \/ q \in inflight \/ Buffered(q)
                                                 \/ nacks[q] > 0
             /\ q \in inflight => acks[q] = 0
    BY <1>1 DEF WorkerInv, EachRequestIsAnsweredOnce
<1>3. QED
    BY <1>1, <1>2

\* A request that is handled is new, and nobody's standing changes.
LEMMA TakenOn ==
  ASSUME WorkerInv, NEW q, WorkerHandles(q)
  PROVE  /\ q \in Request /\ q \notin sent /\ sent' = sent \cup {q}
         /\ acks[q] = 0
         /\ UNCHANGED <<mediaVars, resultVars, acks>>
<1>1. q \in Request
    BY DEF WorkerHandles, Request, OnConnectOrProduce, OnConsumeRefused,
       OnConsumeNow, OnConsumeBuffered, OnResume
<1>2. Receive(q) /\ UNCHANGED acks
    BY DEF WorkerHandles, OnConnectOrProduce, OnConsumeRefused,
       OnConsumeNow, OnConsumeBuffered, OnResume, StartMedia, Refuse
<1>3. acks[q] = 0
    BY <1>1, <1>2 DEF WorkerInv, EachRequestIsAnsweredOnce, TypeOK, Receive
<1>4. QED
    BY <1>1, <1>2, <1>3 DEF Receive

\* An ack is the first of its request, and changes what its kind says.
LEMMA Acknowledged ==
  ASSUME WorkerInv, NEW q \in Request,
         ConnectOrResumeDone(q) \/ ProduceDone(q) \/ ConsumeDone(q)
  PROVE  /\ q \in sent /\ acks[q] = 0 /\ acks'[q] = 1
         /\ \A x \in Request : x # q => acks'[x] = acks[x]
         /\ UNCHANGED <<mediaVars, sent>>
         /\ producers' = producers \cup (IF q \in Produces THEN {q.id} ELSE {})
         /\ \A t \in Receiver : consumers'[t] =
              IF q \in Consumes /\ t = q.id THEN q.source ELSE consumers[t]
<1>1. q \in inflight /\ Ack(q)
    BY DEF ConnectOrResumeDone, ProduceDone, ConsumeDone, Done
<1>2. q \in sent /\ acks[q] = 0 /\ acks \in [Request -> Nat]
    BY <1>1, Unacknowledged DEF WorkerInv, TypeOK
<1>3. /\ acks'[q] = 1 /\ \A x \in Request : x # q => acks'[x] = acks[x]
      /\ UNCHANGED <<mediaVars, sent>>
    BY <1>1, <1>2 DEF Ack
<1>4. CASE ConnectOrResumeDone(q)
  <2>1. q \notin Produces /\ q \notin Consumes
      BY <1>4, Requests DEF ConnectOrResumeDone, Connects, Resumes
  <2>2. QED
      BY <1>2, <1>3, <1>4, <2>1 DEF ConnectOrResumeDone, resultVars
<1>5. CASE ProduceDone(q)
  <2>1. q \in Produces /\ q \notin Consumes
      BY <1>5, Kinds DEF ProduceDone
  <2>2. QED
      BY <1>2, <1>3, <1>5, <2>1 DEF ProduceDone
<1>6. CASE ConsumeDone(q)
  <2>1. q \in Consumes /\ q \notin Produces
      BY <1>6, Kinds DEF ConsumeDone
  <2>2. \A t \in Receiver : consumers'[t] =
          IF t = q.id THEN q.source ELSE consumers[t]
      BY <1>6 DEF ConsumeDone, WorkerInv, TypeOK
  <2>3. QED
      BY <1>2, <1>3, <1>6, <2>1, <2>2 DEF ConsumeDone
<1>7. QED
    BY <1>4, <1>5, <1>6

-----------------------------------------------------------------------------
(***************************************************************************)
(* Steps that leave a transport alone                                      *)
(***************************************************************************)

\* The wires of a transport's owner carry nothing new about it.
NothingNew(t) ==
  /\ Once(up[Owner(t)], t) => Once(up'[Owner(t)], t)
  /\ Once(down[Owner(t)], t) => Once(down'[Owner(t)], t)
  /\ \A kind \in Kind \cup {"params"} :
       /\ Carried(up'[Owner(t)], Msg(kind, t)) => Carried(up[Owner(t)], Msg(kind, t))
       /\ Carried(down'[Owner(t)], Msg(kind, t)) => Carried(down[Owner(t)], Msg(kind, t))

\* The worker has the same requests for it, and keeps its acks.
SameRequests(t) ==
  /\ \A q : q \in sent' /\ q.n = t <=> q \in sent /\ q.n = t
  /\ \A q \in sent : q.n = t /\ acks[q] = 1 => acks'[q] = 1

\* Then all that holds of its present step still does.
LEMMA Untouched ==
  ASSUME up \in [Member -> Seq(Message)], up' \in [Member -> Seq(Message)],
         down \in [Member -> Seq(Message)], down' \in [Member -> Seq(Message)],
         NEW t \in Transport, browser'[t] = browser[t],
         NothingNew(t), SameRequests(t), OnItsWay(t), AtTheWorker(t)
  PROVE  OnItsWay(t)' /\ AtTheWorker(t)'
<1> DEFINE o == Owner(t)
<1>1. /\ o \in Member
      /\ up[o] \in Seq(Message) /\ up'[o] \in Seq(Message)
      /\ down[o] \in Seq(Message) /\ down'[o] \in Seq(Message)
    BY Requests
<1>2. /\ Mentions(up'[o], t) => Mentions(up[o], t)
      /\ Mentions(down'[o], t) => Mentions(down[o], t)
    BY <1>1, Wires DEF NothingNew
<1>3. OnItsWay(t)'
    BY <1>2 DEF OnItsWay, NothingNew, Mentions
<1>4. \A kind : AskedBy(t, kind)' = AskedBy(t, kind)
    BY DEF AskedBy, SameRequests
<1>5. \A kind : \A q \in AskedBy(t, kind) : acks[q] = 1 => acks'[q] = 1
    BY DEF AskedBy, SameRequests
<1>6. (\A q \in sent : q.n = t =>
        q.kind = browser[t] \/ (Passed(t, q.kind) /\ acks[q] = 1))'
    BY DEF AtTheWorker, SameRequests, Passed
<1>7. (\A kind \in Steps(t) : Passed(t, kind) =>
        \E q \in AskedBy(t, kind) : acks[q] = 1)'
    BY <1>4, <1>5 DEF AtTheWorker, Passed
<1>8. (\A q, p \in AskedBy(t, browser[t]) : q = p)'
    BY <1>4 DEF AtTheWorker
<1>9. (Mentions(up[Owner(t)], t) => AskedBy(t, browser[t]) = {})'
    BY <1>2, <1>4 DEF AtTheWorker
<1>10. (\A kind \in Kind : Carried(down[Owner(t)], Msg(kind, t)) =>
         /\ \E q \in AskedBy(t, kind) : acks[q] = 1
         /\ \A q \in AskedBy(t, kind) : acks[q] = 1)'
    BY <1>4, <1>5 DEF AtTheWorker, NothingNew
<1>11. AtTheWorker(t)'
    BY <1>6, <1>7, <1>8, <1>9, <1>10 DEF AtTheWorker
<1>12. QED
    BY <1>3, <1>11

-----------------------------------------------------------------------------
(***************************************************************************)
(* The coordinator's steps                                                 *)
(***************************************************************************)

\* A transport in use was made, and the Speaker's before it; a request for it
\* is no other transport's if it is the only one of its direction.
LEMMA UsedIsMade ==
  ASSUME HandshakeInv, NEW t \in Transport, InUse(t)
  PROVE  /\ transportState[t] = "ready"
         /\ Made(t) /\ Made(Mic)
         /\ OnlyOne(t) => \A q \in sent : q.id = t => q.n = t
<1>1. transportState[t] = "ready" /\ Made(t) /\ Made(Mic)
    BY Requests DEF HandshakeInv, UsedAreAllocated, MembersOnly, Made
<1>2. ASSUME OnlyOne(t), NEW q \in sent, q.id = t
      PROVE  q.n = t
  <2>1. q.n \in Transport /\ (q.n = Mic <=> q.id = Mic)
      BY Requests, Unacknowledged DEF HandshakeInv, RequestsAreSorted
  <2>2. InUse(q.n)
      BY DEF InUse
  <2>3. Made(q.n)
      BY <2>1, <2>2 DEF HandshakeInv, UsedAreAllocated, Made
  <2>4. QED
      BY <1>2, <2>1, <2>3, Requests DEF OnlyOne, Made
<1>3. QED
    BY <1>1, <1>2

\* Transports are requested or refused, a member joins: nothing a browser or a
\* request is at changes.
LEMMA QuietStep ==
  ASSUME HandshakeInv, WorkerInv',
         UNCHANGED <<status, index, announced, clientVars, sent, acks, resultVars>>,
         \A t \in Transport : /\ Made(t) => Made(t)'
                              /\ transportState[t] = "ready" <=> transportState'[t] = "ready",
         \A t \in Receiver : Made(t)' => Made(t) \/ Made(Mic),
         members \subseteq members', members' \subseteq Member,
         \A t \in Transport : Owner(t) \in members' \ members => browser[t] = "none",
         Speaker \in members' \ members => ~ Made(Mic) /\ Made(Mic)'
  PROVE  HandshakeInv'
<1> USE DEF clientVars, resultVars
<1>1. AcksHaveEffects'
  <2>1. producers \subseteq Transport
      BY DEF HandshakeInv, WorkerInv, TypeOK, Transport
  <2>2. QED
      BY <2>1 DEF HandshakeInv, AcksHaveEffects
<1>2. HandshakeTypes'
    BY DEF HandshakeInv, HandshakeTypes
<1>3. MembersOnly'
  <2>1. Made(Mic) => Made(Mic)'
      BY Requests
  <2>2. \A t \in Receiver : Made(t)' => Made(Mic)'
      BY <2>1 DEF HandshakeInv, MembersOnly
  <2>3. QED
      BY <2>1, <2>2 DEF HandshakeInv, MembersOnly
<1>4. UsedAreAllocated'
    BY DEF HandshakeInv, UsedAreAllocated, InUse, Mentions
<1>5. \A t \in Transport : OnlyOne(t)' => OnlyOne(t)
    BY Requests DEF OnlyOne, Made
<1>6. RequestsAreSorted'
    BY <1>5, Unacknowledged, Requests DEF HandshakeInv, RequestsAreSorted
<1>7. ParamsComeFirst' /\ OneStepAtATime'
    BY DEF HandshakeInv, ParamsComeFirst, OneStepAtATime, OnItsWay, AtTheWorker,
       Passed, AskedBy, Mentions, Once
<1>8. StatusFollowsWorker' /\ ProducesAfterConnect'
    BY DEF HandshakeInv, StatusFollowsWorker, ProducesAfterConnect
<1>9. AnnouncedIsProducing'
    BY DEF HandshakeInv, AnnouncedIsProducing, AcksHaveEffects
<1>10. NobodyWaitsInVain'
  <2>1. ASSUME NEW t \in Transport, browser[t] = "consume", Speaker \notin members
        PROVE  Speaker \notin members'
    <3>1. InUse(t)
        BY <2>1 DEF InUse, Active, Kind
    <3>2. Made(Mic)
        BY <3>1, UsedIsMade
    <3>3. QED
        BY <2>1, <3>2
  <2>2. QED
      BY <1>5, <2>1 DEF HandshakeInv, NobodyWaitsInVain, WaitedFor, AskedBy
<1>11. QED
    BY <1>1, <1>2, <1>3, <1>4, <1>6, <1>7, <1>8, <1>9, <1>10 DEF HandshakeInv

\* The steps that QuietStep is about.
LEMMA SetupStep ==
  ASSUME HandshakeInv, WorkerInv',
         \/ \E r \in Router : /\ NewRouter(r) \/ RouterAnswer(r)
                              /\ UNCHANGED handshakeVars
         \/ \E r \in Router, m \in Member : Join(m, r)
         \/ \E r \in Router, t \in Receiver : RequestConsumer(t, r)
         \/ \E t \in Transport : TransportRefused(t)
         \/ \E q \in Request : RequestFailed(q)
  PROVE  HandshakeInv'
<1> USE DEF handshakeVars, serverVars, clientVars, resultVars, requestVars,
            mediaVars
<1>1. /\ transportState \in [Transport -> Stage] /\ transportState' \in [Transport -> Stage]
      /\ members \subseteq Member
    BY DEF HandshakeInv, WorkerInv, TypeOK, HandshakeTypes
<1>2. ASSUME UNCHANGED <<handshakeVars, sent, acks, resultVars, transportState>>
      PROVE  HandshakeInv'
    BY <1>1, <1>2, QuietStep DEF Made
<1>3. ASSUME NEW r \in Router, NewRouter(r) \/ RouterAnswer(r), UNCHANGED handshakeVars
      PROVE  HandshakeInv'
    BY <1>2, <1>3 DEF NewRouter, RouterAnswer
<1>4. ASSUME NEW q \in Request, RequestFailed(q)
      PROVE  HandshakeInv'
    BY <1>2, <1>4 DEF RequestFailed, MediaFailed
<1>5. ASSUME NEW t \in Transport, TransportRefused(t)
      PROVE  HandshakeInv'
  <2>1. /\ transportState[t] = "creating" /\ transportState'[t] = "failed"
        /\ \A u \in Transport : u # t => transportState'[u] = transportState[u]
        /\ UNCHANGED <<sent, acks, resultVars, handshakeVars>>
      BY <1>1, <1>5 DEF TransportRefused, TransportAnswer
  <2>2. \A u \in Transport : /\ Made(u) <=> Made(u)'
                             /\ transportState[u] = "ready" <=> transportState'[u] = "ready"
      BY <2>1 DEF Made
  <2>3. QED
      BY <1>1, <2>1, <2>2, Requests, QuietStep
<1>6. ASSUME NEW t \in Transport, NEW r \in Router, NewTransport(t, r)
      PROVE  /\ ~ Made(t) /\ Made(t)'
             /\ \A u \in Transport :
                  /\ Made(u) => Made(u)'
                  /\ u # t => (Made(u)' => Made(u))
                  /\ transportState[u] = "ready" <=> transportState'[u] = "ready"
             /\ UNCHANGED <<sent, acks, resultVars>>
    BY <1>1, <1>6 DEF NewTransport, Made
<1>7. ASSUME NEW r \in Router, NEW m \in Member, Join(m, r)
      PROVE  HandshakeInv'
  <2>1. CASE m = Speaker
      BY <1>1, <1>6, <1>7, <2>1, Requests, QuietStep DEF Join
  <2>2. CASE m # Speaker
      BY <1>1, <1>7, <2>2, Requests, QuietStep DEF Join, vars, Made
  <2>3. QED
      BY <2>1, <2>2
<1>8. ASSUME NEW r \in Router, NEW t \in Receiver, RequestConsumer(t, r)
      PROVE  HandshakeInv'
  <2>1. Made(Mic)
      BY <1>8, Requests DEF RequestConsumer, HandshakeInv, MembersOnly
  <2>2. QED
      BY <1>1, <1>6, <1>8, <2>1, Requests, QuietStep DEF RequestConsumer
<1>9. QED
    BY <1>3, <1>4, <1>5, <1>7, <1>8

\* A transport becomes ready: nobody has used it, and its parameters are all
\* that is on the way for it.
LEMMA ReadyStep ==
  ASSUME HandshakeInv, WorkerInv', NEW t \in Transport, TransportReady(t)
  PROVE  HandshakeInv'
<1> DEFINE params == Msg("params", t)
<1>1. /\ transportState[t] = "creating" /\ transportState'[t] = "ready"
      /\ \A u \in Transport : u # t => transportState'[u] = transportState[u]
      /\ \A u \in Transport : Made(u)' <=> Made(u)
      /\ UNCHANGED <<sent, acks, producers, consumers>>
    BY DEF TransportReady, TransportAnswer, HandshakeInv, WorkerInv, TypeOK, Made,
       resultVars, requestVars
<1>2. /\ status[t] = "unallocated" /\ status'[t] = "allocated"
      /\ \A u \in Transport : u # t => status'[u] = status[u]
      /\ status' \in [Transport -> {"unallocated", "allocated", "connected"}]
      /\ ~ InUse(t)
      /\ UNCHANGED <<members, announced, browser, up>>
    BY <1>1 DEF TransportReady, HandshakeInv, HandshakeTypes, UsedAreAllocated
<1>3. params \in Message /\ params.t = t /\ params.kind = "params"
    BY Wires
<1>4. \/ Speaker \notin members /\ UNCHANGED <<index, down>>
      \/ /\ Speaker \in members /\ index' = IF t = Mic THEN index ELSE t
         /\ down' = Post(down, params)
    BY DEF TransportReady
<1>5. HandshakeTypes /\ down \in [Member -> Seq(Message)] /\ up \in [Member -> Seq(Message)]
    BY DEF HandshakeInv, HandshakeTypes
<1> HIDE DEF params
<1>6. /\ down' \in [Member -> Seq(Message)]
      /\ \A m \in Member : m \notin members => down'[m] = down[m]
      /\ \A m \in Member : \A x : Carried(down'[m], x) =>
           \/ Carried(down[m], x)
           \/ x = params /\ m = Owner(t) /\ m \in members /\ Speaker \in members
      /\ \A m \in Member : \A x : Carried(down[m], x) => Carried(down'[m], x)
      /\ \A m \in Member : \A u : Mentions(down'[m], u) =>
           \/ Mentions(down[m], u)
           \/ u = t /\ m = Owner(t) /\ Speaker \in members
      /\ \A m \in Member : \A u :
           Once(down[m], u) /\ ~ (Mentions(down[m], u) /\ u = t) => Once(down'[m], u)
  <2>1. CASE Speaker \notin members
      BY <1>4, <1>5, <2>1
  <2>2. CASE Speaker \in members
    <3>1. down' = Post(down, params)
        BY <1>4, <2>2
    <3>2. Posted(down', down, params)
        BY <1>3, <1>5, <3>1, PostEffect
    <3>3. QED
        BY <1>3, <2>2, <3>2 DEF Posted
  <2>3. QED
      BY <2>1, <2>2
<1>7. \A u \in Transport : InUse(u)' => InUse(u) \/ (u = t /\ Speaker \in members)
    BY <1>1, <1>2, <1>6, Requests DEF InUse
<1>8. AcksHaveEffects'
  <2>1. producers \subseteq Transport
      BY DEF HandshakeInv, WorkerInv, TypeOK, Transport
  <2>2. QED
      BY <1>1, <2>1 DEF HandshakeInv, AcksHaveEffects
<1>9. HandshakeTypes'
  <2>1. index' \in Receiver \cup {None}
      BY <1>4, <1>5, Requests DEF HandshakeTypes
  <2>2. (\A m \in Member, x \in Message :
          /\ Carried(up[m], x) => Owner(x.t) = m /\ x.kind \in Steps(x.t)
          /\ Carried(down[m], x) => Owner(x.t) = m /\ x.kind \in Steps(x.t) \cup {"params"})'
      BY <1>2, <1>3, <1>5, <1>6 DEF HandshakeTypes
  <2>3. QED
      BY <1>2, <1>5, <1>6, <2>1, <2>2 DEF HandshakeTypes
<1>10. MembersOnly'
    BY <1>1, <1>2, <1>6, Requests DEF HandshakeInv, MembersOnly
<1>11. UsedAreAllocated'
  <2>1. (\A u \in Transport : status[u] # "unallocated" <=> transportState[u] = "ready")'
      BY <1>1, <1>2 DEF HandshakeInv, UsedAreAllocated
  <2>2. (\A u \in Transport : InUse(u) => status[u] # "unallocated")'
      BY <1>2, <1>7 DEF HandshakeInv, UsedAreAllocated
  <2>3. (\A u \in Receiver : InUse(u) => index # None)'
      BY <1>4, <1>7, Requests DEF HandshakeInv, UsedAreAllocated
  <2>4. (index # None => status[index] # "unallocated")'
    <3>1. index' = index \/ index' = t
        BY <1>4
    <3>2. index # None => index \in Transport
        BY <1>5, Requests DEF HandshakeTypes
    <3>3. QED
        BY <1>2, <3>1, <3>2 DEF HandshakeInv, UsedAreAllocated
  <2>5. QED
      BY <2>1, <2>2, <2>3, <2>4 DEF UsedAreAllocated
<1>12. \A u \in Transport : OnlyOne(u)' => OnlyOne(u)
    BY <1>1, Requests DEF OnlyOne, Made
<1>13. \A q \in sent : q.id \in Transport /\ q.n \in Transport
    BY Requests, Unacknowledged DEF HandshakeInv
<1>14. RequestsAreSorted'
    BY <1>1, <1>2, <1>12, <1>13 DEF HandshakeInv, RequestsAreSorted
<1>15. ParamsComeFirst'
  <2>1. ASSUME NEW u \in Transport, Carried(down'[Owner(u)], Msg("params", u))
        PROVE  browser[u] = "none"
    <3>1. CASE Carried(down[Owner(u)], Msg("params", u))
        BY <3>1 DEF HandshakeInv, ParamsComeFirst
    <3>2. CASE u = t /\ Owner(t) \in members
      <4>1. browser[t] \notin Active /\ browser[t] # "failed"
          BY <1>2, <3>2 DEF InUse, HandshakeInv, MembersOnly
      <4>2. QED
          BY <1>5, <3>2, <4>1 DEF HandshakeTypes
    <3>3. Msg("params", u) = params => u = t
        BY <1>3, Wires
    <3>4. QED
        BY <1>6, <2>1, <3>1, <3>2, <3>3, Requests
  <2>2. QED
      BY <1>2, <2>1 DEF ParamsComeFirst

<1>16. \A u \in Transport, kind \in Kind :
         Carried(down'[Owner(u)], Msg(kind, u)) <=> Carried(down[Owner(u)], Msg(kind, u))
  <2>1. \A u \in Transport, kind \in Kind : Msg(kind, u) # params
      BY <1>3, Wires DEF Kind
  <2>2. QED
      BY <1>6, <2>1, Requests
<1>17. OneStepAtATime'
  <2>1. ASSUME NEW u \in Transport, browser[u] # "failed", u # t
        PROVE  OnItsWay(u)' /\ AtTheWorker(u)'
    <3>1. OnItsWay(u) /\ AtTheWorker(u)
        BY <2>1 DEF HandshakeInv, OneStepAtATime
    <3>2. NothingNew(u)
        BY <1>2, <1>3, <1>6, <2>1, Requests, Wires DEF NothingNew
    <3>3. SameRequests(u)
        BY <1>1 DEF SameRequests
    <3>4. QED
        BY <1>2, <1>5, <1>6, <3>1, <3>2, <3>3, Untouched
  <2>2. ASSUME browser[t] # "failed"
        PROVE  OnItsWay(t)' /\ AtTheWorker(t)'
    <3>1. /\ ~ Mentions(up[Owner(t)], t) /\ ~ Mentions(down[Owner(t)], t)
          /\ \A q \in sent : q.n # t
          /\ browser[t] \notin Active
        BY <1>2 DEF InUse
    <3>2. Once(up[Owner(t)], t) /\ Once(down[Owner(t)], t)
        BY <2>2 DEF HandshakeInv, OneStepAtATime, OnItsWay
    <3>3. /\ \A kind \in Kind : ~ Carried(up[Owner(t)], Msg(kind, t))
          /\ \A kind \in Kind : ~ Carried(down[Owner(t)], Msg(kind, t))
        BY <1>5, <3>1, Requests, Wires
    <3>4. OnItsWay(t)'
        BY <1>2, <1>6, <1>16, <3>1, <3>2, <3>3, Requests DEF OnItsWay
    <3>5. \A kind : ~ Passed(t, kind)'
        BY <1>2, <3>1 DEF Passed, StepOrder, Active, Kind
    <3>6. \A kind : AskedBy(t, kind)' = {}
        BY <1>1, <3>1 DEF AskedBy
    <3>7. AtTheWorker(t)'
        BY <1>1, <1>16, <3>1, <3>3, <3>5, <3>6 DEF AtTheWorker
    <3>8. QED
        BY <3>4, <3>7
  <2>3. QED
      BY <1>2, <2>1, <2>2 DEF OneStepAtATime
<1>18. StatusFollowsWorker'
    BY <1>1, <1>2 DEF HandshakeInv, StatusFollowsWorker
<1>19. ProducesAfterConnect'
  <2>1. CASE t # Mic
      BY <1>1, <1>2, <1>16, <2>1, Requests DEF HandshakeInv, ProducesAfterConnect,
         Owner, Kind
  <2>2. CASE t = Mic
    <3>1. /\ ~ Mentions(up[Speaker], Mic) /\ ~ Mentions(down[Speaker], Mic)
          /\ browser[Mic] \notin Active
          /\ \A q \in sent : q.n # Mic
        BY <1>2, <2>2 DEF InUse, Owner
    <3>2. /\ ~ Carried(down'[Speaker], Msg("connect", Mic))
          /\ ~ Carried(up'[Speaker], Msg("produce", Mic))
        BY <1>2, <1>5, <1>16, <2>2, <3>1, Requests, Wires DEF Owner, Kind
    <3>3. \A q \in sent : q.kind # "produce"
        BY <1>13, <3>1 DEF HandshakeInv, RequestsAreSorted, Steps
    <3>4. QED
        BY <1>1, <1>2, <3>1, <3>2, <3>3 DEF ProducesAfterConnect, Active, Kind
  <2>3. QED
      BY <2>1, <2>2
<1>20. AnnouncedIsProducing'
    BY <1>1, <1>2, Requests DEF HandshakeInv, AnnouncedIsProducing
<1>21. NobodyWaitsInVain'
    BY <1>1, <1>2, <1>6, <1>12, Requests
       DEF HandshakeInv, NobodyWaitsInVain, WaitedFor, AskedBy
<1>22. QED
    BY <1>8, <1>9, <1>10, <1>11, <1>14, <1>15, <1>17, <1>18, <1>19, <1>20, <1>21
       DEF HandshakeInv

-----------------------------------------------------------------------------
(***************************************************************************)
(* A request reaches the worker                                            *)
(***************************************************************************)

\* The only transport of its direction is the one its requests are for, and
\* its first connect request is not taken for a second one.
LEMMA FirstConnect ==
  ASSUME HandshakeInv, NEW t \in Transport, OnlyOne(t), browser[t] \in Kind,
         Mentions(up[Owner(t)], t)
  PROVE  /\ browser[t] = "connect" => status[t] # "connected"
         /\ t # Mic => index = t
<1>1. AskedBy(t, browser[t]) = {} /\ InUse(t)
    BY DEF HandshakeInv, OneStepAtATime, AtTheWorker, InUse, Active, Kind
<1>2. ASSUME browser[t] = "connect", status[t] = "connected"
      PROVE  FALSE
  <2>1. PICK q \in Connects : q.id = t /\ acks[q] > 0
      BY <1>2 DEF HandshakeInv, StatusFollowsWorker
  <2>2. q \in sent /\ q.kind = "connect"
      BY <2>1, Requests, Unacknowledged DEF HandshakeInv, Request
  <2>3. q.n = t
      BY <1>1, <2>1, <2>2, UsedIsMade
  <2>4. QED
      BY <1>1, <1>2, <2>2, <2>3 DEF AskedBy
<1>3. t # Mic => index = t
  <2>1. t # Mic => index \in Receiver /\ Made(index)
      BY <1>1, Requests
         DEF HandshakeInv, HandshakeTypes, UsedAreAllocated, Made
  <2>2. QED
      BY <2>1, Requests DEF OnlyOne, Made
<1>4. QED
    BY <1>2, <1>3

LEMMA ForwardStep ==
  ASSUME HandshakeInv, WorkerInv', NEW m \in Member, Forward(m)
  PROVE  HandshakeInv'
<1> DEFINE h == Head(up[m])
           q == WorkerRequest(h)
           new == IF Dispatched(q) THEN {q} ELSE {}
<1>1. /\ HandshakeTypes /\ up \in [Member -> Seq(Message)]
      /\ down \in [Member -> Seq(Message)]
      /\ up[m] \in Seq(Message) /\ up[m] # <<>>
      /\ UNCHANGED <<members, status, index, announced, browser, down>>
      /\ index \in Receiver \cup {None}
    BY DEF Forward, HandshakeInv, HandshakeTypes, serverVars
<1>2. /\ up' \in [Member -> Seq(Message)]
      /\ up'[m] = Tail(up[m])
      /\ \A n \in Member : n # m => up'[n] = up[n]
    BY <1>1, TailWire DEF Forward
<1>3. /\ h \in Message
      /\ Mentions(up[m], h.t) /\ Carried(up[m], h)
      /\ \A n \in Member : \A x : Carried(up[n], x) <=>
           Carried(up'[n], x) \/ (n = m /\ x = h)
      /\ \A n \in Member : \A u : Mentions(up'[n], u) => Mentions(up[n], u)
      /\ \A n \in Member : \A u : Once(up[n], u) => Once(up'[n], u)
      /\ \A u : Once(up[m], u) /\ h.t = u => ~ Mentions(up'[m], u)
  <2>1. /\ h \in Message
        /\ \A x : Carried(up[m], x) <=> x = h \/ Carried(Tail(up[m]), x)
        /\ \A u : Mentions(up[m], u) <=> h.t = u \/ Mentions(Tail(up[m]), u)
        /\ \A u : Once(up[m], u) => Once(Tail(up[m]), u)
        /\ \A u : Once(up[m], u) /\ h.t = u => ~ Mentions(Tail(up[m]), u)
      BY <1>1, TailWire
  <2> HIDE DEF h
  <2>2. QED
      BY <1>2, <2>1
<1>4. /\ h.t \in Transport /\ Owner(h.t) = m /\ m \in members
      /\ h.kind \in Steps(h.t) /\ h.kind \in Kind /\ h = Msg(h.kind, h.t)
  <2>1. Owner(h.t) = m /\ h.kind \in Steps(h.t)
      BY <1>1, <1>3 DEF HandshakeTypes
  <2>2. m \in members
      BY <1>1 DEF HandshakeInv, MembersOnly
  <2>3. h.t \in Transport /\ h = Msg(h.kind, h.t)
      BY <1>3 DEF Message, Msg
  <2>4. QED
      BY <2>1, <2>2, <2>3 DEF Steps, Kind
<1> HIDE DEF h
<1>5. Dispatched(q) => WorkerHandles(q)
    BY DEF Forward, h
<1>6. ~ Dispatched(q) => UNCHANGED vars
    BY DEF Forward, h
<1>7. Dispatched(q) => /\ q \in Request /\ q.kind = h.kind /\ q.n = h.t
                       /\ q.id = (IF h.t = Mic THEN Mic ELSE index)
                       /\ q.id # None /\ status[q.id] # "unallocated"
    BY <1>1, <1>3, <1>4, WorkerRequests DEF Dispatched
<1>8. /\ sent' = sent \cup new
      /\ \A x \in new : x \in Request /\ x \notin sent /\ acks[x] = 0
      /\ UNCHANGED <<transportState, producers, consumers, acks>>
  <2>1. WorkerInv
      BY DEF HandshakeInv
  <2>2. CASE Dispatched(q)
      BY <1>5, <2>1, <2>2, TakenOn DEF mediaVars, resultVars
  <2>3. CASE ~ Dispatched(q)
      BY <1>6, <2>3 DEF vars, mediaVars, resultVars, requestVars
  <2>4. QED
      BY <2>2, <2>3
<1>9. \A x \in new : /\ x = q /\ x.kind = h.kind /\ x.n = h.t
                     /\ x.id = (IF h.t = Mic THEN Mic ELSE index)
                     /\ x.id # None /\ status[x.id] # "unallocated"
    BY <1>7
<1>10. Dispatched(q) <=> new # {}
    OBVIOUS
<1> HIDE DEF new
<1>11. \A u \in Transport : /\ Made(u)' <=> Made(u)
                            /\ OnlyOne(u)' <=> OnlyOne(u)
    BY <1>8 DEF Made, OnlyOne
<1>12. \A u \in Transport : InUse(u)' => InUse(u)
    BY <1>1, <1>3, <1>4, <1>8, <1>9, Requests DEF InUse

<1>13. AcksHaveEffects'
  <2>1. producers \subseteq Transport
      BY DEF HandshakeInv, WorkerInv, TypeOK, Transport
  <2>2. QED
      BY <1>8, <1>11, <2>1 DEF HandshakeInv, AcksHaveEffects
<1>14. HandshakeTypes' /\ MembersOnly'
  <2>1. \A n \in Member : up[n] = <<>> => up'[n] = <<>>
      BY <1>1, <1>2
  <2>2. HandshakeTypes'
      BY <1>1, <1>2, <1>3 DEF HandshakeTypes
  <2>3. MembersOnly'
      BY <1>1, <1>11, <2>1, Requests DEF HandshakeInv, MembersOnly
  <2>4. QED
      BY <2>2, <2>3
<1>15. UsedAreAllocated'
    BY <1>1, <1>8, <1>12, Requests DEF HandshakeInv, UsedAreAllocated
<1>16. RequestsAreSorted'
  <2>1. ASSUME NEW x \in new
        PROVE  /\ x.kind \in Steps(x.n)
               /\ x.n = Mic => x.id = Mic
               /\ x.n # Mic => x.id # Mic
               /\ OnlyOne(x.n) => x.id = x.n
               /\ status[x.id] # "unallocated"
    <3>1. x.n # Mic => x.id \in Receiver /\ Made(x.id)
        BY <1>1, <1>9, Requests DEF HandshakeInv, UsedAreAllocated, Made
    <3>2. QED
        BY <1>4, <1>9, <3>1, Requests DEF OnlyOne, Made
  <2>2. \A x \in sent : x.n \in Transport
      BY Requests, Unacknowledged DEF HandshakeInv
  <2>3. QED
      BY <1>1, <1>4, <1>8, <1>9, <1>11, <2>1, <2>2 DEF HandshakeInv, RequestsAreSorted
<1>17. ParamsComeFirst'
    BY <1>1 DEF HandshakeInv, ParamsComeFirst
<1>18. OneStepAtATime'
  <2>1. ASSUME NEW u \in Transport, browser[u] # "failed", u # h.t
        PROVE  OnItsWay(u)' /\ AtTheWorker(u)'
    <3>1. OnItsWay(u) /\ AtTheWorker(u)
        BY <2>1 DEF HandshakeInv, OneStepAtATime
    <3>2. NothingNew(u)
        BY <1>1, <1>3, Requests DEF NothingNew
    <3>3. SameRequests(u)
        BY <1>8, <1>9, <2>1 DEF SameRequests
    <3>4. QED
        BY <1>1, <1>2, <3>1, <3>2, <3>3, Untouched
  <2>2. ASSUME NEW t \in Transport, browser[t] # "failed", t = h.t
        PROVE  OnItsWay(t)' /\ AtTheWorker(t)'
    <3>1. OnItsWay(t) /\ AtTheWorker(t) /\ Owner(t) = m
        BY <1>4, <2>2 DEF HandshakeInv, OneStepAtATime
    <3>2. /\ browser[t] = h.kind /\ AskedBy(t, h.kind) = {}
          /\ ~ Mentions(down[m], t) /\ ~ Mentions(up'[m], t)
      <4>1. browser[t] = h.kind
          BY <1>3, <1>4, <2>2, <3>1 DEF OnItsWay
      <4>2. QED
          BY <1>3, <2>2, <3>1, <4>1 DEF OnItsWay, AtTheWorker
    <3>3. \A kind \in Kind : /\ ~ Carried(up'[m], Msg(kind, t))
                             /\ ~ Carried(down[m], Msg(kind, t))
        BY <1>1, <1>2, <1>4, <3>2, Wires
    <3>4. OnItsWay(t)'
        BY <1>1, <1>3, <3>1, <3>2, <3>3 DEF OnItsWay
    <3>5. AskedBy(t, browser[t])' = new
        BY <1>1, <1>8, <1>9, <2>2, <3>2 DEF AskedBy
    <3>6. AtTheWorker(t)'
      <4>1. (\A x \in sent : x.n = t =>
              x.kind = browser[t] \/ (Passed(t, x.kind) /\ acks[x] = 1))'
          BY <1>1, <1>8, <1>9, <2>2, <3>1, <3>2 DEF AtTheWorker, Passed
      <4>2. (\A kind \in Steps(t) : Passed(t, kind) =>
              \E x \in AskedBy(t, kind) : acks[x] = 1)'
          BY <1>1, <1>8, <3>1 DEF AtTheWorker, Passed, AskedBy
      <4>3. (\A x, p \in AskedBy(t, browser[t]) : x = p)'
          BY <1>9, <3>5
      <4>4. QED
          BY <1>1, <3>1, <3>2, <3>3, <4>1, <4>2, <4>3 DEF AtTheWorker
    <3>7. QED
        BY <3>4, <3>6
  <2>3. QED
      BY <1>1, <2>1, <2>2 DEF OneStepAtATime
<1>19. StatusFollowsWorker' /\ AnnouncedIsProducing'
    BY <1>1, <1>8 DEF HandshakeInv, StatusFollowsWorker, AnnouncedIsProducing
<1>20. ProducesAfterConnect'
  <2>1. h.kind = "produce" => h.t = Mic /\ Carried(up[Speaker], Msg("produce", Mic))
      BY <1>3, <1>4 DEF Steps, Owner
  <2>2. QED
      BY <1>1, <1>3, <1>8, <1>9, <2>1, Requests DEF HandshakeInv, ProducesAfterConnect
<1>21. NobodyWaitsInVain'
  <2>1. ASSUME NEW u \in Transport, browser[u] \in Kind, OnlyOne(u)
        PROVE  WaitedFor(u)'
    <3>1. WaitedFor(u)
        BY <2>1 DEF HandshakeInv, NobodyWaitsInVain
    <3>2. CASE h = Msg(browser[u], u)
      <4>1. h.kind = browser[u] /\ h.t = u
          BY <3>2, Wires
      <4>2. CASE new # {}
        <5>1. q \in AskedBy(u, browser[u])' /\ acks'[q] = 0
            BY <1>1, <1>8, <1>9, <4>1, <4>2 DEF AskedBy
        <5>2. QED
            BY <5>1 DEF WaitedFor
      <4>3. CASE new = {}
        <5>1. ~ Dispatched(q)
            BY <1>10, <4>3
        <5>2. q.id = u /\ q.kind = browser[u]
            BY <1>3, <1>4, <2>1, <4>1, FirstConnect DEF WorkerRequest
        <5>3. u # None /\ status[u] # "unallocated"
            BY <1>3, <1>4, <4>1, Requests DEF HandshakeInv, UsedAreAllocated, InUse
        <5>4. browser[u] = "connect" => status[u] # "connected"
            BY <1>3, <1>4, <2>1, <4>1, FirstConnect
        <5>5. browser[u] = "consume" /\ Speaker \notin members
            BY <5>1, <5>2, <5>3, <5>4 DEF Dispatched
        <5>6. QED
            BY <1>1, <5>5 DEF WaitedFor
      <4>4. QED
          BY <4>2, <4>3
    <3>3. CASE h # Msg(browser[u], u)
        BY <1>1, <1>3, <1>8, <3>1, <3>3, Requests DEF WaitedFor, AskedBy
    <3>4. QED
        BY <3>2, <3>3
  <2>2. QED
      BY <1>1, <1>11, <2>1 DEF NobodyWaitsInVain
<1>22. QED
    BY <1>13, <1>14, <1>15, <1>16, <1>17, <1>18, <1>19, <1>20, <1>21 DEF HandshakeInv

-----------------------------------------------------------------------------
(***************************************************************************)
(* An answer is sent back                                                  *)
(***************************************************************************)
LEMMA ReplyStep ==
  ASSUME HandshakeInv, WorkerInv', NEW q \in Request,
         ConnectAnswered(q) \/ ProduceAnswered(q) \/ ConsumeOrResumeAnswered(q)
  PROVE  HandshakeInv'
<1> DEFINE msg == Msg(q.kind, q.n)
<1>1. /\ q \in sent /\ acks[q] = 0 /\ acks'[q] = 1
      /\ \A x \in Request : x # q => acks'[x] = acks[x]
      /\ UNCHANGED <<mediaVars, sent>>
      /\ producers' = producers \cup (IF q \in Produces THEN {q.id} ELSE {})
      /\ \A t \in Receiver : consumers'[t] =
           IF q \in Consumes /\ t = q.id THEN q.source ELSE consumers[t]
  <2>1. ConnectOrResumeDone(q) \/ ProduceDone(q) \/ ConsumeDone(q)
      BY DEF ConnectAnswered, ProduceAnswered, ConsumeOrResumeAnswered
  <2>2. WorkerInv
      BY DEF HandshakeInv
  <2>3. QED
      BY <2>1, <2>2, Acknowledged
<1>2. /\ q.kind \in Kind /\ q.n \in Transport /\ q.id \in Transport
      /\ q.kind \in Steps(q.n)
      /\ q.n = Mic <=> q.id = Mic
      /\ status[q.id] # "unallocated" /\ InUse(q.n)
      /\ sent \subseteq Request
    BY <1>1, Requests, Unacknowledged DEF HandshakeInv, RequestsAreSorted, InUse
<1>3. /\ UNCHANGED <<members, index, browser, up>>
      /\ q.kind = "connect" => status' = [status EXCEPT ![q.id] = "connected"]
      /\ q.kind # "connect" => status' = status
      /\ q.kind = "produce" => announced' = (announced \/ Speaker \in members)
      /\ q.kind # "produce" => announced' = announced
      /\ down' = Post(down, msg)
  <2>1. q \in Produces => q.kind = "produce"
      BY Requests
  <2>2. q \in Consumes => q.kind = "consume"
      BY Requests
  <2>3. CASE ConnectAnswered(q)
      BY <2>3 DEF ConnectAnswered, Reply
  <2>4. CASE ProduceAnswered(q)
      BY <2>1, <2>4 DEF ProduceAnswered, ProduceDone, Reply
  <2>5. CASE ConsumeOrResumeAnswered(q)
      BY <2>2, <2>5 DEF ConsumeOrResumeAnswered, ConsumeDone, Reply, serverVars
  <2>6. QED
      BY <2>3, <2>4, <2>5
<1>4. msg \in Message /\ msg.t = q.n /\ msg.kind = q.kind
    BY <1>2, Wires
<1>5. /\ HandshakeTypes /\ up \in [Member -> Seq(Message)]
      /\ down \in [Member -> Seq(Message)]
    BY DEF HandshakeInv, HandshakeTypes
<1> HIDE DEF msg
<1>6. Posted(down', down, msg)
    BY <1>3, <1>4, <1>5, PostEffect
<1>7. /\ down' \in [Member -> Seq(Message)]
      /\ \A m \in Member : m \notin members => down'[m] = down[m]
      /\ \A m \in Member : \A x : Carried(down'[m], x) <=>
           Carried(down[m], x) \/ (x = msg /\ m = Owner(q.n) /\ m \in members)
      /\ \A m \in Member : \A t : Mentions(down'[m], t) =>
           Mentions(down[m], t) \/ (q.n = t /\ m = Owner(t))
      /\ \A m \in Member : \A t :
           Once(down[m], t) /\ ~ (Mentions(down[m], t) /\ q.n = t) => Once(down'[m], t)
    BY <1>4, <1>6 DEF Posted
<1>8. /\ status' \in [Transport -> {"unallocated", "allocated", "connected"}]
      /\ \A t \in Transport : status'[t] =
           IF q.kind = "connect" /\ t = q.id THEN "connected" ELSE status[t]
    BY <1>2, <1>3, <1>5 DEF HandshakeTypes
<1>9. /\ \A t \in Transport : status'[t] # "unallocated" <=> status[t] # "unallocated"
      /\ \A t \in Transport : status[t] = "connected" => status'[t] = "connected"
    BY <1>2, <1>8
<1>10. /\ \A t \in Transport : transportState'[t] = transportState[t]
       /\ \A t \in Transport : /\ Made(t)' <=> Made(t)
                               /\ OnlyOne(t)' <=> OnlyOne(t)
       /\ UNCHANGED sent
    BY <1>1 DEF mediaVars, Made, OnlyOne
<1>11. \A t \in Transport : InUse(t)' => InUse(t)
    BY <1>1, <1>2, <1>3, <1>7, Requests DEF InUse
<1>12. AcksHaveEffects'
  <2>1. \A x \in Produces : x \in Request /\ x.id = Mic
      BY Requests, Kinds
  <2>2. \A x \in Consumes : x \in Request /\ x.id \in Receiver /\ x.source = Mic
      BY Requests, Kinds
  <2>3. (\A x \in Produces : acks[x] > 0 => x.id \in producers)'
      BY <1>1, <2>1 DEF HandshakeInv, AcksHaveEffects
  <2>4. (\A x \in Consumes : acks[x] > 0 => consumers[x.id] = x.source)'
      BY <1>1, <2>2 DEF HandshakeInv, AcksHaveEffects
  <2>5. Made(q.id) /\ producers \subseteq Transport
      BY <1>1 DEF HandshakeInv, WorkerInv, UsedAreMade, TypeOK, Transport
  <2>6. (\A p \in producers : Made(p))'
      BY <1>1, <1>2, <1>10, <2>5 DEF HandshakeInv, AcksHaveEffects
  <2>7. QED
      BY <2>3, <2>4, <2>6 DEF AcksHaveEffects
<1>13. HandshakeTypes'
  <2>1. (\A m \in Member, x \in Message :
          /\ Carried(up[m], x) => Owner(x.t) = m /\ x.kind \in Steps(x.t)
          /\ Carried(down[m], x) => Owner(x.t) = m /\ x.kind \in Steps(x.t) \cup {"params"})'
      BY <1>2, <1>3, <1>4, <1>5, <1>7 DEF HandshakeTypes
  <2>2. announced' \in BOOLEAN
      BY <1>3, <1>5 DEF HandshakeTypes
  <2>3. QED
      BY <1>3, <1>5, <1>7, <1>8, <2>1, <2>2 DEF HandshakeTypes
<1>14. MembersOnly'
    BY <1>3, <1>7, <1>9, <1>10, Requests DEF HandshakeInv, MembersOnly
<1>15. UsedAreAllocated'
  <2>1. index # None => index \in Transport
      BY <1>5, Requests DEF HandshakeTypes
  <2>2. QED
      BY <1>3, <1>9, <1>10, <1>11, <2>1, Requests DEF HandshakeInv, UsedAreAllocated
<1>16. RequestsAreSorted'
  <2>1. \A x \in sent : x.id \in Transport /\ x.n \in Transport
      BY <1>2, Requests
  <2>2. QED
      BY <1>9, <1>10, <2>1 DEF HandshakeInv, RequestsAreSorted

<1>17. ParamsComeFirst'
  <2>1. \A t : Msg("params", t) # msg
      BY <1>2, <1>4, Wires DEF Kind
  <2>2. QED
      BY <1>3, <1>7, <2>1, Requests DEF HandshakeInv, ParamsComeFirst
<1>18. OneStepAtATime'
  <2>1. ASSUME NEW t \in Transport, browser[t] # "failed", t # q.n
        PROVE  OnItsWay(t)' /\ AtTheWorker(t)'
    <3>1. OnItsWay(t) /\ AtTheWorker(t)
        BY <2>1 DEF HandshakeInv, OneStepAtATime
    <3>2. \A kind : Msg(kind, t) # msg
        BY <1>4, <2>1, Wires
    <3>3. NothingNew(t)
        BY <1>3, <1>7, <2>1, <3>2, Requests DEF NothingNew
    <3>4. SameRequests(t)
        BY <1>1, <1>2, <2>1 DEF SameRequests
    <3>5. QED
        BY <1>3, <1>5, <1>7, <3>1, <3>3, <3>4, Untouched
  <2>2. ASSUME NEW t \in Transport, browser[t] # "failed", t = q.n
        PROVE  OnItsWay(t)' /\ AtTheWorker(t)'
    <3>1. OnItsWay(t) /\ AtTheWorker(t)
        BY <2>2 DEF HandshakeInv, OneStepAtATime
    <3>2. q.kind = browser[t]
        BY <1>1, <2>2, <3>1 DEF AtTheWorker
    <3>3. \A kind : q \in AskedBy(t, kind) <=> kind = q.kind
        BY <1>1, <2>2 DEF AskedBy
    <3>4. AskedBy(t, q.kind) = {q}
        BY <3>1, <3>2, <3>3 DEF AtTheWorker
    <3>5. ~ Mentions(up[Owner(t)], t)
        BY <3>1, <3>2, <3>4 DEF AtTheWorker
    <3>6. \A kind \in Kind \cup {"params"} : ~ Carried(down[Owner(t)], Msg(kind, t))
      <4>1. \A kind \in Kind : ~ Carried(down[Owner(t)], Msg(kind, t))
          BY <1>1, <3>1, <3>2, <3>4 DEF AtTheWorker, OnItsWay
      <4>2. ~ Carried(down[Owner(t)], Msg("params", t))
          BY <1>2, <3>2 DEF HandshakeInv, ParamsComeFirst, Kind
      <4>3. QED
          BY <4>1, <4>2
    <3>7. ~ Mentions(down[Owner(t)], t)
        BY <1>5, <3>6, Requests, Wires
    <3>8. \A kind \in Kind : Carried(down'[Owner(t)], Msg(kind, t)) => kind = q.kind
        BY <1>4, <1>7, <3>6, Requests, Wires
    <3>9. OnItsWay(t)'
      <4>1. Once(down'[Owner(t)], t)
          BY <1>7, <3>1, <3>7, Requests DEF OnItsWay
      <4>2. QED
          BY <1>3, <3>1, <3>2, <3>5, <3>8, <4>1 DEF OnItsWay
    <3>10. \A kind : AskedBy(t, kind)' = AskedBy(t, kind)
        BY <1>10 DEF AskedBy
    <3>11. \A x \in sent : acks[x] = 1 => acks'[x] = 1
        BY <1>1, <1>2
    <3>12. AtTheWorker(t)'
      <4>1. (\A x \in sent : x.n = t =>
              x.kind = browser[t] \/ (Passed(t, x.kind) /\ acks[x] = 1))'
          BY <1>3, <1>10, <3>1, <3>11 DEF AtTheWorker, Passed
      <4>2. (\A kind \in Steps(t) : Passed(t, kind) =>
              \E x \in AskedBy(t, kind) : acks[x] = 1)'
        <5>1. \A kind : \A x \in AskedBy(t, kind) : acks[x] = 1 => acks'[x] = 1
            BY <3>11 DEF AskedBy
        <5>2. QED
            BY <1>3, <3>1, <3>10, <5>1 DEF AtTheWorker, Passed
      <4>3. (\A x, p \in AskedBy(t, browser[t]) : x = p)'
          BY <1>3, <3>1, <3>10 DEF AtTheWorker
      <4>4. (\A kind \in Kind : Carried(down[Owner(t)], Msg(kind, t)) =>
              /\ \E x \in AskedBy(t, kind) : acks[x] = 1
              /\ \A x \in AskedBy(t, kind) : acks[x] = 1)'
          BY <1>1, <3>4, <3>8, <3>10
      <4>5. QED
          BY <1>3, <3>5, <4>1, <4>2, <4>3, <4>4 DEF AtTheWorker
    <3>13. QED
        BY <3>9, <3>12
  <2>3. QED
      BY <1>3, <2>1, <2>2 DEF OneStepAtATime
<1>19. StatusFollowsWorker'
  <2>1. ASSUME NEW t \in Transport
        PROVE  status'[t] = "connected" <=> \E x \in Connects : x.id = t /\ acks'[x] > 0
    <3>1. \A x \in Connects : x \in Request /\ x.kind = "connect"
        BY Requests DEF Request
    <3>2. q.kind = "connect" => q \in Connects
        BY Requests
    <3>3. \A x \in Connects : acks'[x] > 0 <=> acks[x] > 0 \/ x = q
        BY <1>1, <3>1
    <3>4. status[t] = "connected" <=> \E x \in Connects : x.id = t /\ acks[x] > 0
        BY DEF HandshakeInv, StatusFollowsWorker
    <3>5. QED
        BY <1>8, <3>1, <3>2, <3>3, <3>4
  <2>2. QED
      BY <2>1 DEF StatusFollowsWorker
<1>20. ProducesAfterConnect'
  <2>1. ASSUME Carried(down'[Speaker], Msg("connect", Mic)), ~ Carried(down[Speaker], Msg("connect", Mic))
        PROVE  status'[Mic] = "connected"
    <3>1. q.kind = "connect" /\ q.n = Mic
        BY <1>4, <1>7, <2>1, Requests, Wires
    <3>2. QED
        BY <1>2, <1>8, <3>1
  <2>2. QED
      BY <1>1, <1>3, <1>9, <2>1, Requests DEF HandshakeInv, ProducesAfterConnect
<1>21. AnnouncedIsProducing'
  <2>1. CASE q.kind = "produce"
    <3>1. q.id = Mic /\ q \in Produces
        BY <2>1, Requests
    <3>2. status[Mic] = "connected"
        BY <1>1, <2>1 DEF HandshakeInv, ProducesAfterConnect
    <3>3. QED
        BY <1>1, <1>3, <2>1, <3>1, <3>2 DEF HandshakeInv, AnnouncedIsProducing
  <2>2. CASE q.kind # "produce"
    <3>1. q \notin Produces
        BY <2>2, Requests
    <3>2. QED
        BY <1>1, <1>3, <1>9, <2>2, <3>1, Requests DEF HandshakeInv, AnnouncedIsProducing
  <2>3. QED
      BY <2>1, <2>2
<1>22. NobodyWaitsInVain'
  <2>1. ASSUME NEW t \in Transport, browser[t] \in Kind, OnlyOne(t)
        PROVE  WaitedFor(t)'
    <3>1. WaitedFor(t)
        BY <2>1 DEF HandshakeInv, NobodyWaitsInVain
    <3>2. CASE q \in AskedBy(t, browser[t])
      <4>1. t = q.n /\ q.kind = browser[t] /\ Owner(t) \in members
          BY <2>1, <3>2 DEF AskedBy, HandshakeInv, MembersOnly, Active
      <4>2. Carried(down'[Owner(t)], Msg(browser[t], t))
          BY <1>7, <4>1, Requests DEF msg
      <4>3. QED
          BY <1>3, <4>2 DEF WaitedFor
    <3>3. CASE q \notin AskedBy(t, browser[t])
      <4>1. \A x \in AskedBy(t, browser[t]) : acks'[x] = acks[x]
          BY <1>1, <1>2, <3>3 DEF AskedBy
      <4>2. AskedBy(t, browser[t])' = AskedBy(t, browser[t])
          BY <1>3, <1>10 DEF AskedBy
      <4>3. QED
          BY <1>3, <1>7, <3>1, <4>1, <4>2, Requests DEF WaitedFor
    <3>4. QED
        BY <3>2, <3>3
  <2>2. QED
      BY <1>3, <1>10, <2>1 DEF NobodyWaitsInVain
<1>23. QED
    BY <1>12, <1>13, <1>14, <1>15, <1>16, <1>17, <1>18, <1>19, <1>20, <1>21, <1>22
       DEF HandshakeInv

-----------------------------------------------------------------------------
(***************************************************************************)
(* The browser's steps                                                     *)
(***************************************************************************)

\* A step is followed by the one that all earlier ones precede.
LEMMA NextStep ==
  ASSUME NEW t \in Transport, NEW kind \in Steps(t)
  PROVE  LET s == StepAfter(kind, t) IN
         /\ s \in Steps(t) \cup {"ready"} /\ s # kind
         /\ <<s, kind>> \notin StepOrder(t)
         /\ \A k : <<k, s>> \in StepOrder(t) <=> k = kind \/ <<k, kind>> \in StepOrder(t)
         /\ t = Mic => (kind = "connect" /\ s = "produce") \/ (kind = "produce" /\ s = "ready")
<1>1. [connect |-> "produce", produce |-> "ready"]["connect"] = "produce"
    OBVIOUS
<1>2. [connect |-> "produce", produce |-> "ready"]["produce"] = "ready"
    OBVIOUS
<1>3. [consume |-> "connect", connect |-> "resume", resume |-> "ready"]["consume"] = "connect"
    OBVIOUS
<1>4. [consume |-> "connect", connect |-> "resume", resume |-> "ready"]["connect"] = "resume"
    OBVIOUS
<1>5. [consume |-> "connect", connect |-> "resume", resume |-> "ready"]["resume"] = "ready"
    OBVIOUS
<1>6. CASE t = Mic
  <2>1. CASE kind = "connect"
      BY <1>1, <1>6, <2>1 DEF StepAfter, Steps, StepOrder
  <2>2. CASE kind = "produce"
      BY <1>2, <1>6, <2>2 DEF StepAfter, Steps, StepOrder
  <2>3. QED
      BY <1>6, <2>1, <2>2 DEF Steps
<1>7. CASE t # Mic
  <2>1. CASE kind = "consume"
      BY <1>3, <1>7, <2>1 DEF StepAfter, Steps, StepOrder
  <2>2. CASE kind = "connect"
      BY <1>4, <1>7, <2>2 DEF StepAfter, Steps, StepOrder
  <2>3. CASE kind = "resume"
      BY <1>5, <1>7, <2>3 DEF StepAfter, Steps, StepOrder
  <2>4. QED
      BY <1>7, <2>1, <2>2, <2>3 DEF Steps
<1>8. QED
    BY <1>6, <1>7

\* What becomes of a transport when the message of a kind reaches its browser:
\* it moves to the next step, and asks for it unless it is ready then; or it was
\* given up before, and nothing happens.
Moves(t, kind, s, asks) ==
  /\ browser' = [browser EXCEPT ![t] = s]
  /\ IF asks THEN Posted(up', up, Msg(s, t)) ELSE up' = up
  /\ asks <=> s \in Steps(t)
  /\ \/ /\ s \in Steps(t) \cup {"ready"} /\ s # browser[t]
        /\ browser[t] = (IF kind = "params" THEN "none" ELSE kind)
        /\ <<s, browser[t]>> \notin StepOrder(t)
        /\ \A k \in Kind : <<k, s>> \in StepOrder(t)
                           <=> k = browser[t] \/ <<k, browser[t]>> \in StepOrder(t)
        /\ t = Mic /\ s # "connect" => browser[t] \in {"connect", "produce"}
        /\ browser[t] = "connect" \/ s # "produce"
     \/ s = "failed" /\ browser[t] = "failed" /\ kind # "params"

LEMMA ReceiveMoves ==
  ASSUME HandshakeInv, NEW m \in Member, ClientReceives(m)
  PROVE  \E t \in Transport, kind \in Kind \cup {"params"}, asks \in BOOLEAN :
           \E s \in Active \cup {"failed"} :
             /\ Head(down[m]) = Msg(kind, t) /\ Owner(t) = m /\ m \in members
             /\ kind \in Steps(t) \cup {"params"}
             /\ Moves(t, kind, s, asks)
<1> DEFINE h == Head(down[m])
<1>1. /\ down[m] # <<>> /\ down[m] \in Seq(Message)
      /\ HandshakeTypes /\ up \in [Member -> Seq(Message)]
      /\ browser \in [Transport -> Active \cup {"none", "failed"}]
    BY DEF ClientReceives, HandshakeInv, HandshakeTypes
<1>2. h \in Message /\ Carried(down[m], h)
    BY <1>1, TailWire
<1>3. PICK t \in Transport, kind \in Kind \cup {"params"} : h = Msg(kind, t)
    BY <1>2, Wires
<1> HIDE DEF h
<1>4. Owner(t) = m /\ kind \in Steps(t) \cup {"params"} /\ m \in members
  <2>1. Owner(t) = m /\ kind \in Steps(t) \cup {"params"}
      BY <1>1, <1>2, <1>3, Wires DEF HandshakeTypes
  <2>2. QED
      BY <1>1, <2>1 DEF HandshakeInv, MembersOnly
<1>5. IF kind = "params" THEN Create(t) ELSE OnAnswer(kind, t)
    BY <1>3, Wires DEF ClientReceives, h
<1>6. ASSUME NEW s \in Steps(t), Ask(t, s)
      PROVE  browser' = [browser EXCEPT ![t] = s] /\ Posted(up', up, Msg(s, t))
  <2>1. Msg(s, t) \in Message
      BY Wires DEF Steps, Kind
  <2>2. QED
      BY <1>1, <1>6, <2>1, PostEffect DEF Ask
<1>7. "ready" \notin Steps(t) /\ "failed" \notin Steps(t) /\ Steps(t) \subseteq Active
    BY DEF Steps, Active, Kind
<1>8. CASE kind = "params"
  <2> DEFINE s == IF t = Mic THEN "connect" ELSE "consume"
  <2>1. browser[t] = "none"
      BY <1>2, <1>3, <1>4, <1>8 DEF HandshakeInv, ParamsComeFirst
  <2>2. /\ s \in Steps(t) /\ <<s, "none">> \notin StepOrder(t)
        /\ \A k : <<k, s>> \notin StepOrder(t) /\ <<k, "none">> \notin StepOrder(t)
        /\ "none" \notin Steps(t)
        /\ s # "produce" /\ (t = Mic => s = "connect")
      BY DEF Steps, StepOrder
  <2> HIDE DEF s
  <2>3. browser' = [browser EXCEPT ![t] = s] /\ Posted(up', up, Msg(s, t))
      BY <1>5, <1>6, <1>8, <2>2 DEF Create, s
  <2>4. Moves(t, kind, s, TRUE)
      BY <1>8, <2>1, <2>2, <2>3 DEF Moves, Kind
  <2>5. QED
      BY <1>3, <1>4, <1>7, <2>2, <2>4 DEF h
<1>9. CASE kind # "params" /\ browser[t] # kind
  <2>1. browser[t] = "failed"
    <3>1. kind \in Kind /\ Carried(down[Owner(t)], Msg(kind, t))
        BY <1>2, <1>3, <1>4, <1>9
    <3>2. QED
        BY <1>9, <3>1 DEF HandshakeInv, OneStepAtATime, OnItsWay
  <2>2. UNCHANGED <<browser, up>>
      BY <1>5, <1>9 DEF OnAnswer
  <2>3. browser' = [browser EXCEPT ![t] = "failed"]
      BY <1>1, <2>1, <2>2
  <2>4. Moves(t, kind, "failed", FALSE)
      BY <1>7, <1>9, <2>1, <2>2, <2>3 DEF Moves
  <2>5. QED
      BY <1>3, <1>4, <2>4 DEF h
<1>10. CASE kind # "params" /\ browser[t] = kind
  <2> DEFINE s == StepAfter(kind, t)
  <2>1. kind \in Steps(t) /\ kind \in Kind
      BY <1>4, <1>10 DEF Steps
  <2>2. /\ s \in Steps(t) \cup {"ready"} /\ s # kind
        /\ <<s, kind>> \notin StepOrder(t)
        /\ \A k : <<k, s>> \in StepOrder(t) <=> k = kind \/ <<k, kind>> \in StepOrder(t)
        /\ t = Mic => (kind = "connect" /\ s = "produce") \/ (kind = "produce" /\ s = "ready")
      BY <2>1, NextStep
  <2>3. kind = "connect" \/ s # "produce"
    <3>1. s = "produce" => t = Mic
        BY <2>2 DEF Steps
    <3>2. QED
        BY <2>2, <3>1
  <2>4. IF s = "ready" THEN browser' = [browser EXCEPT ![t] = "ready"] /\ UNCHANGED up
                       ELSE Ask(t, s)
      BY <1>5, <1>10 DEF OnAnswer
  <2> HIDE DEF s
  <2>5. CASE s = "ready"
    <3>1. Moves(t, kind, s, FALSE)
        BY <1>7, <1>10, <2>2, <2>3, <2>4, <2>5 DEF Moves
    <3>2. QED
        BY <1>3, <1>4, <2>5, <3>1 DEF h, Active
  <2>6. CASE s # "ready"
    <3>1. s \in Steps(t) /\ browser' = [browser EXCEPT ![t] = s] /\ Posted(up', up, Msg(s, t))
        BY <1>6, <2>2, <2>4, <2>6
    <3>2. Moves(t, kind, s, TRUE)
        BY <1>10, <2>2, <2>3, <3>1 DEF Moves
    <3>3. QED
        BY <1>3, <1>4, <1>7, <3>1, <3>2 DEF h
  <2>7. QED
      BY <2>5, <2>6
<1>11. QED
    BY <1>8, <1>9, <1>10

LEMMA ReceiveStep ==
  ASSUME HandshakeInv, WorkerInv', NEW m \in Member, ClientReceives(m)
  PROVE  HandshakeInv'
<1>1. PICK t \in Transport, kind \in Kind \cup {"params"}, asks \in BOOLEAN,
           s \in Active \cup {"failed"} :
        /\ Head(down[m]) = Msg(kind, t) /\ Owner(t) = m /\ m \in members
        /\ kind \in Steps(t) \cup {"params"}
        /\ Moves(t, kind, s, asks)
    BY ReceiveMoves
<1>2. /\ HandshakeTypes /\ up \in [Member -> Seq(Message)]
      /\ down \in [Member -> Seq(Message)]
      /\ down[m] \in Seq(Message) /\ down[m] # <<>>
      /\ browser \in [Transport -> Active \cup {"none", "failed"}]
      /\ UNCHANGED <<members, status, index, announced>>
      /\ UNCHANGED <<transportState, producers, consumers, sent, acks>>
      /\ \A x \in sent : x \in Request /\ x.kind \in Kind /\ x.n \in Transport
    BY Requests, Unacknowledged DEF ClientReceives, HandshakeInv, HandshakeTypes,
       serverVars, vars, mediaVars, resultVars, requestVars
<1>3. /\ down' \in [Member -> Seq(Message)]
      /\ down'[m] = Tail(down[m])
      /\ \A n \in Member : n # m => down'[n] = down[n]
    BY <1>2, TailWire DEF ClientReceives
<1>4. /\ Mentions(down[m], t) /\ Carried(down[m], Msg(kind, t))
      /\ \A n \in Member : \A x : Carried(down'[n], x) => Carried(down[n], x)
      /\ \A n \in Member : \A x : Carried(down[n], x) =>
           Carried(down'[n], x) \/ (n = m /\ x = Msg(kind, t))
      /\ \A n \in Member : \A u : Mentions(down'[n], u) => Mentions(down[n], u)
      /\ \A n \in Member : \A u : Once(down[n], u) => Once(down'[n], u)
      /\ Once(down[m], t) => ~ Mentions(down'[m], t)
  <2> DEFINE h == Head(down[m])
             w == Tail(down[m])
  <2>1. /\ \A x : Carried(down[m], x) <=> x = h \/ Carried(w, x)
        /\ \A u : Mentions(down[m], u) <=> h.t = u \/ Mentions(w, u)
        /\ \A u : Once(down[m], u) => Once(w, u)
        /\ \A u : Once(down[m], u) /\ h.t = u => ~ Mentions(w, u)
      BY <1>2, TailWire
  <2>2. h = Msg(kind, t) /\ h.t = t /\ down'[m] = w
      BY <1>1, <1>3, Wires
  <2> HIDE DEF h, w
  <2>3. QED
      BY <1>3, <2>1, <2>2
<1>5. /\ asks => s \in Steps(t) /\ s \in Kind /\ s # "params"
      /\ browser' = [browser EXCEPT ![t] = s]
      /\ \A u \in Transport : browser'[u] = IF u = t THEN s ELSE browser[u]
    BY <1>1, <1>2 DEF Moves, Steps, Kind
<1>6. /\ up' \in [Member -> Seq(Message)]
      /\ \A n \in Member : n \notin members => up'[n] = up[n]
      /\ \A n \in Member : \A x : Carried(up'[n], x) <=>
           Carried(up[n], x) \/ (asks /\ x = Msg(s, t) /\ n = m)
      /\ \A n \in Member : \A u : Mentions(up'[n], u) =>
           Mentions(up[n], u) \/ (asks /\ u = t /\ n = m)
      /\ \A n \in Member : \A u :
           Once(up[n], u) /\ ~ (Mentions(up[n], u) /\ u = t) => Once(up'[n], u)
  <2>1. CASE asks
    <3>1. Posted(up', up, Msg(s, t)) /\ Msg(s, t).t = t
        BY <1>1, <2>1, Wires DEF Moves
    <3>2. QED
        BY <1>1, <2>1, <3>1 DEF Posted
  <2>2. CASE ~ asks
      BY <1>1, <1>2, <2>2 DEF Moves
  <2>3. QED
      BY <2>1, <2>2
<1>7. \A u \in Transport : InUse(u)' => InUse(u)
  <2>1. InUse(t)
      BY <1>1, <1>4 DEF InUse
  <2>2. QED
      BY <1>2, <1>4, <1>5, <1>6, <2>1, Requests DEF InUse
<1>8. AcksHaveEffects' /\ UsedAreAllocated' /\ RequestsAreSorted' /\ StatusFollowsWorker'
      /\ AnnouncedIsProducing'
  <2>1. AcksHaveEffects'
      BY <1>2 DEF HandshakeInv, AcksHaveEffects, Made
  <2>2. UsedAreAllocated'
      BY <1>2, <1>7, Requests DEF HandshakeInv, UsedAreAllocated
  <2>3. RequestsAreSorted'
      BY <1>2 DEF HandshakeInv, RequestsAreSorted, OnlyOne
  <2>4. StatusFollowsWorker' /\ AnnouncedIsProducing'
      BY <1>2 DEF HandshakeInv, StatusFollowsWorker, AnnouncedIsProducing
  <2>5. QED
      BY <2>1, <2>2, <2>3, <2>4
<1>9. HandshakeTypes'
  <2>1. browser' \in [Transport -> Active \cup {"none", "failed"}]
      BY <1>2, <1>5
  <2>2. \A u \in Transport : browser'[u] \in Active => browser'[u] \in Steps(u) \cup {"ready"}
    <3>1. s \in Active => s \in Steps(t) \cup {"ready"}
        BY <1>1 DEF Moves, Active, Kind
    <3>2. QED
        BY <1>2, <1>5, <3>1 DEF HandshakeTypes
  <2>3. (\A n \in Member, x \in Message :
          /\ Carried(up[n], x) => Owner(x.t) = n /\ x.kind \in Steps(x.t)
          /\ Carried(down[n], x) => Owner(x.t) = n /\ x.kind \in Steps(x.t) \cup {"params"})'
      BY <1>1, <1>2, <1>4, <1>5, <1>6, Wires DEF HandshakeTypes
  <2>4. QED
      BY <1>2, <1>3, <1>6, <2>1, <2>2, <2>3 DEF HandshakeTypes
<1>10. MembersOnly'
  <2>1. s = "failed" => browser[t] = "failed"
      BY <1>1 DEF Moves, Steps
  <2>2. \A n \in Member : down[n] = <<>> => down'[n] = <<>>
      BY <1>2, <1>3
  <2>3. QED
      BY <1>1, <1>2, <1>5, <1>6, <2>1, <2>2, Requests DEF HandshakeInv, MembersOnly, Made

<1>11. browser[t] # "failed" =>
         /\ OnItsWay(t) /\ AtTheWorker(t)
         /\ ~ Mentions(up[m], t) /\ ~ Mentions(down'[m], t)
  <2>1. ASSUME browser[t] # "failed" PROVE OnItsWay(t) /\ AtTheWorker(t)
      BY <2>1 DEF HandshakeInv, OneStepAtATime
  <2>2. QED
      BY <1>1, <1>4, <2>1 DEF OnItsWay
<1>12. ParamsComeFirst'
  <2>1. ASSUME NEW u \in Transport, Carried(down'[Owner(u)], Msg("params", u))
        PROVE  browser'[u] = "none"
    <3>1. Carried(down[Owner(u)], Msg("params", u))
        BY <1>4, <2>1, Requests
    <3>2. browser[u] = "none"
        BY <3>1 DEF HandshakeInv, ParamsComeFirst
    <3>3. u # t
      <4>1. Mentions(down'[Owner(u)], u)
          BY <1>3, <2>1, Requests, Wires
      <4>2. QED
          BY <1>1, <1>11, <3>2, <4>1
    <3>4. QED
        BY <1>5, <3>2, <3>3
  <2>2. QED
      BY <2>1 DEF ParamsComeFirst
<1>13. OneStepAtATime'
  <2>1. ASSUME NEW u \in Transport, browser[u] # "failed", u # t
        PROVE  OnItsWay(u)' /\ AtTheWorker(u)'
    <3>1. OnItsWay(u) /\ AtTheWorker(u)
        BY <2>1 DEF HandshakeInv, OneStepAtATime
    <3>2. \A k : Msg(k, u) # Msg(s, t)
        BY <2>1, Wires
    <3>3. NothingNew(u)
      <4>1. /\ Once(up[Owner(u)], u) => Once(up'[Owner(u)], u)
            /\ Once(down[Owner(u)], u) => Once(down'[Owner(u)], u)
          BY <1>4, <1>6, <2>1, Requests
      <4>2. ASSUME NEW k
            PROVE  /\ Carried(up'[Owner(u)], Msg(k, u)) => Carried(up[Owner(u)], Msg(k, u))
                   /\ Carried(down'[Owner(u)], Msg(k, u)) => Carried(down[Owner(u)], Msg(k, u))
        <5>1. Owner(u) \in Member /\ Msg(k, u) # Msg(s, t)
            BY <3>2, Requests
        <5>2. QED
            BY <1>4, <1>6, <5>1
      <4>3. QED
          BY <4>1, <4>2 DEF NothingNew
    <3>4. SameRequests(u)
        BY <1>2 DEF SameRequests
    <3>5. QED
        BY <1>2, <1>3, <1>5, <1>6, <2>1, <3>1, <3>3, <3>4, Untouched
  <2>2. ASSUME s # "failed"
        PROVE  OnItsWay(t)' /\ AtTheWorker(t)'
    <3>1. /\ s # browser[t] /\ browser[t] # "failed"
          /\ browser[t] = (IF kind = "params" THEN "none" ELSE kind)
          /\ <<s, browser[t]>> \notin StepOrder(t)
          /\ \A k \in Kind : <<k, s>> \in StepOrder(t)
                             <=> k = browser[t] \/ <<k, browser[t]>> \in StepOrder(t)
      <4>1. kind # "failed"
          BY DEF Kind
      <4>2. QED
          BY <1>1, <2>2, <4>1 DEF Moves
    <3>2. /\ OnItsWay(t) /\ AtTheWorker(t)
          /\ ~ Mentions(up[m], t) /\ ~ Mentions(down'[m], t)
        BY <1>11, <3>1
    <3>3. \A k \in Kind : /\ Carried(up'[m], Msg(k, t)) => k = s
                          /\ ~ Carried(down'[m], Msg(k, t))
      <4>1. \A k \in Kind : ~ Carried(up[m], Msg(k, t)) /\ ~ Carried(down'[m], Msg(k, t))
          BY <1>2, <1>3, <3>2, Wires
      <4>2. QED
          BY <1>6, <4>1, Wires
    <3>4. OnItsWay(t)'
      <4>1. Once(up'[m], t) /\ Once(down'[m], t)
          BY <1>1, <1>4, <1>6, <3>2 DEF OnItsWay
      <4>2. QED
          BY <1>1, <1>5, <3>2, <3>3, <4>1 DEF OnItsWay
    <3>5. /\ \A k \in Kind : Passed(t, k)' <=> k = browser[t] \/ Passed(t, k)
          /\ \A k : AskedBy(t, k)' = AskedBy(t, k)
        BY <1>2, <1>5, <3>1 DEF Passed, AskedBy
    <3>6. \A k \in Kind : k = browser[t] =>
            /\ \E x \in AskedBy(t, k) : acks[x] = 1
            /\ \A x \in AskedBy(t, k) : acks[x] = 1
      <4>1. ASSUME NEW k \in Kind, k = browser[t]
            PROVE  Carried(down[m], Msg(k, t))
        <5>1. k = kind
            BY <3>1, <4>1 DEF Kind
        <5>2. QED
            BY <1>4, <5>1
      <4>2. QED
          BY <1>1, <3>2, <4>1 DEF AtTheWorker
    <3>7. \A x \in sent : x.n = t => Passed(t, x.kind)' /\ acks[x] = 1
      <4>1. ASSUME NEW x \in sent, x.n = t
            PROVE  Passed(t, x.kind)' /\ acks[x] = 1
        <5>1. x.kind \in Kind /\ x \in AskedBy(t, x.kind)
            BY <1>2, <4>1 DEF AskedBy
        <5>2. CASE x.kind = browser[t]
            BY <3>5, <3>6, <5>1, <5>2
        <5>3. CASE x.kind # browser[t]
          <6>1. Passed(t, x.kind) /\ acks[x] = 1
              BY <3>2, <4>1, <5>3 DEF AtTheWorker
          <6>2. QED
              BY <3>5, <5>1, <6>1
        <5>4. QED
            BY <5>2, <5>3
      <4>2. QED
          BY <4>1
    <3>8. AskedBy(t, s) = {}
      <4>1. ASSUME NEW x \in AskedBy(t, s)
            PROVE  FALSE
        <5>1. x \in sent /\ x.n = t /\ x.kind = s /\ x.kind \in Kind
            BY <1>2, <4>1 DEF AskedBy
        <5>2. x.kind = browser[t] \/ Passed(t, x.kind)
            BY <3>2, <5>1 DEF AtTheWorker
        <5>3. QED
            BY <3>1, <5>1, <5>2 DEF Passed
      <4>2. QED
          BY <4>1
    <3>9. AtTheWorker(t)'
      <4>1. (\A x \in sent : x.n = t =>
              x.kind = browser[t] \/ (Passed(t, x.kind) /\ acks[x] = 1))'
          BY <1>2, <3>7
      <4>2. (\A k \in Steps(t) : Passed(t, k) => \E x \in AskedBy(t, k) : acks[x] = 1)'
        <5>1. ASSUME NEW k \in Steps(t), Passed(t, k)'
              PROVE  \E x \in AskedBy(t, k) : acks[x] = 1
          <6>1. k \in Kind
              BY DEF Steps, Kind
          <6>2. k = browser[t] \/ Passed(t, k)
              BY <3>5, <5>1, <6>1
          <6>3. QED
              BY <3>2, <3>6, <6>1, <6>2 DEF AtTheWorker
        <5>2. QED
            BY <1>2, <3>5, <5>1
      <4>3. AskedBy(t, browser[t])' = {}
          BY <1>5, <3>5, <3>8
      <4>4. QED
          BY <1>1, <3>3, <4>1, <4>2, <4>3 DEF AtTheWorker
    <3>10. QED
        BY <3>4, <3>9
  <2>3. QED
      BY <1>5, <2>1, <2>2 DEF OneStepAtATime
<1>14. ProducesAfterConnect'
  <2>1. ASSUME t = Mic, s \in {"produce", "ready"}
        PROVE  browser[Mic] = "produce" \/ Carried(down[Speaker], Msg("connect", Mic))
    <3>1. browser[Mic] \in {"connect", "produce"} /\ browser[Mic] = kind
        BY <1>1, <2>1 DEF Moves
    <3>2. QED
        BY <1>1, <1>4, <2>1, <3>1 DEF Owner
  <2>2. Carried(up'[Speaker], Msg("produce", Mic)) =>
          Carried(up[Speaker], Msg("produce", Mic)) \/ (t = Mic /\ s = "produce")
      BY <1>6, Requests, Wires
  <2>3. browser'[Mic] \in {"produce", "ready"} =>
          browser[Mic] \in {"produce", "ready"} \/ (t = Mic /\ s \in {"produce", "ready"})
      BY <1>5, Requests
  <2>4. QED
      BY <1>2, <1>4, <2>1, <2>2, <2>3, Requests DEF HandshakeInv, ProducesAfterConnect
<1>15. NobodyWaitsInVain'
  <2>1. ASSUME NEW u \in Transport, u # t, browser[u] \in Kind, OnlyOne(u)
        PROVE  WaitedFor(u)'
    <3>1. WaitedFor(u)
        BY <2>1 DEF HandshakeInv, NobodyWaitsInVain
    <3>2. Msg(browser[u], u) # Msg(kind, t)
        BY <2>1, Wires
    <3>3. QED
        BY <1>2, <1>4, <1>5, <1>6, <2>1, <3>1, <3>2, Requests DEF WaitedFor, AskedBy
  <2>2. ASSUME s \in Kind
        PROVE  WaitedFor(t)'
    <3>1. asks
        BY <1>1, <2>2 DEF Moves, Kind
    <3>2. Carried(up'[Owner(t)], Msg(browser'[t], t))
        BY <1>1, <1>5, <1>6, <3>1
    <3>3. QED
        BY <3>2 DEF WaitedFor
  <2>3. QED
      BY <1>2, <1>5, <2>1, <2>2 DEF NobodyWaitsInVain, OnlyOne
<1>16. QED
    BY <1>8, <1>9, <1>10, <1>12, <1>13, <1>14, <1>15 DEF HandshakeInv

\* A browser gives transports up, one that waited too long or all of a member
\* that leaves: nothing is asked for them any more.
LEMMA GiveUpStep ==
  ASSUME HandshakeInv, WorkerInv', NEW gone \in SUBSET Transport,
         \A t \in Transport : browser'[t] = IF t \in gone THEN "failed" ELSE browser[t],
         browser' \in [Transport -> Active \cup {"none", "failed"}],
         members' \subseteq members,
         UNCHANGED <<vars, status, index, announced>>,
         \/ /\ UNCHANGED <<up, down, members>>
            /\ \A t \in gone : browser[t] \in Kind
         \/ \E m \in members :
              /\ \A t \in Transport : Owner(t) = m => t \in gone
              /\ \A t \in gone : Owner(t) = m
              /\ members' = members \ {m}
              /\ up' = [up EXCEPT ![m] = <<>>] /\ down' = [down EXCEPT ![m] = <<>>]
  PROVE  HandshakeInv'
<1>1. /\ HandshakeTypes /\ up \in [Member -> Seq(Message)]
      /\ down \in [Member -> Seq(Message)]
      /\ UNCHANGED <<transportState, producers, consumers, sent, acks>>
    BY DEF HandshakeInv, HandshakeTypes, vars, mediaVars, resultVars, requestVars
<1>2. /\ up' \in [Member -> Seq(Message)] /\ down' \in [Member -> Seq(Message)]
      /\ \A n \in Member : up'[n] = up[n] \/ up'[n] = <<>>
      /\ \A n \in Member : down'[n] = down[n] \/ down'[n] = <<>>
      /\ \A n \in Member : n \notin members' =>
           n \notin members \/ (up'[n] = <<>> /\ down'[n] = <<>>)
      /\ \A t \in Transport : t \notin gone =>
           /\ up'[Owner(t)] = up[Owner(t)] /\ down'[Owner(t)] = down[Owner(t)]
           /\ Owner(t) \in members => Owner(t) \in members'
      /\ \A t \in gone : browser[t] \in Kind \/ down'[Owner(t)] = <<>>
  <2>1. CASE /\ UNCHANGED <<up, down, members>>
             /\ \A t \in gone : browser[t] \in Kind
      BY <1>1, <2>1
  <2>2. CASE \E m \in members :
               /\ \A t \in Transport : Owner(t) = m => t \in gone
               /\ \A t \in gone : Owner(t) = m
               /\ members' = members \ {m}
               /\ up' = [up EXCEPT ![m] = <<>>] /\ down' = [down EXCEPT ![m] = <<>>]
    <3>1. PICK m \in members :
            /\ \A t \in Transport : Owner(t) = m => t \in gone
            /\ \A t \in gone : Owner(t) = m
            /\ members' = members \ {m}
            /\ up' = [up EXCEPT ![m] = <<>>] /\ down' = [down EXCEPT ![m] = <<>>]
        BY <2>2
    <3>2. /\ up' \in [Member -> Seq(Message)] /\ down' \in [Member -> Seq(Message)]
          /\ \A n \in Member : /\ up'[n] = IF n = m THEN <<>> ELSE up[n]
                               /\ down'[n] = IF n = m THEN <<>> ELSE down[n]
      <4>1. <<>> \in Seq(Message)
          BY Wires
      <4>2. [up EXCEPT ![m] = <<>>] \in [Member -> Seq(Message)]
          BY <1>1, <4>1
      <4>3. [down EXCEPT ![m] = <<>>] \in [Member -> Seq(Message)]
          BY <1>1, <4>1
      <4>4. \A n \in Member : /\ up'[n] = IF n = m THEN <<>> ELSE up[n]
                              /\ down'[n] = IF n = m THEN <<>> ELSE down[n]
          BY <1>1, <3>1
      <4>5. up' \in [Member -> Seq(Message)]
          BY <3>1, <4>2, Zenon
      <4>6. down' \in [Member -> Seq(Message)]
          BY <3>1, <4>3, Zenon
      <4>7. QED
          BY <4>4, <4>5, <4>6
    <3>3. QED
        BY <3>1, <3>2, Requests
  <2>3. QED
      BY <2>1, <2>2
<1>3. ASSUME NEW n \in Member
      PROVE  /\ \A x : Carried(up'[n], x) => Carried(up[n], x)
             /\ \A x : Carried(down'[n], x) => Carried(down[n], x)
             /\ \A u : Mentions(up'[n], u) => Mentions(up[n], u)
             /\ \A u : Mentions(down'[n], u) => Mentions(down[n], u)
  <2>1. /\ up'[n] = up[n] \/ up'[n] = <<>>
        /\ down'[n] = down[n] \/ down'[n] = <<>>
      BY <1>2
  <2>2. (\A x : ~ Carried(<<>>, x)) /\ (\A u : ~ Mentions(<<>>, u))
      BY Wires
  <2>3. QED
      BY <2>1, <2>2
<1>4. \A u \in Transport : /\ InUse(u)' => InUse(u)
                           /\ OnlyOne(u)' <=> OnlyOne(u)
    BY <1>1, <1>3, Requests DEF InUse, OnlyOne, Active, Kind
<1>5. AcksHaveEffects' /\ UsedAreAllocated' /\ RequestsAreSorted'
      /\ StatusFollowsWorker' /\ AnnouncedIsProducing'
  <2>1. AcksHaveEffects'
      BY <1>1 DEF HandshakeInv, AcksHaveEffects, Made
  <2>2. UsedAreAllocated'
      BY <1>1, <1>4, Requests DEF HandshakeInv, UsedAreAllocated
  <2>3. RequestsAreSorted'
      BY <1>1 DEF HandshakeInv, RequestsAreSorted, OnlyOne
  <2>4. StatusFollowsWorker' /\ AnnouncedIsProducing'
      BY <1>1 DEF HandshakeInv, StatusFollowsWorker, AnnouncedIsProducing
  <2>5. QED
      BY <2>1, <2>2, <2>3, <2>4
<1>6. HandshakeTypes'
  <2>1. (\A n \in Member, x \in Message :
          /\ Carried(up[n], x) => Owner(x.t) = n /\ x.kind \in Steps(x.t)
          /\ Carried(down[n], x) => Owner(x.t) = n /\ x.kind \in Steps(x.t) \cup {"params"})'
      BY <1>1, <1>3 DEF HandshakeTypes
  <2>2. \A u \in Transport : browser'[u] \in Active => browser'[u] \in Steps(u) \cup {"ready"}
      BY <1>1 DEF HandshakeTypes, Active, Kind
  <2>3. QED
      BY <1>1, <1>2, <2>1, <2>2 DEF HandshakeTypes
<1>7. MembersOnly'
  <2>1. (\A n \in Member \ members : up[n] = <<>> /\ down[n] = <<>>)'
      BY <1>2 DEF HandshakeInv, MembersOnly
  <2>2. (\A t \in Transport : browser[t] \in Active => Owner(t) \in members)'
      BY <1>2 DEF HandshakeInv, MembersOnly, Active, Kind
  <2>3. (\A t \in Transport :
          browser[t] = "failed" /\ Owner(t) \in members => status[t] # "unallocated")'
    <3>1. ASSUME NEW t \in gone, Owner(t) \in members'
          PROVE  status[t] # "unallocated"
      <4>1. browser[t] \in Kind
          BY <3>1
      <4>2. InUse(t)
          BY <4>1 DEF InUse, Active
      <4>3. QED
          BY <4>2 DEF HandshakeInv, UsedAreAllocated
    <3>2. QED
        BY <3>1 DEF HandshakeInv, MembersOnly
  <2>4. (Speaker \in members => Made(Mic))' /\ (\A t \in Receiver : Made(t) => Made(Mic))'
      BY <1>1 DEF HandshakeInv, MembersOnly, Made
  <2>5. QED
      BY <2>1, <2>2, <2>3, <2>4 DEF MembersOnly
<1>8. ParamsComeFirst'
  <2>1. ASSUME NEW t \in Transport, Carried(down'[Owner(t)], Msg("params", t))
        PROVE  browser'[t] = "none"
    <3>1. browser[t] = "none"
        BY <1>3, <2>1, Requests DEF HandshakeInv, ParamsComeFirst
    <3>2. t \notin gone
      <4>1. ~ Carried(<<>>, Msg("params", t)) /\ browser[t] \notin Kind
          BY <3>1, Wires DEF Kind
      <4>2. QED
          BY <1>2, <2>1, <4>1
    <3>3. QED
        BY <3>1, <3>2
  <2>2. QED
      BY <2>1 DEF ParamsComeFirst
<1>9. OneStepAtATime'
  <2>1. ASSUME NEW t \in Transport, t \notin gone, browser[t] # "failed"
        PROVE  OnItsWay(t)' /\ AtTheWorker(t)'
    <3>1. OnItsWay(t) /\ AtTheWorker(t)
        BY <2>1 DEF HandshakeInv, OneStepAtATime
    <3>2. NothingNew(t) /\ SameRequests(t)
        BY <1>1, <1>2, <2>1 DEF NothingNew, SameRequests
    <3>3. QED
        BY <1>1, <1>2, <2>1, <3>1, <3>2, Untouched
  <2>2. QED
      BY <2>1 DEF OneStepAtATime
<1>10. ProducesAfterConnect'
  <2>1. browser'[Mic] \in {"produce", "ready"} => browser[Mic] \in {"produce", "ready"}
      BY Requests
  <2>2. QED
      BY <1>1, <1>3, <2>1, Requests DEF HandshakeInv, ProducesAfterConnect
<1>11. NobodyWaitsInVain'
  <2>1. ASSUME NEW t \in Transport, t \notin gone, browser[t] \in Kind, OnlyOne(t)
        PROVE  WaitedFor(t)'
    <3>1. WaitedFor(t)
        BY <2>1 DEF HandshakeInv, NobodyWaitsInVain
    <3>2. QED
        BY <1>1, <1>2, <2>1, <3>1 DEF WaitedFor, AskedBy
  <2>2. \A t \in gone : browser'[t] \notin Kind
      BY DEF Kind
  <2>3. QED
      BY <1>4, <2>1, <2>2 DEF NobodyWaitsInVain
<1>12. QED
    BY <1>5, <1>6, <1>7, <1>8, <1>9, <1>10, <1>11 DEF HandshakeInv

LEMMA TimeoutStep ==
  ASSUME HandshakeInv, WorkerInv', NEW t \in Transport, Timeout(t)
  PROVE  HandshakeInv'
<1>1. browser \in [Transport -> Active \cup {"none", "failed"}]
    BY DEF HandshakeInv, HandshakeTypes
<1>2. /\ browser' \in [Transport -> Active \cup {"none", "failed"}]
      /\ \A u \in Transport : browser'[u] = IF u \in {t} THEN "failed" ELSE browser[u]
      /\ \A u \in {t} : browser[u] \in Kind
      /\ UNCHANGED <<vars, status, index, announced>>
      /\ UNCHANGED <<up, down, members>>
    BY <1>1 DEF Timeout, serverVars
<1>3. {t} \in SUBSET Transport /\ members' \subseteq members
    BY <1>2
<1>4. QED
    BY <1>2, <1>3, GiveUpStep

LEMMA LeaveStep ==
  ASSUME HandshakeInv, WorkerInv', NEW m \in Member, Leave(m)
  PROVE  HandshakeInv'
<1> DEFINE gone == {t \in Transport : Owner(t) = m}
<1>1. browser \in [Transport -> Active \cup {"none", "failed"}]
    BY DEF HandshakeInv, HandshakeTypes
<1>2. /\ browser' \in [Transport -> Active \cup {"none", "failed"}]
      /\ \A u \in Transport : browser'[u] = IF u \in gone THEN "failed" ELSE browser[u]
      /\ UNCHANGED <<vars, status, index, announced>>
      /\ m \in members /\ members' = members \ {m}
      /\ up' = [up EXCEPT ![m] = <<>>] /\ down' = [down EXCEPT ![m] = <<>>]
    BY <1>1 DEF Leave
<1>3. gone \in SUBSET Transport /\ members' \subseteq members
    BY <1>2
<1>4. \A t \in Transport : Owner(t) = m <=> t \in gone
    OBVIOUS
<1> HIDE DEF gone
<1>5. QED
    BY <1>2, <1>3, <1>4, GiveUpStep

-----------------------------------------------------------------------------
(***************************************************************************)
(* The invariant                                                           *)
(***************************************************************************)
LEMMA HandshakeInitInv == HandshakeInit => HandshakeInv
<1> SUFFICES ASSUME HandshakeInit PROVE HandshakeInv
    OBVIOUS
<1> USE DEF HandshakeInit
<1>1. WorkerInv
    BY InitInv
<1>2. /\ sent = {} /\ producers = {} /\ \A q \in Request : acks[q] = 0
      /\ \A t \in Transport : transportState[t] = "none" /\ ~ Made(t)
    BY DEF Init, Made
<1>3. /\ \A m \in Member : up[m] = <<>> /\ down[m] = <<>>
      /\ up \in [Member -> Seq(Message)] /\ down \in [Member -> Seq(Message)]
    BY Wires
<1>4. \A m \in Member :
        /\ \A x : ~ Carried(up[m], x) /\ ~ Carried(down[m], x)
        /\ \A t : /\ ~ Mentions(up[m], t) /\ ~ Mentions(down[m], t)
                  /\ Once(up[m], t) /\ Once(down[m], t)
    BY <1>3, Wires
<1>5. AcksHaveEffects
    BY <1>2, Kinds DEF AcksHaveEffects
<1>6. HandshakeTypes
    BY <1>3, <1>4 DEF HandshakeTypes, Active, Kind
<1>7. MembersOnly
    BY <1>2, <1>3, Requests DEF MembersOnly, Active, Kind
<1>8. UsedAreAllocated
    BY <1>2, <1>4, Requests DEF UsedAreAllocated, InUse, Active, Kind
<1>9. RequestsAreSorted /\ ParamsComeFirst
    BY <1>2, <1>4, Requests DEF RequestsAreSorted, ParamsComeFirst
<1>10. OneStepAtATime
  <2>1. ASSUME NEW t \in Transport
        PROVE  OnItsWay(t) /\ AtTheWorker(t)
    <3>1. \A kind : ~ Passed(t, kind) /\ AskedBy(t, kind) = {}
        BY <1>2 DEF Passed, StepOrder, AskedBy
    <3>2. QED
        BY <1>2, <1>4, <3>1, Requests DEF OnItsWay, AtTheWorker
  <2>2. QED
      BY <2>1 DEF OneStepAtATime
<1>11. StatusFollowsWorker
    BY <1>2 DEF StatusFollowsWorker, Request
<1>12. ProducesAfterConnect /\ AnnouncedIsProducing
    BY <1>2, <1>4, Requests DEF ProducesAfterConnect, AnnouncedIsProducing
<1>13. NobodyWaitsInVain
    BY DEF NobodyWaitsInVain, Kind
<1>14. QED
    BY <1>1, <1>5, <1>6, <1>7, <1>8, <1>9, <1>10, <1>11, <1>12, <1>13
       DEF HandshakeInv

LEMMA HandshakeInvStep == HandshakeInv /\ [HandshakeNext]_allVars => HandshakeInv'
<1> SUFFICES ASSUME HandshakeInv, [HandshakeNext]_allVars PROVE HandshakeInv'
    OBVIOUS
<1>1. WorkerInv'
    BY WorkerMoves, WorkerInvStep DEF HandshakeInv
<1>2. CASE UNCHANGED allVars
  <2>1. members \subseteq Member
      BY DEF HandshakeInv, HandshakeTypes
  <2>2. QED
      BY <1>1, <1>2, <2>1, QuietStep DEF allVars, vars, mediaVars, resultVars,
         requestVars, handshakeVars, serverVars, clientVars, Made
<1>3. ASSUME NEW q \in Request, Answered(q)
      PROVE  HandshakeInv'
    BY <1>1, <1>3, SetupStep, ReplyStep DEF Answered
<1>4. ASSUME NEW m \in Member, Forward(m) \/ ClientReceives(m) \/ Leave(m)
      PROVE  HandshakeInv'
    BY <1>1, <1>4, ForwardStep, ReceiveStep, LeaveStep
<1>5. ASSUME NEW t \in Transport, TransportReady(t) \/ TransportRefused(t) \/ Timeout(t)
      PROVE  HandshakeInv'
    BY <1>1, <1>5, ReadyStep, SetupStep, TimeoutStep
<1>6. QED
    BY <1>1, <1>2, <1>3, <1>4, <1>5, SetupStep DEF HandshakeNext

\* Between browsers, server and worker a handshake never loses its order.
THEOREM HandshakeInvariance == HandshakeSpec => []HandshakeInv
BY HandshakeInitInv, HandshakeInvStep, PTL DEF HandshakeSpec

\* Types: no handler stores or sends anything else, and a wire carries only
\* messages about its member's own transports.
THEOREM HandshakeTypesHold == HandshakeSpec => []HandshakeTypeOK
<1>1. HandshakeInv => HandshakeTypeOK
  <2> SUFFICES ASSUME HandshakeInv PROVE HandshakeTypeOK
      OBVIOUS
  <2>1. TypeOK /\ HandshakeTypes
      BY DEF HandshakeInv, WorkerInv
  <2>2. browser \in [Transport -> Kind \cup {"none", "ready", "failed"}]
      BY <2>1 DEF HandshakeTypes, Active
  <2>3. ASSUME NEW m \in Member, NEW wire \in {up[m], down[m]}, NEW i \in DOMAIN wire
        PROVE  wire[i] \in Message /\ Owner(wire[i].t) = m
    <3>1. wire \in Seq(Message)
        BY <2>1, <2>3 DEF HandshakeTypes
    <3>2. wire[i] \in Message /\ Carried(wire, wire[i])
        BY <3>1 DEF Carried
    <3>3. QED
        BY <2>1, <2>3, <3>2 DEF HandshakeTypes
  <2>4. QED
      BY <2>1, <2>2, <2>3 DEF HandshakeTypeOK, HandshakeTypes
<1>2. QED
    BY <1>1, HandshakeInvariance, PTL

\* A browser that takes a transport for ready has had every step done by the
\* worker, on that transport and with its own parameters.
THEOREM ReadyIsFlowing == HandshakeSpec => []ReadyMeansFlowing
<1>1. HandshakeInv => ReadyMeansFlowing
  <2> SUFFICES ASSUME HandshakeInv, NEW t \in Transport,
                      browser[t] = "ready", OnlyOne(t)
               PROVE  Flowing(t)
      BY DEF ReadyMeansFlowing
  <2>1. AtTheWorker(t)
      BY DEF HandshakeInv, OneStepAtATime
  <2>2. ASSUME NEW kind \in Steps(t)
        PROVE  \E q \in AskedBy(t, kind) : q.id = t /\ acks[q] = 1
    <3>1. Passed(t, kind)
        BY DEF Passed, StepOrder, Steps
    <3>2. PICK q \in AskedBy(t, kind) : acks[q] = 1
        BY <2>1, <3>1 DEF AtTheWorker
    <3>3. q \in sent /\ q.n = t
        BY <3>2 DEF AskedBy
    <3>4. q.id = t
        BY <3>3 DEF HandshakeInv, RequestsAreSorted
    <3>5. QED
        BY <3>2, <3>4
  <2>3. CASE t = Mic
    <3>1. PICK q \in AskedBy(t, "produce") : q.id = t /\ acks[q] = 1
        BY <2>2, <2>3 DEF Steps
    <3>2. q \in Produces
        BY <3>1, Requests, Unacknowledged DEF AskedBy, HandshakeInv
    <3>3. Mic \in producers
        BY <2>3, <3>1, <3>2 DEF HandshakeInv, AcksHaveEffects
    <3>4. QED
        BY <2>2, <2>3, <3>3 DEF Flowing, Steps
  <2>4. CASE t # Mic
    <3>1. PICK q \in AskedBy(t, "consume") : q.id = t /\ acks[q] = 1
        BY <2>2, <2>4 DEF Steps
    <3>2. q \in Consumes /\ q.source = Mic
        BY <3>1, Requests, Unacknowledged DEF AskedBy, HandshakeInv
    <3>3. consumers[t] = Mic
        BY <3>1, <3>2 DEF HandshakeInv, AcksHaveEffects
    <3>4. Mic \in producers
        BY <2>4, <3>3, Requests DEF HandshakeInv, WorkerInv, ConsumersHaveProducers
    <3>5. QED
        BY <2>2, <2>4, <3>3, <3>4 DEF Flowing, Steps
  <2>5. QED
      BY <2>3, <2>4
<1>2. QED
    BY <1>1, HandshakeInvariance, PTL

\* Whatever a browser waits for on the only transport of its direction is on its
\* way, with the worker, answered, or was refused.
THEOREM RequestsStayAlive == HandshakeSpec => []NoRequestIsDropped
<1>1. HandshakeInv => NoRequestIsDropped
  <2> SUFFICES ASSUME HandshakeInv, NEW t \in Transport,
                      browser[t] \in Kind, OnlyOne(t)
               PROVE  RequestIsAlive(t)
      BY DEF NoRequestIsDropped
  <2>1. WaitedFor(t)
      BY DEF HandshakeInv, NobodyWaitsInVain
  <2>2. \A q \in AskedBy(t, browser[t]) :
          acks[q] = 0 => q \in inflight \/ Buffered(q) \/ nacks[q] > 0
      BY Unacknowledged DEF HandshakeInv, AskedBy
  <2>3. QED
      BY <2>1, <2>2 DEF WaitedFor, RequestIsAlive, Refused
<1>2. QED
    BY <1>1, HandshakeInvariance, PTL

\* The coordinator's status of a transport and the worker's acks of its connect
\* requests tell the same.
THEOREM StatusIsTheWorkers == HandshakeSpec => []StatusFollowsWorker
<1>1. HandshakeInv => StatusFollowsWorker
    BY DEF HandshakeInv
<1>2. QED
    BY <1>1, HandshakeInvariance, PTL

\* Others hear of the Speaker's producer when it produces, and only then.
THEOREM AnnouncedProduces == HandshakeSpec => []AnnouncedIsProducing
<1>1. HandshakeInv => AnnouncedIsProducing
    BY DEF HandshakeInv
<1>2. QED
    BY <1>1, HandshakeInvariance, PTL

\* No answer completes another step than the one that was asked for.
THEOREM AnswersFit == HandshakeSpec => []AnswersMatchSteps
<1>1. HandshakeInv => AnswersMatchSteps
  <2> SUFFICES ASSUME HandshakeInv, NEW m \in Member, NEW i \in DOMAIN down[m]
               PROVE  LET msg == down[m][i] IN
                      IF msg.kind = "params" THEN browser[msg.t] = "none"
                                             ELSE browser[msg.t] \in {msg.kind, "failed"}
      BY DEF AnswersMatchSteps
  <2>1. HandshakeTypes /\ down[m] \in Seq(Message)
      BY DEF HandshakeInv, HandshakeTypes
  <2>2. down[m][i] \in Message /\ Carried(down[m], down[m][i])
      BY <2>1 DEF Carried
  <2>3. PICK kind \in Kind \cup {"params"}, t \in Transport : down[m][i] = Msg(kind, t)
      BY <2>2, Wires
  <2>4. Carried(down[Owner(t)], Msg(kind, t))
      BY <2>1, <2>2, <2>3, Wires DEF HandshakeTypes
  <2>5. CASE kind = "params"
      BY <2>3, <2>4, <2>5, Wires DEF HandshakeInv, ParamsComeFirst
  <2>6. CASE kind # "params"
    <3>1. browser[t] # "failed" => browser[t] = kind
        BY <2>4, <2>6 DEF HandshakeInv, OneStepAtATime, OnItsWay
    <3>2. QED
        BY <2>3, <2>6, <3>1, Wires
  <2>7. QED
      BY <2>5, <2>6
<1>2. QED
    BY <1>1, HandshakeInvariance, PTL

=============================================================================
