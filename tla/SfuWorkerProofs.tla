-------------------------- MODULE SfuWorkerProofs --------------------------
(***************************************************************************)
(* Proofs about SfuWorker: its invariants hold for any routers, transports *)
(* and requests, and every step of it is a step of ConsumeBuffer or leaves *)
(* ConsumeBuffer's variables alone.  That every request is answered in the *)
(* end is liveness and stays with the model checker.                       *)
(*                                                                         *)
(* What the runs' invariants lack to be inductive is that a transport in   *)
(* use keeps its router: a new transport is a fresh id, so its request     *)
(* cannot move one that a consume request or a consumer already names.     *)
(***************************************************************************)
EXTENDS SfuWorker, TLAPS

USE WorkerAssumption

Made(t) == transportState[t] # "none"

\* Whoever made a request, and whatever a taken-on consume request or a
\* consumer consumes from, is a transport of the worker.
UsedAreMade ==
  /\ \A q \in sent : Made(q.id)
  /\ \A q \in Consumes : Buffered(q) \/ q \in inflight => Made(q.source)
  /\ \A t \in Receiver : consumers[t] # None =>
       Made(t) /\ Made(consumers[t])

WorkerInv ==
  /\ TypeOK
  /\ UsedAreMade
  /\ EachRequestIsAnsweredOnce
  /\ NothingWaitsForProducer
  /\ ConsumersHaveProducers
  /\ BufferIsSorted

-----------------------------------------------------------------------------
\* The request kinds are apart, and every kind names transports.
LEMMA Kinds ==
  /\ \A q \in Consumes : /\ q \in Request /\ q \notin Connects
                         /\ q \notin Produces /\ q \notin Resumes
                         /\ q.id \in Receiver /\ q.source \in Sender
  /\ \A q \in Produces : q \in Request /\ q.id \in Sender /\ q \notin Consumes
  /\ \A q \in Connects \cup Resumes : q \in Request /\ q \notin Consumes
  /\ \A q \in Request : q.id \in Transport
  /\ \A t \in Sender : t \in Transport /\ t # None
  /\ \A t \in Receiver : t \in Transport /\ t # None /\ t \notin Sender
BY DEF Request, Connects, Produces, Consumes, Resumes, Transport

\* A worker without routers satisfies the invariant.
LEMMA InitInv == Init => WorkerInv
<1> SUFFICES ASSUME Init PROVE WorkerInv
    OBVIOUS
<1>1. TypeOK
    BY DEF Init, TypeOK, Stage
<1>2. UsedAreMade
    BY Kinds DEF Init, UsedAreMade, Buffered
<1>3. EachRequestIsAnsweredOnce
    BY Kinds DEF Init, EachRequestIsAnsweredOnce, Buffered
<1>4. NothingWaitsForProducer /\ ConsumersHaveProducers /\ BufferIsSorted
    BY DEF Init, NothingWaitsForProducer, ConsumersHaveProducers,
       BufferIsSorted
<1>5. QED
    BY <1>1, <1>2, <1>3, <1>4 DEF WorkerInv

-----------------------------------------------------------------------------
(***************************************************************************)
(* Routers and transports                                                  *)
(***************************************************************************)

\* A step that leaves the requests alone keeps the invariant if it moves no
\* transport that was made.
LEMMA MediaStep ==
  ASSUME WorkerInv, TypeOK', UNCHANGED <<resultVars, requestVars>>,
         \A t \in Transport : Made(t) => Made(t)' /\ on'[t] = on[t]
  PROVE  WorkerInv'
<1> USE DEF WorkerInv, resultVars, requestVars
<1>1. EachRequestIsAnsweredOnce' /\ NothingWaitsForProducer'
    BY DEF EachRequestIsAnsweredOnce, NothingWaitsForProducer, Buffered
<1>2. \A q \in Consumes : Buffered(q) \/ q \in inflight =>
        q \in sent /\ q.id \in Transport /\ q.source \in Transport
    BY Kinds DEF EachRequestIsAnsweredOnce
<1>3. UsedAreMade'
  <2>1. \A q \in sent : q.id \in Transport
      BY Kinds DEF TypeOK
  <2>2. \A t \in Receiver : consumers[t] # None =>
          t \in Transport /\ consumers[t] \in Transport
      BY Kinds DEF TypeOK
  <2>3. QED
      BY <1>2, <2>1, <2>2 DEF UsedAreMade, Buffered, Made
<1>4. ConsumersHaveProducers'
  <2>1. \A q \in inflight \cap Consumes :
          on'[q.source] = on[q.source] /\ on'[q.id] = on[q.id]
      BY <1>2 DEF UsedAreMade
  <2>2. \A t \in Receiver : consumers[t] # None =>
          on'[consumers[t]] = on[consumers[t]] /\ on'[t] = on[t]
      BY Kinds DEF UsedAreMade, TypeOK
  <2>3. QED
      BY <2>1, <2>2 DEF ConsumersHaveProducers
<1>5. BufferIsSorted'
  <2>1. \A p \in Sender : \A q \in pendingConsumes[p] :
          q \in Consumes /\ Buffered(q) /\ q.source = p
      BY DEF BufferIsSorted, TypeOK, Buffered
  <2>2. \A p \in Sender : \A q \in pendingConsumes[p] :
          on'[p] = on[p] /\ on'[q.id] = on[q.id]
      BY <1>2, <2>1 DEF UsedAreMade
  <2>3. QED
      BY <2>2 DEF BufferIsSorted
<1>6. QED
    BY <1>1, <1>3, <1>4, <1>5

LEMMA RouterStep ==
  ASSUME WorkerInv, NEW r \in Router, NewRouter(r) \/ RouterAnswer(r)
  PROVE  WorkerInv'
<1>1. TypeOK'
    BY DEF WorkerInv, NewRouter, RouterAnswer, TypeOK, Stage, resultVars,
       requestVars
<1>2. QED
    BY <1>1, MediaStep DEF NewRouter, RouterAnswer, Made

LEMMA TransportStep ==
  ASSUME WorkerInv, NEW t \in Transport,
         TransportAnswer(t) \/ \E r \in Router : NewTransport(t, r)
  PROVE  WorkerInv'
<1>1. CASE TransportAnswer(t)
  <2>1. TypeOK'
      BY <1>1 DEF WorkerInv, TransportAnswer, TypeOK, Stage, resultVars,
         requestVars
  <2>2. \A u \in Transport : Made(u) => Made(u)' /\ on'[u] = on[u]
      BY <1>1 DEF WorkerInv, TransportAnswer, TypeOK, Made
  <2>3. QED
      BY <1>1, <2>1, <2>2, MediaStep DEF TransportAnswer
<1>2. ASSUME NEW r \in Router, NewTransport(t, r)
       PROVE WorkerInv'
  <2>1. TypeOK'
      BY <1>2 DEF WorkerInv, NewTransport, TypeOK, Stage, resultVars,
         requestVars
  <2>2. \A u \in Transport : Made(u) => Made(u)' /\ on'[u] = on[u]
      BY <1>2 DEF WorkerInv, NewTransport, TypeOK, Made
  <2>3. QED
      BY <1>2, <2>1, <2>2, MediaStep DEF NewTransport
<1>3. QED
    BY <1>1, <1>2

-----------------------------------------------------------------------------
(***************************************************************************)
(* Requests                                                                *)
(***************************************************************************)

\* What holds of a request that has just been made.
LEMMA NewRequest ==
  ASSUME WorkerInv, NEW q \in Request, Receive(q)
  PROVE  /\ q \notin inflight /\ ~Buffered(q) /\ acks[q] + nacks[q] = 0
         /\ sent' = sent \cup {q} /\ sent' \subseteq Request
         /\ Made(q.id) /\ UNCHANGED <<routerState, transportState, on>>
         /\ UNCHANGED <<producers, consumers>>
BY DEF WorkerInv, EachRequestIsAnsweredOnce, Receive, Made, TypeOK, mediaVars,
   resultVars

\* A media call is started for it: the producer of a consume call exists.
LEMMA StartStep ==
  ASSUME WorkerInv, NEW q \in Request, Receive(q), StartMedia(q),
         q \in Consumes => Consumable(q) /\ q.source \in producers
  PROVE  WorkerInv'
<1> USE DEF WorkerInv
<1>1. /\ inflight' = inflight \cup {q}
      /\ UNCHANGED <<pendingConsumes, acks, nacks>>
      /\ \A x \in Request : Buffered(x)' <=> Buffered(x)
    BY DEF StartMedia, Buffered
<1>2. TypeOK'
    BY <1>1, NewRequest DEF TypeOK
<1>3. UsedAreMade'
    BY <1>1, NewRequest, Kinds
       DEF UsedAreMade, Consumable, Made
<1>4. EachRequestIsAnsweredOnce'
    BY <1>1, NewRequest DEF EachRequestIsAnsweredOnce
<1>5. NothingWaitsForProducer' /\ BufferIsSorted'
    BY <1>1, NewRequest DEF NothingWaitsForProducer, BufferIsSorted
<1>6. ConsumersHaveProducers'
    BY <1>1, NewRequest DEF ConsumersHaveProducers, Consumable
<1>7. QED
    BY <1>2, <1>3, <1>4, <1>5, <1>6

\* It is refused at once.
LEMMA RefuseStep ==
  ASSUME WorkerInv, NEW q \in Request, Receive(q), Refuse(q)
  PROVE  WorkerInv'
<1> USE DEF WorkerInv
<1>1. /\ UNCHANGED <<pendingConsumes, inflight, acks>>
      /\ nacks' \in [Request -> Nat]
      /\ \A x \in Request :
           nacks'[x] = nacks[x] + (IF x = q THEN 1 ELSE 0)
      /\ \A x \in Request : Buffered(x)' <=> Buffered(x)
    BY DEF Refuse, Buffered, TypeOK
<1>2. TypeOK'
    BY <1>1, NewRequest DEF TypeOK
<1>3. UsedAreMade'
    BY <1>1, NewRequest, Kinds DEF UsedAreMade, Made
<1>4. EachRequestIsAnsweredOnce'
  <2>1. \A x \in Request : acks[x] \in Nat /\ nacks[x] \in Nat
      BY DEF TypeOK
  <2>2. \A x \in Request : acks'[x] + nacks'[x] =
          (acks[x] + nacks[x]) + (IF x = q THEN 1 ELSE 0)
      BY <1>1, <2>1
  <2>3. QED
      BY <1>1, <2>2, NewRequest DEF EachRequestIsAnsweredOnce
<1>5. NothingWaitsForProducer' /\ BufferIsSorted'
    BY <1>1, NewRequest DEF NothingWaitsForProducer, BufferIsSorted
<1>6. ConsumersHaveProducers'
    BY <1>1, NewRequest DEF ConsumersHaveProducers
<1>7. QED
    BY <1>2, <1>3, <1>4, <1>5, <1>6

\* It waits for a producer that does not exist yet.
LEMMA BufferStep ==
  ASSUME WorkerInv, NEW q \in Request, OnConsumeBuffered(q)
  PROVE  WorkerInv'
<1> USE DEF WorkerInv
<1>1. /\ q \in Consumes /\ q.source \notin producers /\ q.source \in Sender
      /\ Receive(q) /\ Consumable(q) /\ Made(q.source)
      /\ UNCHANGED <<inflight, acks, nacks>>
    BY Kinds DEF OnConsumeBuffered, Consumable, Made
<1>2. /\ pendingConsumes' \in [Sender -> SUBSET Consumes]
      /\ \A p \in Sender : pendingConsumes'[p] =
           pendingConsumes[p] \cup (IF p = q.source THEN {q} ELSE {})
    BY <1>1 DEF OnConsumeBuffered, TypeOK
<1>3. \A x \in Request : Buffered(x)' <=> Buffered(x) \/ x = q
    BY <1>1, <1>2, Kinds DEF Buffered
<1>4. TypeOK'
    BY <1>1, <1>2, NewRequest DEF TypeOK
<1>5. UsedAreMade'
    BY <1>1, <1>3, NewRequest, Kinds DEF UsedAreMade, Made
<1>6. EachRequestIsAnsweredOnce'
    BY <1>1, <1>3, NewRequest DEF EachRequestIsAnsweredOnce
<1>7. NothingWaitsForProducer'
    BY <1>1, <1>2, NewRequest DEF NothingWaitsForProducer, TypeOK
<1>8. BufferIsSorted'
    BY <1>1, <1>2, NewRequest DEF BufferIsSorted, Consumable
<1>9. ConsumersHaveProducers'
    BY <1>1, NewRequest DEF ConsumersHaveProducers
<1>10. QED
    BY <1>4, <1>5, <1>6, <1>7, <1>8, <1>9

\* Whatever the worker does with a request when it arrives.
LEMMA RequestStep ==
  ASSUME WorkerInv, NEW q \in Request,
         \/ OnConnectOrProduce(q) \/ OnConsumeRefused(q) \/ OnConsumeNow(q)
         \/ OnConsumeBuffered(q) \/ OnResume(q)
  PROVE  WorkerInv'
<1>1. CASE OnConnectOrProduce(q)
    BY <1>1, StartStep, Kinds DEF OnConnectOrProduce
<1>2. CASE OnConsumeRefused(q)
    BY <1>2, RefuseStep DEF OnConsumeRefused
<1>3. CASE OnConsumeNow(q)
    BY <1>3, StartStep DEF OnConsumeNow
<1>4. CASE OnConsumeBuffered(q)
    BY <1>4, BufferStep
<1>5. CASE OnResume(q)
    BY <1>5, StartStep, RefuseStep, Kinds DEF OnResume
<1>6. QED
    BY <1>1, <1>2, <1>3, <1>4, <1>5

-----------------------------------------------------------------------------
(***************************************************************************)
(* Answers of the media process                                            *)
(***************************************************************************)

\* What holds of a request whose media call is running.
LEMMA Running ==
  ASSUME WorkerInv, NEW q \in inflight
  PROVE  /\ q \in Request /\ q \in sent /\ ~Buffered(q)
         /\ acks[q] \in Nat /\ nacks[q] \in Nat /\ acks[q] + nacks[q] = 0
BY DEF WorkerInv, EachRequestIsAnsweredOnce, TypeOK

\* An answer that ends one call and touches neither buffers nor producers.
LEMMA OneAnswerStep ==
  ASSUME WorkerInv, NEW q \in inflight, inflight' = inflight \ {q},
         \/ acks' = [acks EXCEPT ![q] = @ + 1] /\ UNCHANGED nacks
         \/ nacks' = [nacks EXCEPT ![q] = @ + 1] /\ UNCHANGED acks,
         UNCHANGED <<pendingConsumes, sent, routerState, transportState, on,
                     producers>>,
         \/ UNCHANGED consumers
         \/ /\ q \in Consumes
            /\ consumers' = [consumers EXCEPT ![q.id] = q.source]
  PROVE  WorkerInv'
<1> USE DEF WorkerInv
<1>1. /\ acks' \in [Request -> Nat] /\ nacks' \in [Request -> Nat]
      /\ \A x \in Request : acks'[x] + nacks'[x] =
           (acks[x] + nacks[x]) + (IF x = q THEN 1 ELSE 0)
    BY Running DEF TypeOK
<1>2. \A x \in Request : Buffered(x)' <=> Buffered(x)
    BY DEF Buffered
<1>3. /\ consumers' \in [Receiver -> Sender \cup {None}]
      /\ \A t \in Receiver :
           \/ consumers'[t] = consumers[t]
           \/ q \in Consumes /\ t = q.id /\ consumers'[t] = q.source
    BY Kinds DEF TypeOK
<1>4. TypeOK'
    BY <1>1, <1>3 DEF TypeOK
<1>5. EachRequestIsAnsweredOnce'
    BY <1>1, <1>2, Running DEF EachRequestIsAnsweredOnce
<1>6. UsedAreMade'
  <2>1. Made(q.id) /\ (q \in Consumes => Made(q.source))
      BY Running DEF UsedAreMade
  <2>2. \A t \in Receiver : consumers'[t] # None =>
          Made(t) /\ Made(consumers'[t])
      BY <1>3, <2>1 DEF UsedAreMade
  <2>3. QED
      BY <1>2, <2>2, Kinds DEF UsedAreMade, Made
<1>7. NothingWaitsForProducer' /\ BufferIsSorted'
    BY DEF NothingWaitsForProducer, BufferIsSorted
<1>8. ConsumersHaveProducers'
    BY <1>3 DEF ConsumersHaveProducers
<1>9. QED
    BY <1>4, <1>5, <1>6, <1>7, <1>8

\* The producer exists: the requests that waited for it become media calls.
LEMMA ProduceDoneStep ==
  ASSUME WorkerInv, NEW q \in Request, ProduceDone(q)
  PROVE  WorkerInv'
<1> USE DEF WorkerInv
<1>1. /\ q \in Produces /\ q \in inflight /\ q \notin Consumes
      /\ q.id \in Sender
      /\ producers' = producers \cup {q.id}
      /\ inflight' = (inflight \ {q}) \cup pendingConsumes[q.id]
      /\ UNCHANGED <<nacks, sent, routerState, transportState, on, consumers>>
    BY Kinds DEF ProduceDone, Ack, mediaVars
<1>2. /\ pendingConsumes' \in [Sender -> SUBSET Consumes]
      /\ \A p \in Sender : pendingConsumes'[p] =
           IF p = q.id THEN {} ELSE pendingConsumes[p]
    BY <1>1 DEF ProduceDone, TypeOK
<1>3. /\ acks' \in [Request -> Nat]
      /\ \A x \in Request : acks'[x] + nacks'[x] =
           (acks[x] + nacks[x]) + (IF x = q THEN 1 ELSE 0)
    BY <1>1, Running DEF ProduceDone, Ack, TypeOK
<1>4. \A x \in Request : x \in pendingConsumes[q.id]
        <=> Buffered(x) /\ x.source = q.id
    BY <1>1 DEF Buffered, BufferIsSorted, TypeOK
<1>5. \A x \in Request : Buffered(x)' <=> Buffered(x) /\ x.source # q.id
    BY <1>2, Kinds DEF Buffered
<1>6. \A x \in Request : x \in inflight' <=>
        (x \in inflight /\ x # q) \/ (Buffered(x) /\ x.source = q.id)
    BY <1>1, <1>4
<1>7. TypeOK'
    BY <1>1, <1>2, <1>3, Kinds DEF TypeOK
<1>8. EachRequestIsAnsweredOnce'
    BY <1>1, <1>3, <1>5, <1>6, Running DEF EachRequestIsAnsweredOnce
<1>9. UsedAreMade'
    BY <1>1, <1>5, <1>6, Kinds DEF UsedAreMade, Made
<1>10. NothingWaitsForProducer' /\ BufferIsSorted'
    BY <1>1, <1>2 DEF NothingWaitsForProducer, BufferIsSorted, TypeOK
<1>11. ConsumersHaveProducers'
  <2>1. \A x \in inflight' \cap Consumes :
          x.source \in producers' /\ on[x.source] = on[x.id]
      BY <1>1, <1>6, Kinds DEF ConsumersHaveProducers, BufferIsSorted, Buffered
  <2>2. QED
      BY <1>1, <2>1 DEF ConsumersHaveProducers
<1>12. QED
    BY <1>7, <1>8, <1>9, <1>10, <1>11

LEMMA AnswerStep ==
  ASSUME WorkerInv, NEW q \in Request, MediaAnswer(q)
  PROVE  WorkerInv'
<1>1. CASE ConnectOrResumeDone(q)
    BY <1>1, OneAnswerStep DEF ConnectOrResumeDone, Done, Ack, mediaVars,
       resultVars
<1>2. CASE ProduceDone(q)
    BY <1>2, ProduceDoneStep
<1>3. CASE ConsumeDone(q)
    BY <1>3, OneAnswerStep DEF ConsumeDone, Done, Ack, mediaVars
<1>4. CASE MediaFailed(q)
    BY <1>4, OneAnswerStep DEF MediaFailed, mediaVars, resultVars
<1>5. QED
    BY <1>1, <1>2, <1>3, <1>4 DEF MediaAnswer

-----------------------------------------------------------------------------
\* Every step preserves the invariant.
LEMMA WorkerInvStep == WorkerInv /\ [Next]_vars => WorkerInv'
<1> SUFFICES ASSUME WorkerInv, [Next]_vars PROVE WorkerInv'
    OBVIOUS
<1>1. CASE UNCHANGED vars
  <2>1. TypeOK'
      BY <1>1 DEF WorkerInv, TypeOK, vars, mediaVars, resultVars, requestVars
  <2>2. QED
      BY <1>1, <2>1, MediaStep DEF vars, mediaVars, Made
<1>2. QED
    BY <1>1, RouterStep, TransportStep, RequestStep, AnswerStep DEF Next

\* A worker's requests, buffers and consumers fit together in every state.
THEOREM Invariance == Spec => []WorkerInv
BY InitInv, WorkerInvStep, PTL DEF Spec

\* Types: no handler stores anything else.
THEOREM WorkerTypes == Spec => []TypeOK
<1>1. WorkerInv => TypeOK
    BY DEF WorkerInv
<1>2. QED
    BY <1>1, Invariance, PTL

\* However requests, producers and failures interleave, a request taken on is
\* at one place only, and never answered twice.
THEOREM AnsweredOnce == Spec => []EachRequestIsAnsweredOnce
<1>1. WorkerInv => EachRequestIsAnsweredOnce
    BY DEF WorkerInv
<1>2. QED
    BY <1>1, Invariance, PTL

\* The buffer of a producer that exists is empty: no consume request is put
\* into it after it was worked off.
THEOREM BuffersAreWorkedOff == Spec => []NothingWaitsForProducer
<1>1. WorkerInv => NothingWaitsForProducer
    BY DEF WorkerInv
<1>2. QED
    BY <1>1, Invariance, PTL

\* No consumer is made, and no consume call is running, without its producer
\* on the same router.
THEOREM ConsumersAreFed == Spec => []ConsumersHaveProducers
<1>1. WorkerInv => ConsumersHaveProducers
    BY DEF WorkerInv
<1>2. QED
    BY <1>1, Invariance, PTL

-----------------------------------------------------------------------------
(***************************************************************************)
(* Every step is a step of ConsumeBuffer, or leaves it alone.              *)
(***************************************************************************)

\* What ConsumeBuffer sees as waiting and as answered.
BufferWaiting == {q \in Consumes : Buffered(q) \/ q \in inflight}
BufferAnswered == {q \in Consumes : acks[q] + nacks[q] > 0}

\* A consume request on arrival is new to ConsumeBuffer as well.
LEMMA NewToBuffer ==
  ASSUME WorkerInv, NEW q \in Consumes, Receive(q)
  PROVE  q \notin BufferWaiting \cup BufferAnswered
BY NewRequest, Kinds DEF BufferWaiting, BufferAnswered

\* A request on arrival is refused, taken on, or no consume request.
LEMMA RequestSimulates ==
  ASSUME WorkerInv, NEW q \in Request,
         \/ OnConnectOrProduce(q) \/ OnConsumeRefused(q) \/ OnConsumeNow(q)
         \/ OnConsumeBuffered(q) \/ OnResume(q)
  PROVE  [Buffer!Next]_(Buffer!vars)
<1>1. UNCHANGED producers
    BY NewRequest DEF OnConnectOrProduce, OnConsumeRefused, OnConsumeNow,
       OnConsumeBuffered, OnResume
<1>2. CASE OnConsumeRefused(q)
  <2>1. q \in Consumes /\ q \notin BufferWaiting \cup BufferAnswered
      BY <1>2, NewToBuffer DEF OnConsumeRefused
  <2>2. BufferWaiting' = BufferWaiting
      BY <1>2 DEF OnConsumeRefused, Refuse, BufferWaiting, Buffered
  <2>3. BufferAnswered' = BufferAnswered \cup {q}
    <3>1. acks[q] + nacks[q] = 0 /\ acks[q] \in Nat /\ nacks[q] \in Nat
        BY <1>2, NewRequest DEF OnConsumeRefused, WorkerInv, TypeOK
    <3>2. /\ UNCHANGED acks /\ nacks'[q] = nacks[q] + 1
          /\ \A x \in Request : x # q => nacks'[x] = nacks[x]
        BY <1>2 DEF OnConsumeRefused, Refuse, WorkerInv, TypeOK
    <3>3. QED
        BY <2>1, <3>1, <3>2, Kinds DEF BufferAnswered
  <2>4. QED
      BY <1>1, <2>1, <2>2, <2>3
         DEF Buffer!Next, Buffer!Refuse, BufferWaiting, BufferAnswered
<1>3. CASE OnConsumeNow(q) \/ OnConsumeBuffered(q)
  <2>1. q \in Consumes /\ q \notin BufferWaiting \cup BufferAnswered
      BY <1>3, NewToBuffer DEF OnConsumeNow, OnConsumeBuffered
  <2>2. BufferAnswered' = BufferAnswered
      BY <1>3 DEF OnConsumeNow, OnConsumeBuffered, StartMedia, BufferAnswered
  <2>3. BufferWaiting' = BufferWaiting \cup {q}
    <3>1. CASE OnConsumeNow(q)
        BY <2>1, <3>1 DEF OnConsumeNow, StartMedia, BufferWaiting, Buffered
    <3>2. CASE OnConsumeBuffered(q)
        BY <2>1, <3>2, Kinds
           DEF OnConsumeBuffered, BufferWaiting, Buffered, WorkerInv, TypeOK
    <3>3. QED
        BY <1>3, <3>1, <3>2
  <2>4. QED
      BY <1>1, <2>1, <2>2, <2>3
         DEF Buffer!Next, Buffer!TakeOn, BufferWaiting, BufferAnswered
<1>4. CASE OnConnectOrProduce(q) \/ OnResume(q)
  <2>1. q \notin Consumes /\ UNCHANGED <<pendingConsumes, acks>>
        /\ inflight' \subseteq inflight \cup {q} /\ inflight \subseteq inflight'
        /\ \A x \in Consumes : nacks'[x] = nacks[x]
      BY <1>4, Kinds DEF OnConnectOrProduce, OnResume, StartMedia, Refuse,
         WorkerInv, TypeOK
  <2>2. BufferWaiting' = BufferWaiting /\ BufferAnswered' = BufferAnswered
      BY <2>1 DEF BufferWaiting, BufferAnswered, Buffered
  <2>3. QED
      BY <1>1, <2>2 DEF Buffer!vars, BufferWaiting, BufferAnswered
<1>5. QED
    BY <1>2, <1>3, <1>4

\* The end of a consume call is its answer, that of a produce call lets the
\* producer exist and changes nobody's standing.
LEMMA AnswerSimulates ==
  ASSUME WorkerInv, NEW q \in Request, MediaAnswer(q)
  PROVE  [Buffer!Next]_(Buffer!vars)
<1>1. q \in inflight /\ ~Buffered(q)
      /\ acks[q] \in Nat /\ nacks[q] \in Nat /\ acks[q] + nacks[q] = 0
    BY Running DEF MediaAnswer, ConnectOrResumeDone, ProduceDone, ConsumeDone,
       MediaFailed, Done
<1>2. \A x \in Request : acks'[x] + nacks'[x] =
        (acks[x] + nacks[x]) + (IF x = q THEN 1 ELSE 0)
    BY <1>1 DEF MediaAnswer, ConnectOrResumeDone, ProduceDone, ConsumeDone,
       MediaFailed, Done, Ack, WorkerInv, TypeOK
<1>3. BufferAnswered' = BufferAnswered \cup ({q} \cap Consumes)
    BY <1>1, <1>2, Kinds DEF BufferAnswered, WorkerInv, TypeOK
<1>4. CASE ProduceDone(q)
  <2>1. q \notin Consumes /\ q.id \in Sender
        /\ producers' = producers \cup {q.id}
      BY <1>4, Kinds DEF ProduceDone
  <2>2. BufferWaiting' = BufferWaiting
    <3>1. \A x \in Consumes : x \in pendingConsumes[q.id]
            <=> Buffered(x) /\ x.source = q.id
        BY <2>1 DEF Buffered, WorkerInv, BufferIsSorted
    <3>2. \A x \in Consumes : Buffered(x)' <=> Buffered(x) /\ x.source # q.id
        BY <1>4, <2>1, Kinds DEF ProduceDone, Buffered, WorkerInv, TypeOK
    <3>3. QED
        BY <1>4, <2>1, <3>1, <3>2 DEF ProduceDone, BufferWaiting
  <2>3. QED
      BY <1>3, <2>1, <2>2
         DEF Buffer!Next, Buffer!Produce, BufferWaiting, BufferAnswered
<1>5. CASE ~ProduceDone(q)
  <2>1. /\ inflight' = inflight \ {q}
        /\ UNCHANGED <<pendingConsumes, producers>>
      BY <1>5 DEF MediaAnswer, ConnectOrResumeDone, ConsumeDone, MediaFailed,
         Done, resultVars
  <2>2. BufferWaiting' = BufferWaiting \ {q}
      BY <1>1, <2>1 DEF BufferWaiting, Buffered
  <2>3. CASE q \in Consumes
    <3>1. q \in BufferWaiting /\ q.source \in producers
        BY <1>1, <2>3 DEF BufferWaiting, WorkerInv, ConsumersHaveProducers
    <3>2. q.source = [x \in Consumes |-> x.source][q]
        BY <2>3
    <3>3. QED
        BY <1>3, <2>1, <2>2, <2>3, <3>1, <3>2
           DEF Buffer!Next, Buffer!Answer, BufferWaiting, BufferAnswered
  <2>4. CASE q \notin Consumes
      BY <1>3, <2>1, <2>2, <2>4 DEF Buffer!vars, BufferWaiting, BufferAnswered
  <2>5. QED
      BY <2>3, <2>4
<1>6. QED
    BY <1>4, <1>5

\* A worker does what ConsumeBuffer allows: a consume request that was taken on
\* is answered once, and not before its producer exists.
THEOREM ConsumeBufferSteps ==
  Spec => Buffer!Init /\ [][Buffer!Next]_(Buffer!vars)
<1>1. Init => Buffer!Init
    BY Kinds DEF Init, Buffer!Init, Buffered
<1>2. WorkerInv /\ [Next]_vars => [Buffer!Next]_(Buffer!vars)
  <2> SUFFICES ASSUME WorkerInv, [Next]_vars
               PROVE  [Buffer!Next]_(Buffer!vars)
      OBVIOUS
  <2>1. ASSUME UNCHANGED <<producers, pendingConsumes, inflight, acks, nacks>>
         PROVE  [Buffer!Next]_(Buffer!vars)
      BY <2>1 DEF Buffer!vars, Buffered
  <2>2. CASE UNCHANGED vars
      BY <2>1, <2>2 DEF vars, resultVars, requestVars
  <2>3. ASSUME NEW r \in Router, NewRouter(r) \/ RouterAnswer(r)
         PROVE  [Buffer!Next]_(Buffer!vars)
      BY <2>1, <2>3 DEF NewRouter, RouterAnswer, resultVars, requestVars
  <2>4. ASSUME NEW t \in Transport,
               TransportAnswer(t) \/ \E r \in Router : NewTransport(t, r)
         PROVE  [Buffer!Next]_(Buffer!vars)
      BY <2>1, <2>4 DEF TransportAnswer, NewTransport, resultVars, requestVars
  <2>5. QED
      BY <2>2, <2>3, <2>4, RequestSimulates, AnswerSimulates DEF Next
<1>3. QED
    BY <1>1, <1>2, Invariance, PTL DEF Spec

=============================================================================
