------------------------ MODULE TransportMeshProofs ------------------------
(***************************************************************************)
(* Proofs about TransportMesh: its invariants hold for any number of       *)
(* members and routers, and for any number of refusals and departures.     *)
(*                                                                         *)
(* A removed member's answers may still arrive, so what the proofs need is *)
(* who a transport can belong to: MembersOnly says that nothing names a    *)
(* member before it joins, MembersKeepRecords that departures delete       *)
(* nobody else's records, and AskedOnce that a producer asks for its       *)
(* consumer transports when it becomes ready and at no other time.         *)
(***************************************************************************)
EXTENDS TransportMesh, TLAPS

\* Whoever joined, staying or not.
Known == joined \cup left

\* Everything that was ever requested and could still matter.
Recorded == live \cup pending \cup allocated

\* No transport and no index entry names a member that has not joined.
MembersOnly ==
  /\ joined \cap left = {}
  /\ joined \subseteq producer
  /\ \A t \in Recorded : {t.owner, t.source, t.by} \subseteq Known
  /\ \A a, b \in Member : consumers[a][b] # None => a \in Known /\ b \in Known

\* A member keeps its producer transport, and the record of every transport
\* it waits for, as long as it stays.
MembersKeepRecords ==
  /\ \A m \in joined : Producer(m) \in live
  /\ \A t \in pending : t.owner \in joined => t \in live

\* While a producer transport is pending, no consumer transport was asked for
\* because of it.
AskedOnce ==
  \A m \in Member : Producer(m) \in pending =>
    \A t \in Recorded : t.by = m => IsProducer(t)

\* The index holds transports where their owner and source say.
IndexIsSorted ==
  \A a, b \in Member :
    LET t == consumers[a][b] IN
    t # None => t.owner = a /\ t.source = b

\* Nobody is in a space that ended.
EndedIsEmpty == ended => joined = {}

MeshInv ==
  /\ TypeOK
  /\ MembersOnly
  /\ MembersKeepRecords
  /\ AskedOnce
  /\ IndexIsSorted
  /\ EndedIsEmpty

-----------------------------------------------------------------------------
\* Two members have different producer transports, and a consumer transport is
\* nobody's producer transport.
LEMMA TransportNames ==
  ASSUME NEW m \in Member
  PROVE  /\ Producer(m) \in Transport /\ Producer(m) # None
         /\ IsProducer(Producer(m))
         /\ Producer(m).owner = m /\ Producer(m).source = m
         /\ Producer(m).by = m
         /\ \A n \in Member : Producer(n) = Producer(m) => n = m
         /\ \A a, b \in Member :
              /\ Consumer(a, b, m) \in Transport
              /\ Consumer(a, b, m).owner = a /\ Consumer(a, b, m).source = b
              /\ Consumer(a, b, m).by = m
<1>1. Producer(m) \in Transport /\ Producer(m) # None
    BY MeshAssumption DEF Transport, Producer
<1>2. QED
    BY <1>1 DEF Transport, Producer, Consumer, IsProducer

\* What a producer transport that became ready asks for.
LEMMA RequestedNames ==
  ASSUME TypeOK, NEW m \in Member
  PROVE  /\ Requested(m) \subseteq Transport
         /\ \A t \in Requested(m) :
              /\ t.by = m /\ ~IsProducer(t)
              /\ {t.owner, t.source} \subseteq joined \cup {m}
              /\ {t.owner, t.source} \cap joined # {}
         /\ Producer(m) \in live => \A a \in joined \ {m} :
              Consumer(a, m, m) \in Requested(m)
         /\ \A a \in (joined \ {m}) \cap producer : Producer(a) \in live =>
              Consumer(m, a, m) \in Requested(m)
BY DEF Requested, Transport, Consumer, IsProducer, TypeOK

-----------------------------------------------------------------------------
\* A running space nobody has joined satisfies the invariant.
LEMMA InitInv == Init => MeshInv
<1> SUFFICES ASSUME Init PROVE MeshInv
    OBVIOUS
<1>1. TypeOK
    BY DEF Init, TypeOK
<1>2. MembersOnly /\ MembersKeepRecords /\ AskedOnce
    BY DEF Init, MembersOnly, MembersKeepRecords, AskedOnce, Recorded
<1>3. IndexIsSorted /\ EndedIsEmpty
    BY DEF Init, IndexIsSorted, EndedIsEmpty
<1>4. QED
    BY <1>1, <1>2, <1>3 DEF MeshInv

\* A member's first transport: nothing recorded names the member yet.
LEMMA AddMemberStep ==
  ASSUME MeshInv, NEW m \in Member, AddMember(m)
  PROVE  MeshInv'
<1> USE DEF MeshInv
<1>1. /\ Known' = Known \cup {m} /\ m \notin Known
      /\ Recorded' = Recorded \cup {Producer(m)}
    BY DEF AddMember, Known, Recorded
<1>2. TypeOK'
    BY TransportNames DEF AddMember, TypeOK
<1>3. MembersOnly'
    BY <1>1, TransportNames DEF AddMember, MembersOnly, Known, TypeOK
<1>4. MembersKeepRecords'
    BY <1>1, TransportNames
       DEF AddMember, MembersKeepRecords, MembersOnly, Known, Recorded, TypeOK
<1>5. AskedOnce'
    BY <1>1, TransportNames DEF AddMember, AskedOnce, MembersOnly
<1>6. IndexIsSorted' /\ EndedIsEmpty'
    BY DEF AddMember, IndexIsSorted, EndedIsEmpty
<1>7. QED
    BY <1>2, <1>3, <1>4, <1>5, <1>6

\* A producer transport becomes ready: what it asks for is among members.
LEMMA ProducerReadyStep ==
  ASSUME MeshInv, NEW m \in Member, ProducerReady(m)
  PROVE  MeshInv'
<1> USE DEF MeshInv
<1>1. /\ Known' = Known /\ m \in Known
      /\ Recorded' = Recorded \cup Requested(m)
    BY TransportNames DEF ProducerReady, Known, Recorded, MembersOnly
<1>2. told' \in [Member -> SUBSET Member]
    BY TransportNames DEF ProducerReady, TellOwner, TypeOK
<1>3. TypeOK'
    BY <1>2, RequestedNames, TransportNames DEF ProducerReady, TypeOK
<1>4. MembersOnly'
    BY <1>1, RequestedNames, TransportNames
       DEF ProducerReady, MembersOnly, Known
<1>5. MembersKeepRecords'
    BY RequestedNames DEF ProducerReady, MembersKeepRecords, TypeOK
<1>6. AskedOnce'
    BY <1>1, RequestedNames, TransportNames
       DEF ProducerReady, AskedOnce, Recorded
<1>7. IndexIsSorted' /\ EndedIsEmpty'
    BY DEF ProducerReady, IndexIsSorted, EndedIsEmpty
<1>8. QED
    BY <1>3, <1>4, <1>5, <1>6, <1>7

\* A consumer transport becomes ready: it is indexed under its own names.
LEMMA ConsumerReadyStep ==
  ASSUME MeshInv, NEW t \in pending, ConsumerReady(t)
  PROVE  MeshInv'
<1> USE DEF MeshInv
<1>1. /\ t \in Transport /\ t.owner \in Member /\ t.source \in Member
      /\ {t.owner, t.source, t.by} \subseteq Known
    BY DEF TypeOK, Transport, MembersOnly, Recorded
<1>2. Known' = Known /\ Recorded' = Recorded
    BY DEF ConsumerReady, Known, Recorded
<1>3. \A a, b \in Member :
        \/ consumers'[a][b] = consumers[a][b]
        \/ consumers'[a][b] \in {t, None} /\ a = t.owner /\ b = t.source
    BY <1>1 DEF ConsumerReady, TypeOK
<1>4. consumers' \in [Member -> [Member -> Transport \cup {None}]]
  <2>1. CASE UNCHANGED consumers
      BY <2>1 DEF TypeOK
  <2>2. ASSUME NEW v \in Transport \cup {None},
               consumers' = [consumers EXCEPT ![t.owner][t.source] = v]
         PROVE consumers' \in [Member -> [Member -> Transport \cup {None}]]
      BY <1>1, <2>2 DEF TypeOK
  <2>3. QED
      BY <1>1, <2>1, <2>2 DEF ConsumerReady
<1>5. TypeOK'
  <2>1. told' \in [Member -> SUBSET Member]
      BY <1>1 DEF ConsumerReady, TellOwner, TypeOK
  <2>2. QED
      BY <1>1, <1>4, <2>1 DEF ConsumerReady, TypeOK
<1>6. MembersOnly'
    BY <1>1, <1>2, <1>3 DEF ConsumerReady, MembersOnly
<1>7. MembersKeepRecords' /\ EndedIsEmpty'
    BY DEF ConsumerReady, MembersKeepRecords, EndedIsEmpty
<1>8. AskedOnce'
    BY <1>2 DEF ConsumerReady, AskedOnce
<1>9. IndexIsSorted'
    BY <1>1, <1>3 DEF IndexIsSorted
<1>10. QED
    BY <1>5, <1>6, <1>7, <1>8, <1>9

\* A departure deletes transports of the leaving member only.
LEMMA RemoveMemberStep ==
  ASSUME MeshInv, NEW m \in Member, RemoveMember(m)
  PROVE  MeshInv'
<1> USE DEF MeshInv
<1>1. Known' = Known /\ Recorded' \subseteq Recorded
    BY DEF RemoveMember, Known, Recorded
<1>2. \A t \in live : t.owner # m => t \in live'
  <2>1. \A t \in live : t # None
      BY MeshAssumption DEF TypeOK, Transport
  <2>2. QED
      BY <2>1, TransportNames DEF RemoveMember, IndexIsSorted
<1>3. TypeOK'
    BY DEF RemoveMember, TypeOK
<1>4. MembersOnly'
    BY <1>1 DEF RemoveMember, MembersOnly
<1>5. MembersKeepRecords'
    BY <1>2, TransportNames DEF RemoveMember, MembersKeepRecords, TypeOK
<1>6. AskedOnce'
    BY <1>1 DEF RemoveMember, AskedOnce
<1>7. IndexIsSorted' /\ EndedIsEmpty'
    BY DEF RemoveMember, IndexIsSorted, EndedIsEmpty
<1>8. QED
    BY <1>3, <1>4, <1>5, <1>6, <1>7

\* The space ends when nobody is left in it.
LEMMA EndSpaceStep ==
  ASSUME MeshInv, EndSpace
  PROVE  MeshInv'
<1> USE DEF MeshInv
<1>1. Known' = Known /\ Recorded' \subseteq Recorded
    BY DEF EndSpace, Known, Recorded
<1>2. TypeOK'
    BY DEF EndSpace, TypeOK
<1>3. MembersOnly' /\ AskedOnce'
    BY <1>1 DEF EndSpace, MembersOnly, AskedOnce
<1>4. MembersKeepRecords' /\ IndexIsSorted' /\ EndedIsEmpty'
    BY DEF EndSpace, MembersKeepRecords, IndexIsSorted, EndedIsEmpty
<1>5. QED
    BY <1>2, <1>3, <1>4

\* Every step preserves the invariant.
LEMMA MeshInvStep == MeshInv /\ [Next]_vars => MeshInv'
<1> SUFFICES ASSUME MeshInv, [Next]_vars PROVE MeshInv'
    OBVIOUS
<1>1. ASSUME NEW r \in Router, ReplacePrimary(r)
       PROVE  MeshInv'
    BY <1>1 DEF ReplacePrimary, MeshInv, TypeOK, MembersOnly,
       MembersKeepRecords, AskedOnce, IndexIsSorted, EndedIsEmpty, Known,
       Recorded
<1>2. ASSUME NEW t \in pending, TransportFailed(t)
       PROVE  MeshInv'
    BY <1>2 DEF TransportFailed, MeshInv, TypeOK, MembersOnly,
       MembersKeepRecords, AskedOnce, IndexIsSorted, EndedIsEmpty, Known,
       Recorded
<1>3. CASE UNCHANGED vars
    BY <1>3 DEF vars, MeshInv, TypeOK, MembersOnly, MembersKeepRecords,
       AskedOnce, IndexIsSorted, EndedIsEmpty, Known, Recorded
<1>4. QED
    BY <1>1, <1>2, <1>3, AddMemberStep, ProducerReadyStep, ConsumerReadyStep,
       RemoveMemberStep, EndSpaceStep DEF Next

\* The members and the transports recorded for them fit together in every
\* state the coordinator reaches.
THEOREM Invariance == Spec => []MeshInv
BY InitInv, MeshInvStep, PTL DEF Spec

-----------------------------------------------------------------------------
(***************************************************************************)
(* The properties of the runs.  TypeOK is a part of the invariant; the     *)
(* others have steps of their own.                                         *)
(***************************************************************************)

\* Types: no action stores anything else.
THEOREM MeshTypes == Spec => []TypeOK
<1>1. MeshInv => TypeOK
    BY DEF MeshInv
<1>2. QED
    BY <1>1, Invariance, PTL

\* Whoever's producer transport became ready asked for transports with every
\* other member that was ready by then, and the last of two asks for both.
LEMMA MeshIsRequestedStep ==
  MeshInv /\ MeshIsRequested /\ [Next]_vars => MeshIsRequested'
<1> SUFFICES ASSUME MeshInv, MeshIsRequested, [Next]_vars,
                    NEW p \in Pair, p[1] \in joined', p[2] \in joined',
                    Producer(p[1]) \in allocated',
                    Producer(p[2]) \in allocated'
             PROVE  \E t \in live' : t.owner = p[1] /\ t.source = p[2]
    BY DEF MeshIsRequested
<1> USE DEF MeshInv
<1>1. p[1] \in Member /\ p[2] \in Member /\ p[1] # p[2]
    BY DEF Pair
<1>2. ASSUME \A m \in {p[1], p[2]} : m \in joined /\ Producer(m) \in allocated,
             \A t \in live : t.owner = p[1] => t \in live'
       PROVE  \E t \in live' : t.owner = p[1] /\ t.source = p[2]
    BY <1>2 DEF MeshIsRequested
<1>3. ASSUME NEW m \in Member, AddMember(m)
       PROVE  \E t \in live' : t.owner = p[1] /\ t.source = p[2]
  <2>1. m \notin {p[1], p[2]}
      BY <1>1, <1>3, TransportNames
         DEF AddMember, MembersOnly, Known, Recorded
  <2>2. QED
      BY <1>2, <1>3, <2>1 DEF AddMember
<1>4. ASSUME NEW m \in Member, ProducerReady(m)
       PROVE  \E t \in live' : t.owner = p[1] /\ t.source = p[2]
  <2>1. joined' = joined /\ live' = live \cup Requested(m)
      BY <1>4 DEF ProducerReady
  <2>2. \A n \in {p[1], p[2]} : n \in joined /\ n \in producer
                              /\ Producer(n) \in live
      BY <1>1, <2>1 DEF MembersKeepRecords, MembersOnly
  <2>3. CASE m = p[1]
      BY <1>1, <2>1, <2>2, <2>3, RequestedNames, TransportNames
  <2>4. CASE m = p[2]
      BY <1>1, <2>1, <2>2, <2>4, RequestedNames, TransportNames
  <2>5. CASE m \notin {p[1], p[2]}
      BY <1>1, <1>2, <1>4, <2>1, <2>2, <2>5, TransportNames DEF ProducerReady
  <2>6. QED
      BY <2>3, <2>4, <2>5
<1>5. ASSUME NEW t \in pending, ConsumerReady(t)
       PROVE  \E u \in live' : u.owner = p[1] /\ u.source = p[2]
    BY <1>1, <1>2, <1>5, TransportNames DEF ConsumerReady
<1>6. ASSUME NEW m \in Member, RemoveMember(m)
       PROVE  \E t \in live' : t.owner = p[1] /\ t.source = p[2]
  <2>1. \A t \in live : t # None
      BY MeshAssumption DEF TypeOK, Transport
  <2>2. m # p[1] /\ p[1] \in joined /\ p[2] \in joined
      BY <1>6 DEF RemoveMember
  <2>3. \A t \in live : t.owner = p[1] => t \in live'
      BY <1>6, <2>1, <2>2, TransportNames DEF RemoveMember, IndexIsSorted
  <2>4. QED
      BY <1>2, <1>6, <2>2, <2>3 DEF RemoveMember
<1>7. CASE EndSpace
    BY <1>7 DEF EndSpace
<1>8. CASE \E r \in Router : ReplacePrimary(r)
    BY <1>2, <1>8 DEF ReplacePrimary
<1>9. CASE \E t \in pending : TransportFailed(t)
    BY <1>2, <1>9 DEF TransportFailed
<1>10. CASE UNCHANGED vars
    BY <1>2, <1>10 DEF vars
<1>11. QED
    BY <1>3, <1>4, <1>5, <1>6, <1>7, <1>8, <1>9, <1>10 DEF Next

\* Members whose producer transports are ready have transports for each other.
THEOREM MeshRequested == Spec => []MeshIsRequested
<1>1. Init => MeshIsRequested
    BY DEF Init, MeshIsRequested, Pair
<1>2. QED
    BY <1>1, MeshIsRequestedStep, Invariance, PTL DEF Spec

-----------------------------------------------------------------------------
\* An entry of the index is replaced only by the transport that became ready,
\* and a record is deleted only together with its owner's membership.
LEMMA ConsumersAreIndexedStep ==
  MeshInv /\ ConsumersAreIndexed /\ [Next]_vars => ConsumersAreIndexed'
<1> SUFFICES ASSUME MeshInv, ConsumersAreIndexed, [Next]_vars,
                    NEW a \in Member, NEW b \in Member, a # b, a \in joined'
             PROVE  LET t == consumers'[a][b] IN
                    /\ t # None => /\ t \in live' \cap allocated'
                                   /\ t.owner = a /\ t.source = b
                    /\ t = None /\ b \in joined' =>
                         ~\E u \in live' \cap allocated' :
                            u.owner = a /\ u.source = b
    BY DEF ConsumersAreIndexed, Pair
<1> DEFINE Indexed(t) == t \in live \cap allocated
                         /\ t.owner = a /\ t.source = b
           NoneReady == ~\E u \in live \cap allocated :
                           u.owner = a /\ u.source = b
           Goal == /\ consumers'[a][b] # None => (Indexed(consumers[a][b]))'
                   /\ consumers'[a][b] = None /\ b \in joined' => NoneReady'
<1> SUFFICES Goal
    OBVIOUS
<1> USE DEF MeshInv
<1>1. a \in joined =>
        /\ consumers[a][b] # None => Indexed(consumers[a][b])
        /\ consumers[a][b] = None /\ b \in joined => NoneReady
  <2>1. <<a, b>> \in Pair /\ <<a, b>>[1] = a /\ <<a, b>>[2] = b
      BY DEF Pair
  <2>2. QED
      BY <2>1 DEF ConsumersAreIndexed
<1>2. ASSUME NEW m \in Member, AddMember(m)
       PROVE  Goal
  <2>1. /\ joined' = joined \cup {m} /\ m \notin Known
        /\ live' = live \cup {Producer(m)}
        /\ UNCHANGED <<allocated, consumers>>
      BY <1>2 DEF AddMember, Known
  <2>2. CASE m \in {a, b}
    <3>1. consumers[a][b] = None
        BY <2>1, <2>2 DEF MembersOnly
    <3>2. \A u \in allocated : u.owner # m /\ u.source # m
        BY <2>1 DEF MembersOnly, Recorded
    <3>3. QED
        BY <2>1, <2>2, <3>1, <3>2
  <2>3. CASE m \notin {a, b}
      BY <1>1, <2>1, <2>3, TransportNames
  <2>4. QED
      BY <2>2, <2>3
<1>3. ASSUME NEW m \in Member, ProducerReady(m)
       PROVE  Goal
  <2>1. /\ Producer(m) \in pending
        /\ allocated' = allocated \cup {Producer(m)}
        /\ live' = live \cup Requested(m)
        /\ UNCHANGED <<joined, consumers>>
      BY <1>3 DEF ProducerReady
  <2>2. \A u \in Requested(m) : u \notin allocated
      BY <2>1, RequestedNames DEF AskedOnce, Recorded
  <2>3. Producer(m).owner = m /\ Producer(m).source = m
      BY TransportNames
  <2>4. \A u \in live' \cap allocated' :
          u.owner = a /\ u.source = b => u \in live \cap allocated
      BY <2>1, <2>2, <2>3, RequestedNames
  <2>5. QED
      BY <1>1, <2>1, <2>4
<1>4. ASSUME NEW t \in pending, ConsumerReady(t)
       PROVE  Goal
  <2>1. /\ ~IsProducer(t) /\ allocated' = allocated \cup {t}
        /\ UNCHANGED <<joined, live>>
      BY <1>4 DEF ConsumerReady
  <2>2. t \in Transport /\ t # None
        /\ t.owner \in Member /\ t.source \in Member
      BY MeshAssumption DEF TypeOK, Transport
  <2>3. CASE t.owner = a /\ t.source = b /\ Producer(b) \in live
    <3>1. t \in live
        BY <2>1, <2>3 DEF MembersKeepRecords
    <3>2. consumers'[a][b] = t
        BY <1>4, <2>2, <2>3, <3>1 DEF ConsumerReady, TypeOK
    <3>3. QED
        BY <2>1, <2>2, <2>3, <3>1, <3>2
  <2>4. CASE t.owner = a /\ t.source = b /\ Producer(b) \notin live
    <3>1. b \notin joined /\ consumers' = consumers
        BY <1>4, <2>4 DEF ConsumerReady, MembersKeepRecords
    <3>2. QED
        BY <1>1, <2>1, <3>1
  <2>5. CASE ~(t.owner = a /\ t.source = b)
    <3>1. consumers'[a][b] = consumers[a][b]
        BY <1>4, <2>2, <2>5 DEF ConsumerReady, TypeOK
    <3>2. QED
        BY <1>1, <2>1, <2>5, <3>1
  <2>6. QED
      BY <2>3, <2>4, <2>5
<1>5. ASSUME NEW m \in Member, RemoveMember(m)
       PROVE  Goal
  <2>1. /\ a # m /\ a \in joined /\ joined' \subseteq joined
        /\ live' \subseteq live /\ UNCHANGED <<allocated, consumers>>
      BY <1>5 DEF RemoveMember
  <2>2. \A t \in live : t # None
      BY MeshAssumption DEF TypeOK, Transport
  <2>3. \A t \in live : t.owner = a => t \in live'
      BY <1>5, <2>1, <2>2, TransportNames DEF RemoveMember, IndexIsSorted
  <2>4. QED
      BY <1>1, <2>1, <2>3
<1>6. CASE EndSpace
    BY <1>6 DEF EndSpace
<1>7. CASE \E r \in Router : ReplacePrimary(r)
    BY <1>1, <1>7 DEF ReplacePrimary
<1>8. CASE \E t \in pending : TransportFailed(t)
    BY <1>1, <1>8 DEF TransportFailed
<1>9. CASE UNCHANGED vars
    BY <1>1, <1>9 DEF vars
<1>10. QED
    BY <1>2, <1>3, <1>4, <1>5, <1>6, <1>7, <1>8, <1>9 DEF Next

\* memberToConsumerMap and the transports that are ready agree for every member
\* that stays, while consumer transports and departures overtake one another.
THEOREM MeshIndexed == Spec => []ConsumersAreIndexed
<1>1. Init => ConsumersAreIndexed
    BY DEF Init, ConsumersAreIndexed, Pair
<1>2. QED
    BY <1>1, ConsumersAreIndexedStep, Invariance, PTL DEF Spec

-----------------------------------------------------------------------------
\* A member is told only of transports that are ready, and they stay so.
LEMMA ParamsNameTheirSourceStep ==
  MeshInv /\ ParamsNameTheirSource /\ [Next]_vars => ParamsNameTheirSource'
<1> SUFFICES ASSUME MeshInv, ParamsNameTheirSource, [Next]_vars
             PROVE  ParamsNameTheirSource'
    OBVIOUS
<1> USE DEF MeshInv
<1>1. ASSUME allocated \subseteq allocated', UNCHANGED told
       PROVE  ParamsNameTheirSource'
    BY <1>1 DEF ParamsNameTheirSource
<1>2. ASSUME NEW t \in Transport, allocated' = allocated \cup {t}, TellOwner(t),
             t.owner = t.source => t = Producer(t.owner)
       PROVE  ParamsNameTheirSource'
  <2>1. t.owner \in Member /\ t.source \in Member
      BY DEF Transport
  <2>2. \A m \in Member : told'[m] \subseteq
          told[m] \cup (IF m = t.owner THEN {t.source} ELSE {})
      BY <1>2, <2>1 DEF TellOwner, TypeOK
  <2>3. QED
      BY <1>2, <2>1, <2>2 DEF ParamsNameTheirSource
<1>3. ASSUME NEW m \in Member, ProducerReady(m)
       PROVE  ParamsNameTheirSource'
    BY <1>2, <1>3, TransportNames DEF ProducerReady
<1>4. ASSUME NEW t \in pending, ConsumerReady(t)
       PROVE  ParamsNameTheirSource'
  <2>1. t \in Transport /\ t.owner # t.source
      BY <1>4 DEF ConsumerReady, IsProducer, TypeOK
  <2>2. CASE TellOwner(t)
      BY <1>2, <1>4, <2>1, <2>2 DEF ConsumerReady
  <2>3. CASE UNCHANGED told
      BY <1>1, <1>4, <2>3 DEF ConsumerReady
  <2>4. QED
      BY <1>4, <2>2, <2>3 DEF ConsumerReady
<1>5. CASE \E m \in Member : AddMember(m) \/ RemoveMember(m)
    BY <1>1, <1>5 DEF AddMember, RemoveMember
<1>6. CASE EndSpace
    BY <1>1, <1>6 DEF EndSpace
<1>7. CASE \E r \in Router : ReplacePrimary(r)
    BY <1>1, <1>7 DEF ReplacePrimary
<1>8. CASE \E t \in pending : TransportFailed(t)
    BY <1>1, <1>8 DEF TransportFailed
<1>9. CASE UNCHANGED vars
    BY <1>1, <1>9 DEF vars
<1>10. QED
    BY <1>3, <1>4, <1>5, <1>6, <1>7, <1>8, <1>9 DEF Next

\* The parameters of somebody else's transport are never passed on as a
\* member's own, nor those of a transport the worker has not made.
THEOREM MeshParams == Spec => []ParamsNameTheirSource
<1>1. Init => ParamsNameTheirSource
    BY DEF Init, ParamsNameTheirSource
<1>2. QED
    BY <1>1, ParamsNameTheirSourceStep, Invariance, PTL DEF Spec

-----------------------------------------------------------------------------
\* Departures and late answers do not bring a producer transport back, and in
\* an ended space nobody asks for anything.
LEMMA DepartedStep ==
  MeshInv /\ DepartedCannotBeConsumed /\ [Next]_vars
    => DepartedCannotBeConsumed'
<1> SUFFICES ASSUME MeshInv, DepartedCannotBeConsumed, [Next]_vars
             PROVE  DepartedCannotBeConsumed'
    OBVIOUS
<1> USE DEF MeshInv
<1>1. ASSUME UNCHANGED <<left, live, ended>>,
             ended => UNCHANGED <<router, primary>>
       PROVE  DepartedCannotBeConsumed'
    BY <1>1 DEF DepartedCannotBeConsumed
<1>2. ASSUME NEW m \in Member, AddMember(m)
       PROVE  DepartedCannotBeConsumed'
  <2>1. \A n \in left : Producer(n) # Producer(m)
      BY <1>2, TransportNames DEF AddMember, TypeOK
  <2>2. QED
      BY <1>2, <2>1 DEF AddMember, DepartedCannotBeConsumed
<1>3. ASSUME NEW m \in Member, ProducerReady(m)
       PROVE  DepartedCannotBeConsumed'
  <2>1. \A n \in left : Producer(n) \notin Requested(m)
      BY RequestedNames, TransportNames DEF TypeOK
  <2>2. ended => Requested(m) = {}
      BY RequestedNames DEF EndedIsEmpty
  <2>3. QED
      BY <1>3, <2>1, <2>2 DEF ProducerReady, DepartedCannotBeConsumed
<1>4. ASSUME NEW m \in Member, RemoveMember(m)
       PROVE  DepartedCannotBeConsumed'
    BY <1>4 DEF RemoveMember, DepartedCannotBeConsumed
<1>5. CASE EndSpace
  <2>1. \A t \in live : t.by \in Member
      BY DEF TypeOK, Transport
  <2>2. QED
      BY <1>5, <2>1 DEF EndSpace, RouterOf, DepartedCannotBeConsumed
<1>6. CASE \E t \in pending : ConsumerReady(t) \/ TransportFailed(t)
    BY <1>1, <1>6 DEF ConsumerReady, TransportFailed
<1>7. CASE \E r \in Router : ReplacePrimary(r)
    BY <1>1, <1>7 DEF ReplacePrimary
<1>8. CASE UNCHANGED vars
    BY <1>1, <1>8 DEF vars
<1>9. QED
    BY <1>2, <1>3, <1>4, <1>5, <1>6, <1>7, <1>8 DEF Next

\* Nobody is asked to consume from a member that left, and a space that ends
\* on its only router takes every transport record with it.
THEOREM MeshDeparted == Spec => []DepartedCannotBeConsumed
<1>1. Init => DepartedCannotBeConsumed
    BY DEF Init, DepartedCannotBeConsumed
<1>2. QED
    BY <1>1, DepartedStep, Invariance, PTL DEF Spec

=============================================================================
