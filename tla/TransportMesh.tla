--------------------------- MODULE TransportMesh ---------------------------
(***************************************************************************)
(* The coordinator's view of one running space's media: MemberService      *)
(* gives every new member a producer transport and, once a worker made     *)
(* it, asks TransportAllocator for consumer transports between the member  *)
(* and everybody else in the space.                                        *)
(*                                                                         *)
(* A member has one producer transport, and a consumer transport is asked  *)
(* for when the producer transport of either end is ready, so a transport  *)
(* is named by who receives on it, whose media it carries and whose        *)
(* producer asked for it.  The generated numeric ids are left out.         *)
(***************************************************************************)
EXTENDS Naturals, FiniteSets

CONSTANTS
  Member,   \* members, each joining at most once (the bound on joins)
  Router,   \* routers the space's primaryRouter may be set to
  None,     \* no transport
  MaxFailures,   \* bound: refused transports that still have a record
  MaxDepartures  \* bound: members that leave

ASSUME MeshAssumption ==
  /\ None \notin [owner : Member, source : Member, by : Member]
  /\ MaxFailures \in Nat /\ MaxDepartures \in Nat

VARIABLES
  primary,    \* Space.primaryRouter; late allocations replace it
  joined,     \* Space.members
  left,       \* members removed again
  router,     \* the router a member's onAddMemberRequest closed over
  producer,   \* members whose Member.producer is set
  live,       \* TransportAllocator.transports
  pending,    \* newWebRtcTransportRequests not answered
  allocated,  \* transports whose status is no longer "unallocated"
  consumers,  \* Member.memberToConsumerMap
  told,       \* members named by the transportParams events a member received
  ended       \* the space ended and its router was removed

vars == <<primary, joined, left, router, producer, live, pending, allocated,
          consumers, told, ended>>

Transport == [owner : Member, source : Member, by : Member]

Producer(m) == [owner |-> m, source |-> m, by |-> m]
Consumer(a, b, m) == [owner |-> a, source |-> b, by |-> m]
IsProducer(t) == t.owner = t.source

\* The router the transport was requested on.
RouterOf(t) == router[t.by]

TypeOK ==
  /\ primary \in Router
  /\ joined \subseteq Member /\ left \subseteq Member
  /\ router \in [Member -> Router]
  /\ producer \subseteq Member
  /\ live \subseteq Transport /\ pending \subseteq Transport
  /\ allocated \subseteq Transport
  /\ consumers \in [Member -> [Member -> Transport \cup {None}]]
  /\ told \in [Member -> SUBSET Member]
  /\ ended \in BOOLEAN

Init ==
  /\ primary \in Router
  /\ joined = {} /\ left = {} /\ producer = {}
  /\ router = [m \in Member |-> primary]
  /\ live = {} /\ pending = {} /\ allocated = {}
  /\ consumers = [a \in Member |-> [b \in Member |-> None]]
  /\ told = [m \in Member |-> {}]
  /\ ended = FALSE

-----------------------------------------------------------------------------
\* A newRouterRequest made before the space was running is answered late.
ReplacePrimary(r) ==
  /\ ~ended
  /\ r # primary
  /\ primary' = r
  /\ UNCHANGED <<joined, left, router, producer, live, pending, allocated,
                 consumers, told, ended>>

\* onAddMemberRequest: member.producer is set before the worker has answered.
AddMember(m) ==
  /\ ~ended
  /\ m \notin joined \cup left
  /\ joined' = joined \cup {m}
  /\ router' = [router EXCEPT ![m] = primary]
  /\ producer' = producer \cup {m}
  /\ live' = live \cup {Producer(m)}
  /\ pending' = pending \cup {Producer(m)}
  /\ UNCHANGED <<primary, left, allocated, consumers, told, ended>>

\* A server passes a transportParams event on to the channel of its member.
PassedOn(t) == t.owner \in joined

\* The transportParams event of a transport that is ready.
TellOwner(t) ==
  told' = IF PassedOn(t)
            THEN [told EXCEPT ![t.owner] = @ \cup {t.source}]
            ELSE told

\* Mutant: the others are not asked to consume from the new member.
RequestedForNewMember(m) ==
  {Consumer(m, b, m) : b \in {c \in (joined \ {m}) \cap producer :
                                Producer(c) \in live}}

\* Mutant: the new member is not asked to consume from the others.
RequestedForOthers(m) ==
  {Consumer(a, m, m) : a \in {b \in joined \ {m} : Producer(m) \in live}}

\* allocate() refuses to consume from a transport that has no record.
Requested(m) ==
  {Consumer(a, m, m) : a \in {b \in joined \ {m} : Producer(m) \in live}}
  \cup
  {Consumer(m, b, m) : b \in {c \in (joined \ {m}) \cap producer :
                                Producer(c) \in live}}

\* A producer transport is ready: ask for the consumer transports in both
\* directions between its member, removed meanwhile or not, and the others.
ProducerReady(m) ==
  /\ Producer(m) \in pending
  /\ allocated' = allocated \cup {Producer(m)}
  /\ live' = live \cup Requested(m)
  /\ pending' = (pending \ {Producer(m)}) \cup Requested(m)
  /\ producer' = producer \cup {m}
  /\ TellOwner(Producer(m))
  /\ UNCHANGED <<primary, joined, left, router, consumers, ended>>

\* Mutant: the transport is indexed under its owner, for the source.
ConsumerIndexedBackwards(t) ==
  /\ t \in pending /\ ~IsProducer(t)
  /\ pending' = pending \ {t}
  /\ allocated' = allocated \cup {t}
  /\ IF Producer(t.source) \in live
       THEN /\ consumers' = [consumers EXCEPT ![t.source][t.owner] =
                               IF t \in live THEN t ELSE None]
            /\ TellOwner(t)
       ELSE UNCHANGED <<consumers, told>>
  /\ UNCHANGED <<primary, joined, left, router, producer, live, ended>>

\* Mutant: a source that is gone is tolerated, its parameters carry no source.
ConsumerOfGoneSource(t) ==
  /\ t \in pending /\ ~IsProducer(t)
  /\ pending' = pending \ {t}
  /\ allocated' = allocated \cup {t}
  /\ IF Producer(t.source) \in live
       THEN /\ consumers' = [consumers EXCEPT ![t.owner][t.source] = t]
            /\ TellOwner(t)
       ELSE /\ told' = [told EXCEPT ![t.owner] = @ \cup {t.owner}]
            /\ UNCHANGED consumers
  /\ UNCHANGED <<primary, joined, left, router, producer, live, ended>>

\* A consumer transport is ready: index it under the source member, unless the
\* source's transport is gone, when the callback throws before it tells anyone.
ConsumerReady(t) ==
  /\ t \in pending /\ ~IsProducer(t)
  /\ pending' = pending \ {t}
  /\ allocated' = allocated \cup {t}
  /\ IF Producer(t.source) \in live
       THEN /\ consumers' = [consumers EXCEPT ![t.owner][t.source] =
                               IF t \in live THEN t ELSE None]
            /\ TellOwner(t)
       ELSE UNCHANGED <<consumers, told>>
  /\ UNCHANGED <<primary, joined, left, router, producer, live, ended>>

Failed(t) == t \in live \ pending /\ t \notin allocated

\* The worker nacks: the record stays, "unallocated".
TransportFailed(t) ==
  /\ t \in pending
  /\ Cardinality({u \in live : Failed(u)}) < MaxFailures
  /\ pending' = pending \ {t}
  /\ UNCHANGED <<primary, joined, left, router, producer, live, allocated,
                 consumers, told, ended>>

\* Mutant: the producer transport of a removed member is kept.
RemoveMemberKeepsProducer(m) ==
  /\ m \in joined
  /\ Cardinality(left) < MaxDepartures
  /\ live' = live \ {consumers[m][b] : b \in Member}
  /\ joined' = joined \ {m}
  /\ left' = left \cup {m}
  /\ UNCHANGED <<primary, router, producer, pending, allocated, consumers,
                 told, ended>>

\* onRemoveMemberRequest.
RemoveMember(m) ==
  /\ m \in joined
  /\ Cardinality(left) < MaxDepartures
  /\ live' = live \ ({Producer(m)} \cup {consumers[m][b] : b \in Member})
  /\ joined' = joined \ {m}
  /\ left' = left \cup {m}
  /\ UNCHANGED <<primary, router, producer, pending, allocated, consumers,
                 told, ended>>

\* The space ends: RouterAllocator.remove() of the primary router.
EndSpace ==
  /\ ~ended
  /\ joined = {} /\ left # {}
  /\ ended' = TRUE
  /\ live' = {t \in live : RouterOf(t) # primary}
  /\ UNCHANGED <<primary, joined, left, router, producer, pending, allocated,
                 consumers, told>>

Next ==
  \/ \E r \in Router : ReplacePrimary(r)
  \/ \E m \in Member : AddMember(m) \/ ProducerReady(m) \/ RemoveMember(m)
  \/ \E t \in pending : ConsumerReady(t) \/ TransportFailed(t)
  \/ EndSpace

\* A worker answers every request; what it answers is open.
Answered(t) ==
  \/ t \in pending /\ IsProducer(t) /\ ProducerReady(t.owner)
  \/ ConsumerReady(t)
  \/ TransportFailed(t)

Spec == Init /\ [][Next]_vars /\ \A t \in Transport : WF_vars(Answered(t))

-----------------------------------------------------------------------------
Pair == {p \in Member \X Member : p[1] # p[2]}

\* Once the producer transports of two members are ready, each has a record of
\* a consumer transport for the other, whatever the order in which they joined
\* and their transports became ready.
MeshIsRequested ==
  \A p \in Pair :
    p[1] \in joined /\ p[2] \in joined
      /\ Producer(p[1]) \in allocated /\ Producer(p[2]) \in allocated
    => \E t \in live : t.owner = p[1] /\ t.source = p[2]

\* A consumer transport that became ready is found under its source member,
\* and what is found there is a live, ready transport for that direction.
ConsumersAreIndexed ==
  \A p \in Pair : p[1] \in joined =>
    LET t == consumers[p[1]][p[2]] IN
    /\ t # None => /\ t \in live \cap allocated
                   /\ t.owner = p[1] /\ t.source = p[2]
    /\ t = None /\ p[2] \in joined =>
         ~\E u \in live \cap allocated : u.owner = p[1] /\ u.source = p[2]

\* A member is told of its own transport only when it is ready, and of a
\* transport for somebody else's media only with the name of that member: the
\* server passes parameters without a source on as the member's own.
ParamsNameTheirSource ==
  \A m \in Member :
    /\ m \in told[m] => Producer(m) \in allocated
    /\ \A b \in told[m] \ {m} :
         \E t \in allocated : t.owner = m /\ t.source = b

\* A member that left has no producer transport, so nothing new is asked to
\* consume from it, and records it still owns die with the space.
DepartedCannotBeConsumed ==
  /\ \A m \in left : Producer(m) \notin live
  /\ ended /\ (\A m \in Member : router[m] = primary) => live = {}

\* Two members who stay end up with a consumer transport each, ready and
\* announced, unless a worker refused one of the transports it takes.
MeshIsCompleted ==
  \A p \in Pair :
    (p[1] \in joined /\ p[2] \in joined) ~>
      \/ p[1] \notin joined \/ p[2] \notin joined
      \/ consumers[p[1]][p[2]] # None /\ p[2] \in told[p[1]]
      \/ \E t \in live : Failed(t) /\ {t.owner, t.source} \subseteq {p[1], p[2]}

(***************************************************************************)
(* What comments say and the code does not do.                             *)
(***************************************************************************)

\* "For every other member, allocate one consumer transport in each direction"
OneConsumerPerDirection ==
  \A t, u \in live : ~IsProducer(t) /\ t.owner = u.owner /\ t.source = u.source
    => t = u

=============================================================================
