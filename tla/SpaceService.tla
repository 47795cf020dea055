---------------------------- MODULE SpaceService ----------------------------
(***************************************************************************)
(* The coordinator's space lifecycle: SpaceService, the RouterAllocator it *)
(* drives, the lifecycle policy it consults and the membership records     *)
(* MemberService keeps per space.                                          *)
(*                                                                         *)
(* One action is one bus request handled to its end, or the arrival of one *)
(* reply of a media worker together with everything that resumes on it.    *)
(* InProcessBus calls consumers synchronously, and an await on a settled   *)
(* promise resumes before the next event is dispatched, so the only point  *)
(* where a handler is really suspended is the newRouterRequest a worker    *)
(* has not answered yet.  Each of those is a record of `pending'.          *)
(*                                                                         *)
(* Requests the code refuses (nack) change nothing and are stutters.       *)
(***************************************************************************)
EXTENDS Naturals

CONSTANTS
  Server,      \* signaling servers, by serverId
  Space,       \* spaces, by uuid
  Scheduled,   \* spaces whose policy calls the `transition' callback itself
  NoSpace,     \* owner of a router id that is not in RouterAllocator.routers
  NoServer,    \* requester of an allocation made by a transition
  MaxRouters,  \* bound: router ids the id generator hands out
  MaxMembers   \* bound: member ids the id generator hands out

ASSUME SpaceAssumption ==
  /\ Scheduled \subseteq Space
  /\ NoSpace \notin Space
  /\ NoServer \notin Server
  /\ MaxRouters \in Nat
  /\ MaxMembers \in Nat

RouterId == 1 .. MaxRouters
MemberId == 1 .. MaxMembers
NoRouter == 0

VARIABLES
  status,         \* Space.status, "absent" before createSpaceRequest
  primaryRouter,  \* Space.primaryRouter, its id or NoRouter
  routers,        \* RouterAllocator.routers: the owning space of each record
  nextRouter,     \* the router id generator
  pending,        \* newRouterRequests not answered, with what resumes on them
  subscriptions,  \* SpaceService.spaceSubscriptions
  subscribed,     \* SpaceService.spaceToSubscribedMap
  members,        \* Space.members
  nextMember      \* the member id generator

routerVars == <<routers, nextRouter, pending>>
lifeVars   == <<status, primaryRouter>>
subVars    == <<subscriptions, subscribed>>
memberVars == <<members, nextMember>>
vars       == <<lifeVars, routerVars, subVars, memberVars>>

Status == {"absent", "initialized", "running", "ended"}

(***************************************************************************)
(* The continuation of a suspended allocate(): onSubscribeToSpaceRequest,  *)
(* a transition fired by the policy, or onAddMemberRequest.                *)
(***************************************************************************)
Request ==
  [router : RouterId, space : Space, server : Server,
   kind : {"subscribe", "addMember"}]
  \cup
  [router : RouterId, space : Space, server : {NoServer},
   kind : {"transition"}]

TypeOK ==
  /\ status \in [Space -> Status]
  /\ primaryRouter \in [Space -> RouterId \cup {NoRouter}]
  /\ routers \in [RouterId -> Space \cup {NoSpace}]
  /\ nextRouter \in 1 .. MaxRouters + 1
  /\ pending \subseteq Request
  /\ subscriptions \in [Server -> SUBSET Space]
  /\ subscribed \in [Space -> SUBSET Server]
  /\ members \in [Space -> SUBSET MemberId]
  /\ nextMember \in 1 .. MaxMembers + 1

Init ==
  /\ status = [sp \in Space |-> "absent"]
  /\ primaryRouter = [sp \in Space |-> NoRouter]
  /\ routers = [r \in RouterId |-> NoSpace]
  /\ nextRouter = 1
  /\ pending = {}
  /\ subscriptions = [srv \in Server |-> {}]
  /\ subscribed = [sp \in Space |-> {}]
  /\ members = [sp \in Space |-> {}]
  /\ nextMember = 1

-----------------------------------------------------------------------------
(***************************************************************************)
(* RouterAllocator                                                         *)
(***************************************************************************)

\* Mutant: the id generator is read without being advanced.
AllocateSameId(sp, k, srv) ==
  /\ primaryRouter[sp] = NoRouter
  /\ nextRouter <= MaxRouters
  /\ routers' = [routers EXCEPT ![nextRouter] = sp]
  /\ pending' = pending \cup
       {[router |-> nextRouter, space |-> sp, server |-> srv, kind |-> k]}
  /\ UNCHANGED nextRouter

\* allocate() of a space that has no primary router: record, publish, suspend.
Allocate(sp, k, srv) ==
  /\ primaryRouter[sp] = NoRouter
  /\ nextRouter <= MaxRouters
  /\ routers' = [routers EXCEPT ![nextRouter] = sp]
  /\ pending' = pending \cup
       {[router |-> nextRouter, space |-> sp, server |-> srv, kind |-> k]}
  /\ nextRouter' = nextRouter + 1

\* Mutant: the reply leaves its request open.
AssignRouterKeepsRequest(p) ==
  /\ primaryRouter' = [primaryRouter EXCEPT ![p.space] = p.router]
  /\ UNCHANGED routerVars

\* The ack of newRouterRequest: the caller's space gets this router.
AssignRouter(p) ==
  /\ pending' = pending \ {p}
  /\ primaryRouter' = [primaryRouter EXCEPT ![p.space] = p.router]
  /\ UNCHANGED <<routers, nextRouter>>

\* remove(): the record goes, whatever became of it.
RemoveRouter(r) ==
  routers' = [x \in RouterId |-> IF x = r THEN NoSpace ELSE routers[x]]

(***************************************************************************)
(* Subscription bookkeeping, kept in two maps.                             *)
(***************************************************************************)

RecordSubscription(srv, sp) ==
  /\ subscriptions' = [subscriptions EXCEPT ![srv] = @ \cup {sp}]
  /\ subscribed' = [subscribed EXCEPT ![sp] = @ \cup {srv}]

\* Mutant: only the space's map forgets the subscription.
DropFromSpace(srv, sp) ==
  /\ subscribed' = [subscribed EXCEPT ![sp] = @ \ {srv}]
  /\ UNCHANGED subscriptions

\* Mutant: one server's unsubscription is every server's.
DropEveryServer(srv, sp) ==
  /\ subscriptions' = [s \in Server |-> subscriptions[s] \ {sp}]
  /\ subscribed' = [subscribed EXCEPT ![sp] = {}]

DropSubscription(srv, sp) ==
  /\ subscriptions' = [subscriptions EXCEPT ![srv] = @ \ {sp}]
  /\ subscribed' = [subscribed EXCEPT ![sp] = @ \ {srv}]

IsSubscribed(srv, sp) == sp \in subscriptions[srv]

(***************************************************************************)
(* Lifecycle transitions.  SubscriptionDrivenPolicy ends a running space   *)
(* when the step leaves it without subscribers and members; the policy of  *)
(* a Scheduled space answers every hook with "stay".                       *)
(***************************************************************************)
\* Mutant: the end of a space removes its router and forgets its status.
EndSpaceKeepsStatus(sp) ==
  /\ RemoveRouter(primaryRouter[sp])
  /\ primaryRouter' = [primaryRouter EXCEPT ![sp] = NoRouter]
  /\ UNCHANGED status

EndSpace(sp) ==
  /\ RemoveRouter(primaryRouter[sp])
  /\ primaryRouter' = [primaryRouter EXCEPT ![sp] = NoRouter]
  /\ status' = [status EXCEPT ![sp] = "ended"]

\* Mutant: a space ends without its last server, members or not.
ShouldEndWithoutServers(sp) ==
  /\ sp \notin Scheduled
  /\ status[sp] = "running"
  /\ subscribed'[sp] = {}

ShouldEnd(sp) ==
  /\ sp \notin Scheduled
  /\ status[sp] = "running"
  /\ subscribed'[sp] = {}
  /\ members'[sp] = {}

EndIfIdle(sp) ==
  /\ IF ShouldEnd(sp) THEN EndSpace(sp) ELSE UNCHANGED <<routers, lifeVars>>
  /\ UNCHANGED <<nextRouter, pending>>

AddTo(sp) ==
  /\ nextMember <= MaxMembers
  /\ members' = [members EXCEPT ![sp] = @ \cup {nextMember}]
  /\ nextMember' = nextMember + 1

\* Mutant: the member stays in its space.
RemoveNothing(sp, m) == UNCHANGED memberVars

RemoveFrom(sp, m) ==
  /\ members' = [members EXCEPT ![sp] = @ \ {m}]
  /\ UNCHANGED nextMember

-----------------------------------------------------------------------------
(***************************************************************************)
(* Bus requests                                                            *)
(***************************************************************************)
CreateSpace(sp) ==
  /\ status[sp] = "absent"
  /\ status' = [status EXCEPT ![sp] = "initialized"]
  /\ UNCHANGED <<primaryRouter, routerVars, subVars, memberVars>>

\* subscribeToSpaceRequest of a space that already has its router.
Subscribe(srv, sp) ==
  /\ status[sp] \in {"initialized", "running"}
  /\ primaryRouter[sp] # NoRouter
  /\ RecordSubscription(srv, sp)
  /\ UNCHANGED <<lifeVars, routerVars, memberVars>>

\* subscribeToSpaceRequest that starts the space: suspends on the router.
StartBySubscribe(srv, sp) ==
  /\ status[sp] = "initialized"
  /\ sp \notin Scheduled
  /\ Allocate(sp, "subscribe", srv)
  /\ UNCHANGED <<lifeVars, subVars, memberVars>>

Unsubscribe(srv, sp) ==
  /\ status[sp] # "absent"
  /\ DropSubscription(srv, sp)
  /\ UNCHANGED memberVars
  /\ EndIfIdle(sp)

\* addMemberRequest of a space that has a router.
AddMember(srv, sp) ==
  /\ IsSubscribed(srv, sp)
  /\ primaryRouter[sp] # NoRouter
  /\ AddTo(sp)
  /\ UNCHANGED <<lifeVars, routerVars, subVars>>

\* addMemberRequest of a space that has none: the handler allocates one.
StartByAddMember(srv, sp) ==
  /\ IsSubscribed(srv, sp)
  /\ Allocate(sp, "addMember", srv)
  /\ UNCHANGED <<lifeVars, subVars, memberVars>>

\* removeMemberRequest, with notifyMemberLeft.
RemoveMember(sp, m) ==
  /\ m \in members[sp]
  /\ RemoveFrom(sp, m)
  /\ UNCHANGED subVars
  /\ EndIfIdle(sp)

(***************************************************************************)
(* The policy of a Scheduled space calls `transition'.                     *)
(***************************************************************************)
TransitionToRunning(sp) ==
  /\ sp \in Scheduled
  /\ status[sp] = "initialized"
  /\ Allocate(sp, "transition", NoServer)
  /\ UNCHANGED <<lifeVars, subVars, memberVars>>

TransitionToEnded(sp) ==
  /\ sp \in Scheduled
  /\ status[sp] = "running"
  /\ EndSpace(sp)
  /\ UNCHANGED <<nextRouter, pending, subVars, memberVars>>

-----------------------------------------------------------------------------
(***************************************************************************)
(* A media worker answers a newRouterRequest.  applyTransition does not    *)
(* look at the status again after its await: it sets it.                   *)
(***************************************************************************)
RouterReadyForSubscribe(p) ==
  /\ p.kind = "subscribe"
  /\ AssignRouter(p)
  /\ status' = [status EXCEPT ![p.space] = "running"]
  /\ RecordSubscription(p.server, p.space)
  /\ UNCHANGED memberVars

RouterReadyForTransition(p) ==
  /\ p.kind = "transition"
  /\ AssignRouter(p)
  /\ status' = [status EXCEPT ![p.space] = "running"]
  /\ UNCHANGED <<subVars, memberVars>>

RouterReadyForMember(p) ==
  /\ p.kind = "addMember"
  /\ AssignRouter(p)
  /\ AddTo(p.space)
  /\ UNCHANGED <<status, subVars>>

\* The nack: the waiting request fails, the router record stays.
RouterFailed(p) ==
  /\ pending' = pending \ {p}
  /\ UNCHANGED <<lifeVars, routers, nextRouter, subVars, memberVars>>

RouterReady(p) ==
  \/ RouterReadyForSubscribe(p)
  \/ RouterReadyForTransition(p)
  \/ RouterReadyForMember(p)

Next ==
  \/ \E sp \in Space :
       \/ CreateSpace(sp)
       \/ TransitionToRunning(sp)
       \/ TransitionToEnded(sp)
       \/ \E m \in MemberId : RemoveMember(sp, m)
       \/ \E srv \in Server :
            \/ Subscribe(srv, sp)
            \/ StartBySubscribe(srv, sp)
            \/ Unsubscribe(srv, sp)
            \/ AddMember(srv, sp)
            \/ StartByAddMember(srv, sp)
  \/ \E p \in pending : RouterReady(p) \/ RouterFailed(p)

(***************************************************************************)
(* A worker answers every request it was sent; nothing else is obliged to  *)
(* happen.  Which answer is given is left open.                            *)
(***************************************************************************)
Answered(r) ==
  \E p \in pending : p.router = r /\ (RouterReady(p) \/ RouterFailed(p))

Fairness == \A r \in RouterId : WF_vars(Answered(r))

Spec == Init /\ [][Next]_vars /\ Fairness

-----------------------------------------------------------------------------
(***************************************************************************)
(* Safety                                                                  *)
(***************************************************************************)
Driven == Space \ Scheduled

InUse(sp) == subscribed[sp] # {} \/ members[sp] # {}

\* The two subscription maps describe one relation: what isSubscribed() reads
\* per server is what the policy counts per space.
SubscriptionMapsAgree ==
  \A srv \in Server, sp \in Space :
    sp \in subscriptions[srv] <=> srv \in subscribed[sp]

\* A running space has a primary router, and wherever a space has one the
\* allocator still holds its record, under that space: no other space can be
\* given it and removing another space's router does not take it away.
RunningHasRouter ==
  \A sp \in Space :
    /\ status[sp] = "running" => primaryRouter[sp] # NoRouter
    /\ primaryRouter[sp] # NoRouter => routers[primaryRouter[sp]] = sp

\* Under SubscriptionDrivenPolicy a space runs exactly while a server is
\* subscribed or a member is left: it is never left running for nobody, and
\* neither a member nor a subscription survives its end, in whatever order
\* subscriptions, departures and router replies arrive.
RunningExactlyWhileInUse ==
  \A sp \in Driven : status[sp] = "running" <=> InUse(sp)

\* A router a worker has not answered for is recorded under the space that
\* asked, belongs to one request, and is nobody's primary router yet.
PendingRouterIsPrivate ==
  \A p \in pending :
    /\ p.router < nextRouter
    /\ routers[p.router] = p.space
    /\ \A sp \in Space : primaryRouter[sp] # p.router
    /\ \A q \in pending : q.router = p.router => q = p

\* What resumes on a worker's answer still fits the space: only the default
\* policy starts a space for a subscriber, only a Scheduled one by itself, and
\* a member only has a router allocated for a space that was already started.
RequestFitsPolicy ==
  \A p \in pending :
    \/ p.kind = "subscribe" /\ p.space \in Driven
         /\ status[p.space] # "absent"
    \/ p.kind = "transition" /\ p.space \in Scheduled
    \/ p.kind = "addMember" /\ p.space \in Scheduled
         /\ status[p.space] \in {"running", "ended"}

\* A router id the generator has not handed out has no record.
RouterIdsAreFresh ==
  \A r \in RouterId : r >= nextRouter => routers[r] = NoSpace

\* A space without its creation request, or not started, has nothing yet.
UnstartedIsEmpty ==
  \A sp \in Space : status[sp] \in {"absent", "initialized"} =>
    ~InUse(sp) /\ primaryRouter[sp] = NoRouter

\* The two halves of the inductive invariant: who holds which router, and who
\* uses which space.
RouterInv ==
  /\ RunningHasRouter
  /\ PendingRouterIsPrivate
  /\ RouterIdsAreFresh

UseInv ==
  /\ SubscriptionMapsAgree
  /\ RunningExactlyWhileInUse
  /\ RequestFitsPolicy
  /\ UnstartedIsEmpty

\* A router record of a default-policy space is only dropped by a step that
\* leaves the space without subscribers and without members.
RouterOutlivesUsers ==
  [][\A sp \in Driven, r \in RouterId :
       routers[r] = sp /\ routers'[r] # sp => ~InUse(sp)']_vars

(***************************************************************************)
(* What the documentation says and the code does not do.                   *)
(***************************************************************************)

\* "Spaces move through initialized -> running -> ended" and "Invalid
\* transitions are ignored": an ended space stays ended.
EndedIsFinal ==
  [][\A sp \in Space : status[sp] = "ended" => status'[sp] = "ended"]_vars

=============================================================================
