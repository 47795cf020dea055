------------------------- MODULE SpaceServiceProofs -------------------------
(***************************************************************************)
(* Proofs about SpaceService: its invariants hold for any servers, spaces, *)
(* policies and bounds.                                                    *)
(*                                                                         *)
(* Two strengthenings are inductive over the types.  RouterInv: a reply    *)
(* may hand a router over because nobody else has it, and allocate() may   *)
(* record one because its id is fresh.  UseInv: a late reply may start a   *)
(* space because it records the subscriber it starts it for, and a member  *)
(* may be added because its server's subscription keeps the space running. *)
(***************************************************************************)
EXTENDS SpaceService, TLAPS

USE SpaceAssumption DEF RouterId, MemberId, NoRouter

\* A coordinator without spaces satisfies the invariants.
LEMMA InitInv == Init => TypeOK /\ RouterInv /\ UseInv
<1> SUFFICES ASSUME Init PROVE TypeOK /\ RouterInv /\ UseInv
    OBVIOUS
<1>1. TypeOK
    BY DEF Init, TypeOK, Status
<1>2. RouterInv
    BY DEF Init, RouterInv, RunningHasRouter, PendingRouterIsPrivate,
       RouterIdsAreFresh
<1>3. UseInv
    BY DEF Init, UseInv, SubscriptionMapsAgree, RunningExactlyWhileInUse,
       InUse, RequestFitsPolicy, UnstartedIsEmpty, Driven
<1>4. QED
    BY <1>1, <1>2, <1>3

-----------------------------------------------------------------------------
(***************************************************************************)
(* The two helpers several handlers share: allocate() and the transition   *)
(* to "ended".                                                             *)
(***************************************************************************)

\* allocate() records a fresh id under the space and suspends one request.
LEMMA AllocateEffect ==
  ASSUME TypeOK, RouterInv, NEW sp \in Space, NEW k, NEW srv,
         Allocate(sp, k, srv), UNCHANGED lifeVars,
         \A r \in RouterId :
           [router |-> r, space |-> sp, server |-> srv, kind |-> k] \in Request
  PROVE  /\ nextRouter \in RouterId /\ nextRouter' = nextRouter + 1
         /\ pending' \subseteq Request
         /\ routers' \in [RouterId -> Space \cup {NoSpace}]
         /\ RouterInv'
<1>1. nextRouter \in RouterId /\ nextRouter' = nextRouter + 1
    BY DEF Allocate, TypeOK
<1>2. /\ pending' \subseteq Request
      /\ routers' \in [RouterId -> Space \cup {NoSpace}]
    BY <1>1 DEF Allocate, TypeOK
<1>3. routers[nextRouter] = NoSpace
    BY <1>1 DEF RouterInv, RouterIdsAreFresh
<1>4. \A r \in RouterId :
        routers'[r] = IF r = nextRouter THEN sp ELSE routers[r]
    BY <1>1 DEF Allocate, TypeOK
<1>5. \A s \in Space : primaryRouter'[s] = primaryRouter[s]
                       /\ status'[s] = status[s]
                       /\ primaryRouter[s] # nextRouter
    BY <1>1, <1>3 DEF lifeVars, RouterInv, RunningHasRouter
<1>6. RunningHasRouter'
    BY <1>4, <1>5 DEF RouterInv, RunningHasRouter, TypeOK
<1>7. PendingRouterIsPrivate'
  <2> SUFFICES ASSUME NEW p \in pending'
               PROVE  /\ p.router < nextRouter'
                      /\ routers'[p.router] = p.space
                      /\ \A s \in Space : primaryRouter'[s] # p.router
                      /\ \A q \in pending' : q.router = p.router => q = p
      BY DEF PendingRouterIsPrivate
  <2>1. \A q \in pending : q.router \in RouterId /\ q.router < nextRouter
      BY DEF TypeOK, Request, RouterInv, PendingRouterIsPrivate
  <2>2. CASE p \in pending
      BY <1>1, <1>4, <1>5, <2>1, <2>2
         DEF Allocate, RouterInv, PendingRouterIsPrivate
  <2>3. CASE p = [router |-> nextRouter, space |-> sp, server |-> srv,
                  kind |-> k]
      BY <1>1, <1>4, <1>5, <2>1, <2>3 DEF Allocate
  <2>4. QED
      BY <2>2, <2>3 DEF Allocate
<1>8. RouterIdsAreFresh'
    BY <1>1, <1>4 DEF RouterInv, RouterIdsAreFresh, TypeOK
<1>9. QED
    BY <1>1, <1>2, <1>6, <1>7, <1>8 DEF RouterInv

\* Ending a space drops its own router record and no other.
LEMMA EndSpaceEffect ==
  ASSUME TypeOK, RouterInv, NEW sp \in Space, EndSpace(sp),
         UNCHANGED <<nextRouter, pending>>
  PROVE  RouterInv'
<1>1. \A s \in Space : s # sp =>
        status'[s] = status[s] /\ primaryRouter'[s] = primaryRouter[s]
    BY DEF EndSpace, RemoveRouter, TypeOK
<1>2. status'[sp] = "ended" /\ primaryRouter'[sp] = NoRouter
    BY DEF EndSpace, RemoveRouter, TypeOK
<1>3. \A r \in RouterId :
        routers'[r] = IF r = primaryRouter[sp] THEN NoSpace ELSE routers[r]
    BY DEF EndSpace, RemoveRouter
<1>4. \A s \in Space : s # sp /\ primaryRouter[s] # NoRouter
        => primaryRouter[s] # primaryRouter[sp]
    BY DEF RouterInv, RunningHasRouter
<1>5. RunningHasRouter'
    BY <1>1, <1>2, <1>3, <1>4 DEF RouterInv, RunningHasRouter, TypeOK
<1>6. PendingRouterIsPrivate'
    BY <1>1, <1>2, <1>3 DEF RouterInv, PendingRouterIsPrivate, TypeOK, Request
<1>7. RouterIdsAreFresh'
    BY <1>3 DEF RouterInv, RouterIdsAreFresh
<1>8. QED
    BY <1>5, <1>6, <1>7 DEF RouterInv

\* So does the policy's decision after a departure.
LEMMA EndIfIdleEffect ==
  ASSUME TypeOK, NEW sp \in Space, EndIfIdle(sp)
  PROVE  /\ status' \in [Space -> Status]
         /\ primaryRouter' \in [Space -> RouterId \cup {NoRouter}]
         /\ routers' \in [RouterId -> Space \cup {NoSpace}]
         /\ nextRouter' = nextRouter /\ pending' = pending
         /\ RouterInv => RouterInv'
<1>1. CASE ShouldEnd(sp)
  <2>1. EndSpace(sp) /\ UNCHANGED <<nextRouter, pending>>
      BY <1>1 DEF EndIfIdle
  <2>2. /\ status' \in [Space -> Status]
        /\ primaryRouter' \in [Space -> RouterId \cup {NoRouter}]
        /\ routers' \in [RouterId -> Space \cup {NoSpace}]
      BY <2>1 DEF EndSpace, RemoveRouter, TypeOK, Status
  <2>3. QED
      BY <2>1, <2>2, EndSpaceEffect
<1>2. CASE ~ShouldEnd(sp)
    BY <1>2 DEF EndIfIdle, lifeVars, TypeOK, RouterInv, RunningHasRouter,
       PendingRouterIsPrivate, RouterIdsAreFresh
<1>3. QED
    BY <1>1, <1>2

-----------------------------------------------------------------------------
\* Every handler leaves the coordinator's records well-typed.
LEMMA TypeStep ==
  ASSUME TypeOK, [Next]_vars
  PROVE  TypeOK'
<1>1. ASSUME NEW sp \in Space, CreateSpace(sp)
       PROVE  TypeOK'
    BY <1>1 DEF TypeOK, Status, Request, lifeVars, routerVars, subVars,
       memberVars, CreateSpace
<1>2. ASSUME NEW sp \in Space, TransitionToRunning(sp)
       PROVE  TypeOK'
    BY <1>2 DEF TypeOK, Status, Request, lifeVars, routerVars, subVars,
       memberVars, TransitionToRunning, Allocate
<1>3. ASSUME NEW sp \in Space, TransitionToEnded(sp)
       PROVE  TypeOK'
    BY <1>3 DEF TypeOK, Status, Request, lifeVars, routerVars, subVars,
       memberVars, TransitionToEnded, EndSpace, RemoveRouter
<1>4. ASSUME NEW sp \in Space, NEW m \in MemberId, RemoveMember(sp, m)
       PROVE  TypeOK'
    BY <1>4, EndIfIdleEffect DEF RemoveMember, RemoveFrom, subVars, TypeOK
<1>5. ASSUME NEW sp \in Space, NEW srv \in Server, Subscribe(srv, sp)
       PROVE  TypeOK'
    BY <1>5 DEF TypeOK, Status, Request, lifeVars, routerVars, subVars,
       memberVars, Subscribe, RecordSubscription
<1>6. ASSUME NEW sp \in Space, NEW srv \in Server, StartBySubscribe(srv, sp)
       PROVE  TypeOK'
    BY <1>6 DEF TypeOK, Status, Request, lifeVars, routerVars, subVars,
       memberVars, StartBySubscribe, Allocate
<1>7. ASSUME NEW sp \in Space, NEW srv \in Server, Unsubscribe(srv, sp)
       PROVE  TypeOK'
    BY <1>7, EndIfIdleEffect DEF Unsubscribe, DropSubscription, memberVars,
       TypeOK
<1>8. ASSUME NEW sp \in Space, NEW srv \in Server, AddMember(srv, sp)
       PROVE  TypeOK'
    BY <1>8 DEF TypeOK, Status, Request, lifeVars, routerVars, subVars,
       memberVars, AddMember, AddTo, IsSubscribed
<1>9. ASSUME NEW sp \in Space, NEW srv \in Server, StartByAddMember(srv, sp)
       PROVE  TypeOK'
    BY <1>9 DEF TypeOK, Status, Request, lifeVars, routerVars, subVars,
       memberVars, StartByAddMember, Allocate, IsSubscribed
<1>10. ASSUME NEW p \in pending, RouterReadyForSubscribe(p)
       PROVE  TypeOK'
    BY <1>10 DEF TypeOK, Status, Request, lifeVars, routerVars, subVars,
       memberVars, RouterReadyForSubscribe, AssignRouter, RecordSubscription
<1>11. ASSUME NEW p \in pending, RouterReadyForTransition(p)
       PROVE  TypeOK'
    BY <1>11 DEF TypeOK, Status, Request, lifeVars, routerVars, subVars,
       memberVars, RouterReadyForTransition, AssignRouter
<1>12. ASSUME NEW p \in pending, RouterReadyForMember(p)
       PROVE  TypeOK'
    BY <1>12 DEF TypeOK, Status, Request, lifeVars, routerVars, subVars,
       memberVars, RouterReadyForMember, AssignRouter, AddTo
<1>13. ASSUME NEW p \in pending, RouterFailed(p)
       PROVE  TypeOK'
    BY <1>13 DEF TypeOK, Status, Request, lifeVars, routerVars, subVars,
       memberVars, RouterFailed
<1>14. CASE UNCHANGED vars
    BY <1>14 DEF TypeOK, Status, Request, vars, lifeVars, routerVars,
       subVars, memberVars
<1>15. QED
    BY <1>1, <1>2, <1>3, <1>4, <1>5, <1>6, <1>7, <1>8, <1>9, <1>10, <1>11,
       <1>12, <1>13, <1>14 DEF Next, RouterReady

\* Every handler keeps routers owned as RouterInv says.
LEMMA RouterStep ==
  ASSUME TypeOK, RouterInv, [Next]_vars
  PROVE  RouterInv'
<1>1. ASSUME NEW sp \in Space, CreateSpace(sp)
       PROVE  RouterInv'
    BY <1>1 DEF TypeOK, Request, RouterInv, RunningHasRouter,
       PendingRouterIsPrivate, RouterIdsAreFresh, lifeVars, routerVars,
       subVars, memberVars, CreateSpace
<1>2. ASSUME NEW sp \in Space, TransitionToRunning(sp)
       PROVE  RouterInv'
  <2>1. \A r \in RouterId :
          [router |-> r, space |-> sp, server |-> NoServer,
           kind |-> "transition"] \in Request
      BY DEF Request
  <2>2. QED
      BY <1>2, <2>1, AllocateEffect DEF TransitionToRunning
<1>3. ASSUME NEW sp \in Space, TransitionToEnded(sp)
       PROVE  RouterInv'
    BY <1>3, EndSpaceEffect DEF TransitionToEnded
<1>4. ASSUME NEW sp \in Space, NEW m \in MemberId, RemoveMember(sp, m)
       PROVE  RouterInv'
    BY <1>4, EndIfIdleEffect DEF RemoveMember
<1>5. ASSUME NEW sp \in Space, NEW srv \in Server, Subscribe(srv, sp)
       PROVE  RouterInv'
    BY <1>5 DEF TypeOK, Request, RouterInv, RunningHasRouter,
       PendingRouterIsPrivate, RouterIdsAreFresh, lifeVars, routerVars,
       subVars, memberVars, Subscribe, RecordSubscription
<1>6. ASSUME NEW sp \in Space, NEW srv \in Server, StartBySubscribe(srv, sp)
       PROVE  RouterInv'
  <2>1. \A r \in RouterId :
          [router |-> r, space |-> sp, server |-> srv,
           kind |-> "subscribe"] \in Request
      BY DEF Request
  <2>2. QED
      BY <1>6, <2>1, AllocateEffect DEF StartBySubscribe
<1>7. ASSUME NEW sp \in Space, NEW srv \in Server, Unsubscribe(srv, sp)
       PROVE  RouterInv'
    BY <1>7, EndIfIdleEffect DEF Unsubscribe
<1>8. ASSUME NEW sp \in Space, NEW srv \in Server, AddMember(srv, sp)
       PROVE  RouterInv'
    BY <1>8 DEF TypeOK, Request, RouterInv, RunningHasRouter,
       PendingRouterIsPrivate, RouterIdsAreFresh, lifeVars, routerVars,
       subVars, memberVars, AddMember, AddTo, IsSubscribed
<1>9. ASSUME NEW sp \in Space, NEW srv \in Server, StartByAddMember(srv, sp)
       PROVE  RouterInv'
  <2>1. \A r \in RouterId :
          [router |-> r, space |-> sp, server |-> srv,
           kind |-> "addMember"] \in Request
      BY DEF Request
  <2>2. QED
      BY <1>9, <2>1, AllocateEffect DEF StartByAddMember
<1>10. ASSUME NEW p \in pending, RouterReadyForSubscribe(p)
       PROVE  RouterInv'
    BY <1>10 DEF TypeOK, Request, RouterInv, RunningHasRouter,
       PendingRouterIsPrivate, RouterIdsAreFresh, lifeVars, routerVars,
       subVars, memberVars, RouterReadyForSubscribe, AssignRouter,
       RecordSubscription
<1>11. ASSUME NEW p \in pending, RouterReadyForTransition(p)
       PROVE  RouterInv'
    BY <1>11 DEF TypeOK, Request, RouterInv, RunningHasRouter,
       PendingRouterIsPrivate, RouterIdsAreFresh, lifeVars, routerVars,
       subVars, memberVars, RouterReadyForTransition, AssignRouter
<1>12. ASSUME NEW p \in pending, RouterReadyForMember(p)
       PROVE  RouterInv'
    BY <1>12 DEF TypeOK, Request, RouterInv, RunningHasRouter,
       PendingRouterIsPrivate, RouterIdsAreFresh, lifeVars, routerVars,
       subVars, memberVars, RouterReadyForMember, AssignRouter, AddTo
<1>13. ASSUME NEW p \in pending, RouterFailed(p)
       PROVE  RouterInv'
    BY <1>13 DEF TypeOK, Request, RouterInv, RunningHasRouter,
       PendingRouterIsPrivate, RouterIdsAreFresh, lifeVars, routerVars,
       subVars, memberVars, RouterFailed
<1>14. CASE UNCHANGED vars
    BY <1>14 DEF TypeOK, Request, RouterInv, RunningHasRouter,
       PendingRouterIsPrivate, RouterIdsAreFresh, vars, lifeVars,
       routerVars, subVars, memberVars
<1>15. QED
    BY <1>1, <1>2, <1>3, <1>4, <1>5, <1>6, <1>7, <1>8, <1>9, <1>10, <1>11,
       <1>12, <1>13, <1>14 DEF Next, RouterReady

\* Every handler keeps spaces running for their users and for nobody else.
LEMMA UseStep ==
  ASSUME TypeOK, RouterInv, UseInv, [Next]_vars
  PROVE  UseInv'
<1>1. ASSUME NEW sp \in Space, CreateSpace(sp)
       PROVE  UseInv'
    BY <1>1 DEF TypeOK, Request, UseInv, SubscriptionMapsAgree,
       RunningExactlyWhileInUse, Driven, InUse, RequestFitsPolicy,
       UnstartedIsEmpty, lifeVars, routerVars, subVars, memberVars,
       CreateSpace
<1>2. ASSUME NEW sp \in Space, TransitionToRunning(sp)
       PROVE  UseInv'
  <2>1. RequestFitsPolicy'
    BY <1>2 DEF TransitionToRunning, Allocate, UseInv, RequestFitsPolicy, lifeVars,
       Driven
  <2>2. (SubscriptionMapsAgree /\ RunningExactlyWhileInUse /\ UnstartedIsEmpty)'
    BY <1>2 DEF TransitionToRunning, UseInv, SubscriptionMapsAgree, lifeVars,
       subVars, memberVars, RunningExactlyWhileInUse, InUse, UnstartedIsEmpty
  <2>3. QED
    BY <2>1, <2>2 DEF UseInv
<1>3. ASSUME NEW sp \in Space, TransitionToEnded(sp)
       PROVE  UseInv'
    BY <1>3 DEF TypeOK, Request, UseInv, SubscriptionMapsAgree,
       RunningExactlyWhileInUse, Driven, InUse, RequestFitsPolicy,
       UnstartedIsEmpty, lifeVars, routerVars, subVars, memberVars,
       TransitionToEnded, EndSpace, RemoveRouter
<1>4. ASSUME NEW sp \in Space, NEW m \in MemberId, RemoveMember(sp, m)
       PROVE  UseInv'
    BY <1>4 DEF TypeOK, Request, UseInv, SubscriptionMapsAgree,
       RunningExactlyWhileInUse, Driven, InUse, RequestFitsPolicy,
       UnstartedIsEmpty, lifeVars, routerVars, subVars, memberVars,
       RemoveMember, RemoveFrom, EndIfIdle, ShouldEnd, EndSpace, RemoveRouter
<1>5. ASSUME NEW sp \in Space, NEW srv \in Server, Subscribe(srv, sp)
       PROVE  UseInv'
    BY <1>5 DEF TypeOK, Request, UseInv, SubscriptionMapsAgree,
       RunningExactlyWhileInUse, Driven, InUse, RequestFitsPolicy,
       UnstartedIsEmpty, lifeVars, routerVars, subVars, memberVars,
       Subscribe, RecordSubscription
<1>6. ASSUME NEW sp \in Space, NEW srv \in Server, StartBySubscribe(srv, sp)
       PROVE  UseInv'
  <2>1. RequestFitsPolicy'
    BY <1>6 DEF StartBySubscribe, Allocate, UseInv, RequestFitsPolicy, lifeVars,
       Driven
  <2>2. (SubscriptionMapsAgree /\ RunningExactlyWhileInUse /\ UnstartedIsEmpty)'
    BY <1>6 DEF StartBySubscribe, UseInv, SubscriptionMapsAgree, lifeVars,
       subVars, memberVars, RunningExactlyWhileInUse, InUse, UnstartedIsEmpty
  <2>3. QED
    BY <2>1, <2>2 DEF UseInv
<1>7. ASSUME NEW sp \in Space, NEW srv \in Server, Unsubscribe(srv, sp)
       PROVE  UseInv'
    BY <1>7 DEF TypeOK, Request, UseInv, SubscriptionMapsAgree,
       RunningExactlyWhileInUse, Driven, InUse, RequestFitsPolicy,
       UnstartedIsEmpty, lifeVars, routerVars, subVars, memberVars,
       Unsubscribe, DropSubscription, EndIfIdle, ShouldEnd, EndSpace, RemoveRouter
<1>8. ASSUME NEW sp \in Space, NEW srv \in Server, AddMember(srv, sp)
       PROVE  UseInv'
    BY <1>8 DEF TypeOK, Request, UseInv, SubscriptionMapsAgree,
       RunningExactlyWhileInUse, Driven, InUse, RequestFitsPolicy,
       UnstartedIsEmpty, lifeVars, routerVars, subVars, memberVars,
       AddMember, AddTo, IsSubscribed
<1>9. ASSUME NEW sp \in Space, NEW srv \in Server, StartByAddMember(srv, sp)
       PROVE  UseInv'
  <2>1. sp \in Scheduled /\ status[sp] \in {"running", "ended"}
    \* A subscribed space that lacks its router is no space of the default
    \* policy.
    <3>1. InUse(sp)
      BY <1>9 DEF StartByAddMember, IsSubscribed, UseInv, InUse,
         SubscriptionMapsAgree
    <3>2. status[sp] \in {"running", "ended"}
      BY <3>1 DEF UseInv, UnstartedIsEmpty, TypeOK, Status
    <3>3. status[sp] # "running" \/ primaryRouter[sp] # NoRouter
      BY DEF RouterInv, RunningHasRouter
    <3>4. QED
      BY <1>9, <3>1, <3>2, <3>3 DEF StartByAddMember, Allocate, UseInv,
         RunningExactlyWhileInUse, Driven
  <2>2. RequestFitsPolicy'
    BY <1>9, <2>1 DEF StartByAddMember, Allocate, UseInv, RequestFitsPolicy,
       lifeVars, Driven
  <2>3. (SubscriptionMapsAgree /\ RunningExactlyWhileInUse /\ UnstartedIsEmpty)'
    BY <1>9 DEF StartByAddMember, UseInv, SubscriptionMapsAgree, lifeVars,
       subVars, memberVars, RunningExactlyWhileInUse, InUse, UnstartedIsEmpty
  <2>4. QED
    BY <2>2, <2>3 DEF UseInv
<1>10. ASSUME NEW p \in pending, RouterReadyForSubscribe(p)
       PROVE  UseInv'
    BY <1>10 DEF TypeOK, Request, UseInv, SubscriptionMapsAgree,
       RunningExactlyWhileInUse, Driven, InUse, RequestFitsPolicy,
       UnstartedIsEmpty, memberVars,
       RouterReadyForSubscribe, AssignRouter, RecordSubscription
<1>11. ASSUME NEW p \in pending, RouterReadyForTransition(p)
       PROVE  UseInv'
  <2>1. p.space \in Scheduled /\ p \in Request
    BY <1>11 DEF RouterReadyForTransition, UseInv, RequestFitsPolicy, TypeOK
  <2>2. p.space \in Space
    BY <2>1
  <2>3. \A sp \in Space : sp # p.space =>
          status'[sp] = status[sp] /\ primaryRouter'[sp] = primaryRouter[sp]
    BY <1>11, <2>2 DEF RouterReadyForTransition, AssignRouter, TypeOK
  <2>4. status'[p.space] = "running"
    BY <1>11, <2>2 DEF RouterReadyForTransition, TypeOK
  <2>5. \A sp \in Space : InUse(sp)' <=> InUse(sp)
    BY <1>11 DEF RouterReadyForTransition, InUse, subVars, memberVars
  <2>6. SubscriptionMapsAgree'
    BY <1>11 DEF RouterReadyForTransition, UseInv, SubscriptionMapsAgree,
       subVars
  <2>7. RunningExactlyWhileInUse'
    BY <2>1, <2>3, <2>5 DEF UseInv, RunningExactlyWhileInUse, Driven
  <2>8. RequestFitsPolicy'
    BY <1>11, <2>3, <2>4 DEF RouterReadyForTransition, AssignRouter, UseInv,
       RequestFitsPolicy, Driven, TypeOK, Request
  <2>9. UnstartedIsEmpty'
    BY <2>3, <2>4, <2>5 DEF UseInv, UnstartedIsEmpty
  <2>10. QED
    BY <2>6, <2>7, <2>8, <2>9 DEF UseInv
<1>12. ASSUME NEW p \in pending, RouterReadyForMember(p)
       PROVE  UseInv'
    BY <1>12 DEF TypeOK, Request, UseInv, SubscriptionMapsAgree,
       RunningExactlyWhileInUse, Driven, InUse, RequestFitsPolicy,
       UnstartedIsEmpty, lifeVars, routerVars, subVars, memberVars,
       RouterReadyForMember, AssignRouter, AddTo
<1>13. ASSUME NEW p \in pending, RouterFailed(p)
       PROVE  UseInv'
    BY <1>13 DEF TypeOK, Request, UseInv, SubscriptionMapsAgree,
       RunningExactlyWhileInUse, Driven, InUse, RequestFitsPolicy,
       UnstartedIsEmpty, lifeVars, routerVars, subVars, memberVars,
       RouterFailed
<1>14. CASE UNCHANGED vars
    BY <1>14 DEF TypeOK, Request, UseInv, SubscriptionMapsAgree,
       RunningExactlyWhileInUse, Driven, InUse, RequestFitsPolicy,
       UnstartedIsEmpty, vars, lifeVars, routerVars, subVars, memberVars
<1>15. QED
    BY <1>1, <1>2, <1>3, <1>4, <1>5, <1>6, <1>7, <1>8, <1>9, <1>10, <1>11,
       <1>12, <1>13, <1>14 DEF Next, RouterReady

-----------------------------------------------------------------------------
\* The inductive invariant holds in every behaviour.
THEOREM Invariance == Spec => [](TypeOK /\ RouterInv /\ UseInv)
<1>1. TypeOK /\ RouterInv /\ UseInv /\ [Next]_vars
        => (TypeOK /\ RouterInv /\ UseInv)'
    BY TypeStep, RouterStep, UseStep
<1>2. QED
    BY InitInv, <1>1, PTL DEF Spec

\* All records of the coordinator keep their types (TypeOK).
THEOREM TypeCorrect == Spec => []TypeOK
    BY Invariance, PTL

\* A running space has a primary router, recorded as its own.
THEOREM RouterOwnership == Spec => []RunningHasRouter
<1>1. RouterInv => RunningHasRouter
    BY DEF RouterInv
<1>2. QED
    BY Invariance, <1>1, PTL

\* A router no worker has answered for yet is nobody's primary router.
THEOREM PendingPrivacy == Spec => []PendingRouterIsPrivate
<1>1. RouterInv => PendingRouterIsPrivate
    BY DEF RouterInv
<1>2. QED
    BY Invariance, <1>1, PTL

\* Under the default policy, running and being in use are the same thing.
THEOREM RunningIsInUse == Spec => []RunningExactlyWhileInUse
<1>1. UseInv => RunningExactlyWhileInUse
    BY DEF UseInv
<1>2. QED
    BY Invariance, <1>1, PTL

\* serverToSubscribedSpaces and spaceToSubscribingServers stay two views of one
\* relation.
THEOREM SubscriptionsAgree == Spec => []SubscriptionMapsAgree
<1>1. UseInv => SubscriptionMapsAgree
    BY DEF UseInv
<1>2. QED
    BY Invariance, <1>1, PTL

\* A router is only ever waited for in a way the policy of its space allows.
THEOREM RequestsFollowPolicy == Spec => []RequestFitsPolicy
<1>1. UseInv => RequestFitsPolicy
    BY DEF UseInv
<1>2. QED
    BY Invariance, <1>1, PTL

\* No step takes a router away from a space that is still in use after it.
THEOREM RouterLifetime == Spec => RouterOutlivesUsers
<1> DEFINE Kept ==
      \A sp \in Driven, r \in RouterId :
        routers[r] = sp /\ routers'[r] # sp => ~InUse(sp)'
<1>1. TypeOK /\ RouterInv /\ [Next]_vars => Kept
  <2> SUFFICES ASSUME TypeOK, RouterInv, [Next]_vars,
                      NEW sp \in Driven, NEW r \in RouterId,
                      routers[r] = sp, routers'[r] # sp
               PROVE  ~InUse(sp)'
      OBVIOUS
  <2> USE DEF Driven
  <2>1. ASSUME NEW s \in Space, NEW k, NEW srv, Allocate(s, k, srv)
        PROVE  FALSE
      \* allocate() writes a fresh id, not one that has a record.
      BY <2>1 DEF Allocate, TypeOK, RouterInv, RouterIdsAreFresh
  <2>2. ASSUME NEW s \in Space, EndSpace(s)
        PROVE  s = sp
      BY <2>2 DEF EndSpace, RemoveRouter, TypeOK, RouterInv, RunningHasRouter
  <2>3. ASSUME NEW s \in Space, EndIfIdle(s)
        PROVE  ~InUse(sp)'
      BY <2>2, <2>3 DEF EndIfIdle, ShouldEnd, InUse
  <2>4. ASSUME UNCHANGED routers
        PROVE  FALSE
      BY <2>4
  <2>5. ASSUME NEW s \in Space, TransitionToEnded(s)
        PROVE  FALSE
      BY <2>2, <2>5 DEF TransitionToEnded
  <2>6. QED
      BY <2>1, <2>3, <2>4, <2>5 DEF Next, RouterReady, vars, routerVars,
         CreateSpace, TransitionToRunning, RemoveMember, Subscribe,
         StartBySubscribe, Unsubscribe, AddMember, StartByAddMember,
         RouterReadyForSubscribe, RouterReadyForTransition,
         RouterReadyForMember, AssignRouter, RouterFailed
<1>2. QED
    BY Invariance, <1>1, PTL DEF Spec, RouterOutlivesUsers
=============================================================================
