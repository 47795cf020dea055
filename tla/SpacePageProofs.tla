-------------------------- MODULE SpacePageProofs --------------------------
(***************************************************************************)
(* Proofs about SpacePage: its safety invariants hold for any number of    *)
(* visits, connections, spaces and signaling servers.                      *)
(*                                                                         *)
(* Each invariant has an inductive part of its own: what was settled stays *)
(* settled (SettledStays), whatever the Space object was made for, or is   *)
(* about to be, had been cleared (MadeWhereCleared), an initialization     *)
(* that waits has a resolver (WaitingIsResolved), and until a first        *)
(* transport is ready the last track has a handler that waits for it       *)
(* (TrackIsAwaited).  The servers given to joins are those the counter     *)
(* went by (GivenInTurn), and the types need a count: no more tracks than  *)
(* settled visits (AsksFollowVisits).                                      *)
(***************************************************************************)
EXTENDS SpacePage, SequenceTheorems, WellFoundedInduction, TLAPS

\* The types that the parts below rest on.
PageTypes ==
  /\ created \in Space \cup {None}
  /\ visit \in Nat /\ effectVisit \in 0 .. visit /\ used \in 0 .. MaxConnections
  /\ settled \subseteq 1 .. effectVisit
  /\ address \in [Visit -> Space \cup {None}]
  /\ answers = [v \in Visit |-> answers[v]]
  /\ stopped \in BOOLEAN /\ initReceived \in BOOLEAN
  /\ link \in {0, used}
  /\ initReceived => link # 0
  /\ factory \in {"none", "loading", "ready", "failed"}
  /\ deferred \subseteq 1 .. used /\ transport \in 0 .. used
  /\ producer = [k \in Session |-> producer[k]]
  /\ sending = [k \in Session |-> sending[k]]
  /\ track \in Nat /\ effectTrack \in 0 .. track
  /\ handlers \subseteq 1 .. effectTrack

\* Whatever was settled had been answered, and answered once.
SettledStays == \A v \in settled : v \in Visit /\ answers[v] # Asked

\* Some visit asked for the space sp and may join it.
ClearedFor(sp) == \E v \in settled : address[v] = sp /\ Verdict(v) = "available"

\* The Space object was made for a space that had been cleared, and will be for
\* one while its render is due; it is there by the time the page calls the
\* space available, and it connects while the effects say so.
MadeWhereCleared ==
  /\ ~overtaken /\ spaceUuid # None => ClearedFor(spaceUuid)
  /\ ~overtaken /\ spaceUuid = None /\ queued.url # None => ClearedFor(address[visit])
  /\ spaceUuid = None => serverUrl = None
  /\ queued.state = "available" => queued.url # None
  /\ queued.url # None => visit # 0
  /\ accessState = "available" \/ effectOf = "available" => spaceUuid # None
  /\ ~stopped => effectOf = "available"
  /\ link # 0 => ~stopped
  /\ \A v \in 1 .. visit : address[v] \in Space

\* While the context does not run, an initialization that came is remembered.
WaitingIsResolved == initReceived /\ context # "running" => resolver

\* On the first connection the last track is sent, or a handler for it waits.
TrackIsAwaited ==
  /\ \A k \in deferred : producer[k] = "none"
  /\ \A k \in Session : producer[k] # "none" => transport # 0 /\ k <= used
  /\ used <= 1 /\ ~IsReady(transport) /\ effectTrack # 0 => effectTrack \in handlers

\* The types of the preflight's answers, of the audio context, and of what the
\* producers send.
AnswerTypes ==
  /\ answers \in [Visit -> Answer \cup {Asked, Failed}]
  /\ queued \in [state : AccessState, url : Server \cup {None}]
  /\ overtaken \in BOOLEAN
  /\ accessState \in AccessState /\ effectOf \in AccessState
  /\ serverUrl \in Server \cup {None} /\ spaceUuid \in Space \cup {None}

ContextTypes ==
  /\ context \in {"suspended", "resuming", "running"}
  /\ listening \in BOOLEAN /\ resolver \in BOOLEAN /\ selfStarted \in BOOLEAN

MediaTypes ==
  /\ producer \in [Session -> {"none", "producing", "ready", "failed"}]
  /\ sending \in [Session -> Track \cup {0}]

\* An effect is due that will ask for the microphone, or a render that will
\* make it due; the visits that may have had the microphone asked for; and all
\* that was asked is among them.
Due == IF effectOf # accessState /\ accessState = "available" THEN 1 ELSE 0

Pending == IF queued.state = "available" /\ accessState # "available" THEN 1 ELSE 0

Allowance == IF effectVisit \in settled \/ effectVisit = 0 THEN effectVisit
                                                         ELSE effectVisit - 1

AsksFollowVisits ==
  /\ visit <= MaxVisits /\ asks \in Nat
  /\ asks + track + Due + Pending <= Allowance

\* The joins since the list last changed had the servers of the counter's last
\* values, in their order.
GivenInTurn ==
  /\ Len(given) <= counter
  /\ \A i \in 1 .. Len(given) :
       given[i] = Picked(servers, (counter - Len(given)) + (i - 1))

PageInv ==
  /\ PageTypes
  /\ PreflightTypeOK /\ AnswerTypes /\ ContextTypes /\ MediaTypes
  /\ AsksFollowVisits /\ GivenInTurn
  /\ SettledStays /\ VerdictIsCurrent
  /\ MadeWhereCleared
  /\ WaitingIsResolved /\ FactoryFollowsContext
  /\ TrackIsAwaited /\ TrackReachesTransport

-----------------------------------------------------------------------------
\* A set of naturals with a bound has a greatest member.
LEMMA GreatestOf ==
  ASSUME NEW n \in Nat, NEW S \in SUBSET (0 .. n), S # {}
  PROVE  Max(S) \in S /\ \A x \in S : Max(S) >= x
<1> DEFINE Below == {n - x : x \in S}
<1>1. Below \subseteq Nat /\ Below # {}
    OBVIOUS
<1>2. PICK b \in Below : \A c \in Below : b <= c
  <2>1. PICK b \in Below : \A c \in Below : <<c, b>> \notin OpToRel(<, Nat)
      BY <1>1, WFMin, NatLessThanWellFounded
  <2>2. \A c \in Below : ~ (c < b)
      BY <1>1, <2>1 DEF OpToRel
  <2>3. QED
      BY <1>1, <2>2
<1>3. PICK g \in S : b = n - g
    OBVIOUS
<1>4. \A x \in S : g >= x
  <2> TAKE x \in S
  <2>1. b <= n - x
      BY <1>2
  <2>2. QED
      BY <1>3, <2>1
<1>5. \E y \in S : \A x \in S : y >= x
    BY <1>4
<1>6. QED
    BY <1>5 DEF Max

-----------------------------------------------------------------------------
\* What the page leaves alone while the preflight answers others, and in a
\* step that changes nothing.
LEMMA QuietStep ==
  ASSUME (PreflightNext /\ UNCHANGED pageVars) \/ UNCHANGED vars
  PROVE  UNCHANGED <<created, visit, effectVisit, address, answers, settled,
                     queued, overtaken, accessState, serverUrl, effectOf,
                     spaceUuid, stopped, link, used, initReceived, context,
                     listening, resolver, selfStarted, factory, deferred,
                     transport, producer, sending, asks, track, effectTrack,
                     handlers>>
BY DEF vars, pageVars, askVars, stateVars, linkVars, contextVars, factoryVars,
       trackVars

\* The types of the state are kept.
LEMMA TypesStep == PageTypes /\ [Next]_vars => PageTypes'
<1> SUFFICES ASSUME PageTypes, [Next]_vars PROVE PageTypes'
    OBVIOUS
<1> USE PageAssumption
    DEF PageTypes, Visit, Session, Track, askVars, stateVars, linkVars,
        contextVars, factoryVars, trackVars
<1>1. CASE (PreflightNext /\ UNCHANGED pageVars) \/ UNCHANGED vars
    BY <1>1, QuietStep
<1>2. ASSUME NEW sp \in Space, Visited(sp)
      PROVE  PageTypes'
  <2>1. created' = None /\ visit' = visit + 1
      BY <1>2 DEF Visited
  <2>2. address' \in [Visit -> Space \cup {None}]
      BY <1>2 DEF Visited
  <2>3. QED
      BY <1>2, <2>1, <2>2 DEF Visited
<1>3. CASE (\E sp \in Space : CreateSubmit(sp) \/ Navigate(sp)) \/ CreateAnswered
  <2>1. ASSUME NEW sp \in Space, CreateSubmit(sp)
        PROVE  PageTypes'
      BY <2>1 DEF CreateSubmit
  <2>2. CASE CreateAnswered
    <3>1. CASE created' = None /\ ~Visited(created)
        BY <2>2, <3>1 DEF CreateAnswered
    <3>2. CASE Visited(created)
        BY <1>2, <2>2, <3>2 DEF CreateAnswered
    <3>3. QED
        BY <2>2, <3>1, <3>2 DEF CreateAnswered
  <2>3. QED
      BY <1>2, <1>3, <2>1, <2>2 DEF Navigate
<1>4. CASE \E v \in Visit : FetchesAnswered(v) \/ FetchFailed(v)
    BY <1>4 DEF FetchesAnswered, FetchFailed
<1>5. CASE FetchEffect \/ Render \/ \E v \in Visit : Settle(v)
  <2>1. CASE FetchEffect
      BY <2>1 DEF FetchEffect
  <2>2. CASE Render
      BY <2>2 DEF Render
  <2>3. ASSUME NEW v \in Visit, Settle(v)
        PROVE  PageTypes'
      BY <2>3 DEF Settle
  <2>4. QED
      BY <1>5, <2>1, <2>2, <2>3
<1>6. CASE RunEffects \/ Connect \/ Disconnect
  <2>1. CASE RunEffects
      BY <2>1 DEF RunEffects
  <2>2. CASE Connect
      BY <2>2 DEF Connect
  <2>3. CASE Disconnect
      BY <2>3 DEF Disconnect
  <2>4. QED
      BY <1>6, <2>1, <2>2, <2>3
<1>7. CASE SpaceInit \/ Click \/ Resumed \/ StartItself
  <2>1. factory' \in {"none", "loading", "ready", "failed"}
      BY <1>7 DEF SpaceInit, Click, Resumed, StartItself, InitFactory
  <2>2. initReceived' \in BOOLEAN /\ (initReceived' => link # 0)
    <3>1. CASE SpaceInit
        BY <3>1 DEF SpaceInit
    <3>2. CASE Click \/ Resumed \/ StartItself
        BY <3>2 DEF Click, Resumed, StartItself
    <3>3. QED
        BY <1>7, <3>1, <3>2
  <2>3. UNCHANGED <<created, visit, effectVisit, used, settled, address, answers, stopped, link,
                    deferred, transport, producer, sending, track, effectTrack,
                    handlers>>
      BY <1>7 DEF SpaceInit, Click, Resumed, StartItself
  <2>4. QED
      BY <2>1, <2>2, <2>3
<1>8. CASE FactoryLoaded
  <2>1. deferred # {} => Max(deferred) \in deferred
      BY GreatestOf
  <2>2. QED
      BY <1>8, <2>1 DEF FactoryLoaded, CreateProducers
<1>9. CASE TransportOffered
  <2>1. link \in 1 .. used
      BY <1>9 DEF TransportOffered
  <2>2. Max({link}) = link
    <3>1. used \in Nat /\ {link} # {} /\ {link} \in SUBSET (0 .. used)
        BY <2>1
    <3>2. Max({link}) \in {link}
        BY ONLY <3>1, GreatestOf
    <3>3. QED
        BY ONLY <3>2
  <2>3. QED
      BY <1>9, <2>1, <2>2 DEF TransportOffered, CreateProducers
<1>10. CASE MediaAnswered \/ TrackEffect
    BY <1>10, SMTT(60) DEF MediaAnswered, TrackEffect
<1>11. CASE \E k \in Session : Produced(k) \/ ProduceFailed(k)
    BY <1>11 DEF Produced, ProduceFailed
<1>12. QED
    BY <1>1, <1>3, <1>4, <1>5, <1>6, <1>7, <1>8, <1>9, <1>10, <1>11 DEF Next

-----------------------------------------------------------------------------
(***************************************************************************)
(* The preflight                                                           *)
(***************************************************************************)

\* An answer of a fetch is not the question.
LEMMA AnswersAreAnswers ==
  ASSUME NEW status \in SpaceStatus, NEW srv
  PROVE  [read |-> ReadSpace(status), join |-> srv] # Asked /\ Failed # Asked
BY DEF SpaceStatus, ReadSpace, Asked, Failed

\* What a settled answer comes to is a verdict, and one that makes the space
\* available names a server.
LEMMA VerdictOf ==
  ASSUME AnswerTypes, NEW v \in Visit, answers[v] # Asked
  PROVE  /\ Verdict(v) \in Verdicts
         /\ Verdict(v) = "available" => answers[v].join \in Server
<1>1. CASE answers[v] = Failed
    BY <1>1 DEF Verdict, Verdicts
<1>2. CASE answers[v] \in Answer
  <2>1. /\ answers[v].read \in {"missing", "open", "ended"}
        /\ answers[v].join \in Server \cup {Refused}
      BY <1>2 DEF Answer
  <2>2. QED
      BY <2>1 DEF Verdict, Verdicts
<1>3. QED
    BY <1>1, <1>2 DEF AnswerTypes

\* Only a visit that was not settled has its answers written, and once it is
\* settled the verdict stays the one it gave.
LEMMA VerdictStep ==
  PageTypes /\ SettledStays /\ VerdictIsCurrent /\ [Next]_vars
    => SettledStays' /\ VerdictIsCurrent'
<1> SUFFICES ASSUME PageTypes, SettledStays, VerdictIsCurrent, [Next]_vars
             PROVE  SettledStays' /\ VerdictIsCurrent'
    OBVIOUS
<1> USE PageAssumption DEF askVars, stateVars
<1>1. ASSUME UNCHANGED <<visit, answers, settled, queued>>
      PROVE  SettledStays' /\ VerdictIsCurrent'
    BY <1>1 DEF SettledStays, VerdictIsCurrent, Verdict
<1>2. ASSUME NEW sp, Visited(sp)
      PROVE  SettledStays' /\ VerdictIsCurrent'
  <2>1. visit' \notin settled
      BY <1>2 DEF Visited, PageTypes
  <2>2. QED
      BY <1>2, <2>1 DEF Visited, SettledStays, VerdictIsCurrent
<1>3. ASSUME NEW v \in Visit, FetchesAnswered(v) \/ FetchFailed(v)
      PROVE  SettledStays' /\ VerdictIsCurrent'
  <2>1. v \notin settled
      BY <1>3 DEF SettledStays, FetchesAnswered, FetchFailed
  <2>2. \A w \in settled : w \in Visit /\ answers'[w] = answers[w]
      BY <1>3, <2>1 DEF SettledStays, FetchesAnswered, FetchFailed, PageTypes
  <2>3. UNCHANGED <<visit, settled, queued>>
      BY <1>3 DEF FetchesAnswered, FetchFailed
  <2>4. QED
      BY <2>2, <2>3 DEF SettledStays, VerdictIsCurrent, Verdict
<1>4. ASSUME NEW v \in Visit, Settle(v)
      PROVE  SettledStays' /\ VerdictIsCurrent'
  <2>1. SettledStays'
      BY <1>4 DEF Settle, SettledStays
  <2>2. UNCHANGED <<visit, answers>> /\ Verdict(visit)' = Verdict(visit)
      BY <1>4 DEF Settle, Verdict
  <2>3. CASE v = visit
    <3>1. v = effectVisit
        BY <1>4, <2>3 DEF Settle, PageTypes
    <3>2. QED
        BY <1>4, <2>1, <2>2, <2>3, <3>1 DEF Settle, TakeVerdict, VerdictIsCurrent
  <2>4. CASE v # visit
    <3>1. visit \in settled' => visit \in settled /\ v # effectVisit
        BY <1>4, <2>4 DEF Settle, PageTypes
    <3>2. QED
        BY <1>4, <2>1, <2>2, <3>1 DEF Settle, VerdictIsCurrent
  <2>5. QED
      BY <2>1, <2>3, <2>4
<1>5. CASE (PreflightNext /\ UNCHANGED pageVars) \/ UNCHANGED vars
    BY <1>1, <1>5, QuietStep
<1>6. CASE (\E sp \in Space : CreateSubmit(sp) \/ Navigate(sp)) \/ CreateAnswered
    BY <1>1, <1>2, <1>6 DEF CreateSubmit, Navigate, CreateAnswered
<1>7. CASE FetchEffect \/ Render \/ RunEffects \/ Connect \/ Disconnect
    BY <1>1, <1>7 DEF FetchEffect, Render, RunEffects, Connect, Disconnect
<1>8. CASE SpaceInit \/ Click \/ Resumed \/ StartItself
    BY <1>1, <1>8 DEF SpaceInit, Click, Resumed, StartItself
<1>9. CASE FactoryLoaded \/ TransportOffered \/ MediaAnswered \/ TrackEffect
    BY <1>1, <1>9 DEF FactoryLoaded, TransportOffered, MediaAnswered, TrackEffect
<1>10. CASE \E k \in Session : Produced(k) \/ ProduceFailed(k)
    BY <1>1, <1>10 DEF Produced, ProduceFailed
<1>11. QED
    BY <1>3, <1>4, <1>5, <1>6, <1>7, <1>8, <1>9, <1>10 DEF Next

\* The Space object is made once, for the address of a visit that cleared it;
\* later visits neither take that back nor make it anew.
LEMMA MadeStep ==
  PageTypes /\ AnswerTypes /\ SettledStays /\ MadeWhereCleared /\ [Next]_vars
    => MadeWhereCleared'
<1> SUFFICES ASSUME PageTypes, AnswerTypes, SettledStays, MadeWhereCleared,
                    [Next]_vars
             PROVE  MadeWhereCleared'
    OBVIOUS
<1> USE PageAssumption DEF askVars, stateVars, linkVars
<1>1. ASSUME UNCHANGED <<visit, address, answers, settled, queued, overtaken,
                         accessState, serverUrl, effectOf, spaceUuid, stopped, link>>
      PROVE  MadeWhereCleared'
    BY <1>1 DEF MadeWhereCleared, ClearedFor, Verdict
<1>2. ASSUME NEW sp \in Space, Visited(sp)
      PROVE  MadeWhereCleared'
  <2>1. \A v \in settled : address'[v] = address[v] /\ v # visit + 1
      BY <1>2 DEF Visited, PageTypes, MadeWhereCleared
  <2>2. \A v \in 1 .. visit' : address'[v] \in Space
      BY <1>2 DEF Visited, PageTypes, MadeWhereCleared, Visit
  <2>3. /\ UNCHANGED <<answers, settled, queued, accessState, serverUrl, effectOf,
                        spaceUuid, stopped, link>>
        /\ visit' # 0
      BY <1>2 DEF Visited, PageTypes
  <2>4. overtaken' = (overtaken \/ queued # [state |-> accessState, url |-> serverUrl])
      BY <1>2 DEF Visited, RenderDue
  <2>5. \A c : ClearedFor(c) => ClearedFor(c)'
      BY <2>1, <2>3 DEF ClearedFor, Verdict
  <2>6. ~overtaken' => ~overtaken /\ queued.url = serverUrl
    <3>1. ~overtaken' => ~overtaken /\ queued = [state |-> accessState, url |-> serverUrl]
        BY <2>4
    <3>2. QED
        BY <3>1
  <2>7. QED
      BY <2>2, <2>3, <2>5, <2>6 DEF MadeWhereCleared
<1>3. ASSUME NEW v \in Visit, FetchesAnswered(v) \/ FetchFailed(v)
      PROVE  MadeWhereCleared'
  <2>1. v \notin settled
      BY <1>3 DEF SettledStays, FetchesAnswered, FetchFailed
  <2>2. \A w \in settled : answers'[w] = answers[w]
      BY <1>3, <2>1 DEF SettledStays, FetchesAnswered, FetchFailed, PageTypes
  <2>3. UNCHANGED <<visit, address, settled, queued, overtaken, accessState,
                    serverUrl, effectOf, spaceUuid, stopped, link>>
      BY <1>3 DEF FetchesAnswered, FetchFailed
  <2>4. QED
      BY <2>2, <2>3 DEF MadeWhereCleared, ClearedFor, Verdict
<1>4. ASSUME NEW v \in Visit, Settle(v)
      PROVE  MadeWhereCleared'
  <2>1. v # 0 /\ visit # 0 /\ settled' = settled \cup {v}
      BY <1>4 DEF Settle, Visit, PageTypes
  <2>2. UNCHANGED <<visit, address, answers, accessState, serverUrl, effectOf,
                    spaceUuid, stopped, link>>
      BY <1>4 DEF Settle
  <2>3. \A sp : ClearedFor(sp) => ClearedFor(sp)'
      BY <2>1, <2>2 DEF ClearedFor, Verdict
  <2>4. overtaken' = (overtaken \/ (v = effectVisit /\ v # visit))
      BY <1>4 DEF Settle
  <2>5. CASE v = effectVisit /\ Verdict(v) = "available"
    <3>1. ClearedFor(address[v])'
        BY <2>1, <2>2, <2>5 DEF ClearedFor, Verdict
    <3>2. ~overtaken' => ~overtaken /\ ClearedFor(address[visit])'
        BY <2>2, <2>4, <2>5, <3>1
    <3>3. queued'.url = answers[v].join
        BY <1>4, <2>5 DEF Settle, TakeVerdict
    <3>4. answers[v].join # None
        BY <1>4, <2>5, VerdictOf DEF Settle
    <3>5. QED
        BY <2>1, <2>2, <2>3, <3>2, <3>3, <3>4 DEF MadeWhereCleared
  <2>6. CASE ~ (v = effectVisit /\ Verdict(v) = "available")
    <3>1. /\ queued'.url = queued.url
          /\ queued'.state = "available" => queued.state = "available"
        BY <1>4, <2>6 DEF Settle, TakeVerdict
    <3>2. ~overtaken' => ~overtaken
        BY <2>4
    <3>3. ClearedFor(address[visit]) => ClearedFor(address[visit])'
        BY <2>2, <2>3
    <3>4. QED
        BY <2>1, <2>2, <2>3, <3>1, <3>2, <3>3 DEF MadeWhereCleared
  <2>7. QED
      BY <2>5, <2>6
<1>5. CASE RunEffects \/ Connect \/ Disconnect
  <2>1. UNCHANGED <<visit, address, answers, settled, queued, overtaken,
                    accessState, serverUrl, spaceUuid>>
      BY <1>5 DEF RunEffects, Connect, Disconnect
  <2>2. \A sp : ClearedFor(sp)' = ClearedFor(sp)
      BY <2>1 DEF ClearedFor, Verdict
  <2>3. CASE RunEffects
    <3>1. /\ effectOf' = accessState
          /\ ~stopped' => accessState = "available"
          /\ link' # 0 => ~stopped'
        BY <2>3 DEF RunEffects, MadeWhereCleared
    <3>2. QED
        BY <2>1, <2>2, <3>1 DEF MadeWhereCleared
  <2>4. CASE Connect \/ Disconnect
      BY <2>1, <2>2, <2>4 DEF Connect, Disconnect, MadeWhereCleared
  <2>5. QED
      BY <1>5, <2>3, <2>4
<1>6. CASE (PreflightNext /\ UNCHANGED pageVars) \/ UNCHANGED vars
    BY <1>1, <1>6, QuietStep
<1>7. CASE \E sp \in Space : CreateSubmit(sp) \/ Navigate(sp)
    BY <1>1, <1>2, <1>7 DEF CreateSubmit, Navigate
<1>8. CASE SpaceInit \/ Click \/ Resumed \/ StartItself
    BY <1>1, <1>8 DEF SpaceInit, Click, Resumed, StartItself
<1>9. CASE FactoryLoaded \/ TransportOffered \/ MediaAnswered \/ TrackEffect
    BY <1>1, <1>9 DEF FactoryLoaded, TransportOffered, MediaAnswered, TrackEffect
<1>10. CASE \E k \in Session : Produced(k) \/ ProduceFailed(k)
    BY <1>1, <1>10 DEF Produced, ProduceFailed
<1>11. CASE CreateAnswered
    BY <1>1, <1>2, <1>11 DEF CreateAnswered, PageTypes
<1>12. CASE Render
  <2>1. /\ UNCHANGED <<visit, address, answers, settled, queued, overtaken,
                       effectOf, stopped, link>>
        /\ accessState' = queued.state /\ serverUrl' = queued.url
        /\ accessState = effectOf
      BY <1>12 DEF Render, EffectsDone
  <2>2. \A sp : ClearedFor(sp)' = ClearedFor(sp)
      BY <2>1 DEF ClearedFor, Verdict
  <2>3. CASE spaceUuid = None /\ queued.url # None
    <3>1. spaceUuid' = address[visit] /\ address[visit] # None
        BY <1>12, <2>3 DEF Render, MadeWhereCleared, PageTypes
    <3>2. QED
        BY <2>1, <2>2, <2>3, <3>1 DEF MadeWhereCleared
  <2>4. CASE ~ (spaceUuid = None /\ queued.url # None)
    <3>1. spaceUuid' = spaceUuid
        BY <1>12, <2>4 DEF Render
    <3>2. QED
        BY <2>1, <2>2, <2>4, <3>1 DEF MadeWhereCleared
  <2>5. QED
      BY <2>3, <2>4
<1>13. CASE FetchEffect
    BY <1>1, <1>13 DEF FetchEffect
<1>14. QED
    BY <1>3, <1>4, <1>5, <1>6, <1>7, <1>8, <1>9, <1>10, <1>11, <1>12, <1>13 DEF Next

-----------------------------------------------------------------------------
(***************************************************************************)
(* The audio context and the microphone                                    *)
(***************************************************************************)

\* However click, resume and spaceInit interleave, whoever comes last has the
\* factory initialized.
LEMMA ContextStep ==
  PageTypes /\ WaitingIsResolved /\ FactoryFollowsContext /\ [Next]_vars
    => WaitingIsResolved' /\ FactoryFollowsContext'
<1> SUFFICES ASSUME PageTypes, WaitingIsResolved, FactoryFollowsContext, [Next]_vars
             PROVE  WaitingIsResolved' /\ FactoryFollowsContext'
    OBVIOUS
<1> USE DEF linkVars, contextVars, factoryVars, WaitingIsResolved,
            FactoryFollowsContext
<1>1. ASSUME UNCHANGED <<initReceived, context, resolver, selfStarted, factory>>
      PROVE  WaitingIsResolved' /\ FactoryFollowsContext'
    BY <1>1
<1>2. CASE SpaceInit
    BY <1>2 DEF SpaceInit, InitFactory
<1>3. CASE Click \/ Resumed \/ StartItself
    BY <1>3 DEF Click, Resumed, StartItself, InitFactory
<1>4. CASE FactoryLoaded
    BY <1>4 DEF FactoryLoaded
<1>5. CASE RunEffects \/ Disconnect
    BY <1>5 DEF RunEffects, Disconnect
<1>6. CASE (PreflightNext /\ UNCHANGED pageVars) \/ UNCHANGED vars
    BY <1>1, <1>6, QuietStep
<1>7. CASE \/ \E sp \in Space : CreateSubmit(sp) \/ Navigate(sp)
           \/ CreateAnswered \/ FetchEffect \/ Render
           \/ \E v \in Visit : FetchesAnswered(v) \/ FetchFailed(v) \/ Settle(v)
    BY <1>1, <1>7 DEF CreateSubmit, Navigate, CreateAnswered, Visited,
                      FetchesAnswered, FetchFailed, Settle, FetchEffect, Render
<1>8. CASE Connect \/ TransportOffered \/ MediaAnswered \/ TrackEffect
    BY <1>1, <1>8 DEF Connect, TransportOffered, MediaAnswered, TrackEffect
<1>9. CASE \E k \in Session : Produced(k) \/ ProduceFailed(k)
    BY <1>1, <1>9 DEF Produced, ProduceFailed
<1>10. QED
    BY <1>2, <1>3, <1>4, <1>5, <1>6, <1>7, <1>8, <1>9 DEF Next

\* New producers are made for offers that have none, and the member's
\* transport is one of them.
LEMMA ProducersEffect ==
  ASSUME PageTypes, TrackIsAwaited, NEW offers \in SUBSET (1 .. used),
         \A k \in offers : producer[k] = "none", CreateProducers(offers)
  PROVE  /\ IsReady(transport)' => offers = {} /\ IsReady(transport)
         /\ offers = {} => UNCHANGED <<producer, transport>>
         /\ \A k \in Session : producer'[k] # "none" =>
              k \in offers \/ producer[k] # "none"
         /\ offers # {} => transport' # 0
         /\ used <= 1 /\ IsReady(transport) => offers = {}
<1> USE DEF PageTypes
<1>1. \A k \in Session : producer'[k] = IF k \in offers THEN "producing" ELSE producer[k]
    BY DEF CreateProducers
<1>2. CASE offers = {}
  <2>1. transport' = transport
      BY <1>2 DEF CreateProducers
  <2>2. producer' = [k \in Session |-> producer[k]]
      BY <1>2 DEF CreateProducers
  <2>3. producer' = producer
      BY <2>2
  <2>4. QED
      BY <1>1, <1>2, <2>1, <2>3 DEF IsReady
<1>3. CASE offers # {}
  <2>1. transport' \in offers
      BY <1>3, GreatestOf DEF CreateProducers
  <2>2. ~ IsReady(transport)'
    <3>1. transport' \in Session
        BY <2>1, PageAssumption DEF Session
    <3>2. QED
        BY <1>1, <2>1, <3>1 DEF IsReady
  <2>3. used <= 1 => ~ IsReady(transport)
      BY <2>1 DEF IsReady
  <2>4. QED
      BY <1>1, <1>3, <2>1, <2>2, <2>3
<1>4. QED
    BY <1>2, <1>3

\* A track that finds no ready transport has a handler until the first one is
\* ready, whichever of track, offer and factory comes last.
LEMMA TrackStep ==
  PageTypes /\ TrackIsAwaited /\ TrackReachesTransport /\ [Next]_vars
    => TrackIsAwaited' /\ TrackReachesTransport'
<1> SUFFICES ASSUME PageTypes, TrackIsAwaited, TrackReachesTransport, [Next]_vars
             PROVE  TrackIsAwaited' /\ TrackReachesTransport'
    OBVIOUS
<1> USE PageAssumption DEF PageTypes, askVars, stateVars, linkVars, contextVars,
                           factoryVars, trackVars
<1>1. ASSUME UNCHANGED <<used, deferred, transport, producer, sending,
                         effectTrack, handlers>>
      PROVE  TrackIsAwaited' /\ TrackReachesTransport'
    BY <1>1 DEF TrackIsAwaited, TrackReachesTransport, IsReady
<1>2. CASE Connect
  <2>1. used' = used + 1 /\ UNCHANGED <<deferred, transport, producer, sending,
                                       effectTrack, handlers>>
      BY <1>2 DEF Connect
  <2>2. IsReady(transport)' = IsReady(transport)
      BY <2>1 DEF IsReady
  <2>3. used' = 1 => ~ IsReady(transport)
      BY <2>1 DEF IsReady
  <2>4. TrackIsAwaited'
    <3>1. used' <= 1 => used <= 1
        BY <2>1
    <3>2. \A k \in Session : producer[k] # "none" => transport # 0 /\ k <= used'
      <4> TAKE k \in Session
      <4>1. k <= used => k <= used'
          BY <2>1 DEF Session
      <4>2. QED
          BY <4>1 DEF TrackIsAwaited
    <3>3. QED
        BY <2>1, <2>2, <3>1, <3>2 DEF TrackIsAwaited
  <2>5. QED
      BY <2>1, <2>2, <2>3, <2>4 DEF TrackReachesTransport
<1>3. ASSUME NEW offers \in SUBSET (1 .. used),
             \A k \in offers : producer[k] = "none", CreateProducers(offers),
             deferred' = deferred \ offers,
             UNCHANGED <<used, sending, effectTrack, handlers>>
      PROVE  TrackIsAwaited' /\ TrackReachesTransport'
  <2>1. /\ IsReady(transport)' => offers = {} /\ IsReady(transport)
        /\ offers = {} => UNCHANGED <<producer, transport>>
        /\ \A k \in Session : producer'[k] # "none" =>
             k \in offers \/ producer[k] # "none"
        /\ offers # {} => transport' # 0
        /\ used <= 1 /\ IsReady(transport) => offers = {}
      BY <1>3, ProducersEffect
  <2>2. offers = {} => IsReady(transport)' = IsReady(transport)
      BY <2>1 DEF IsReady
  <2>3. \A k \in deferred' : producer'[k] = "none"
    <3> TAKE k \in deferred'
    <3>1. k \in deferred /\ k \notin offers
        BY <1>3
    <3>2. k \in Session
        BY <3>1 DEF Session
    <3>3. producer[k] = "none"
        BY <3>1 DEF TrackIsAwaited
    <3>4. QED
        BY <2>1, <3>1, <3>2, <3>3
  <2>4. \A k \in Session : producer'[k] # "none" => transport' # 0 /\ k <= used
    <3> TAKE k \in Session
    <3>1. CASE offers = {}
        BY <2>1, <3>1 DEF TrackIsAwaited
    <3>2. CASE offers # {}
        BY <2>1, <3>2 DEF TrackIsAwaited
    <3>3. QED
        BY <3>1, <3>2
  <2>5. TrackIsAwaited'
    <3>1. used <= 1 /\ ~ IsReady(transport)' => ~ IsReady(transport)
        BY <2>1, <2>2
    <3>2. QED
        BY <1>3, <2>3, <2>4, <3>1 DEF TrackIsAwaited
  <2>6. TrackReachesTransport'
      BY <1>3, <2>1, <2>2 DEF TrackReachesTransport
  <2>7. QED
      BY <2>5, <2>6
<1>4. CASE FactoryLoaded
  <2>1. UNCHANGED <<used, sending, effectTrack, handlers>>
      BY <1>4 DEF FactoryLoaded
  <2>2. CASE CreateProducers(deferred) /\ deferred' = {}
      BY <1>3, <2>1, <2>2 DEF TrackIsAwaited
  <2>3. CASE UNCHANGED <<deferred, transport, producer>>
      BY <1>1, <2>1, <2>3
  <2>4. QED
      BY <1>4, <2>2, <2>3 DEF FactoryLoaded
<1>5. CASE TransportOffered
  <2>1. /\ UNCHANGED <<used, sending, effectTrack, handlers>>
        /\ link \in 1 .. used /\ link \notin deferred /\ producer[link] = "none"
      BY <1>5 DEF TransportOffered
  <2>2. CASE CreateProducers({link}) /\ UNCHANGED deferred
    <3>1. {link} \in SUBSET (1 .. used) /\ deferred' = deferred \ {link}
        BY <2>1, <2>2
    <3>2. QED
        BY <1>3, <2>1, <2>2, <3>1
  <2>3. CASE deferred' = deferred \cup {link} /\ UNCHANGED <<transport, producer>>
      BY <2>1, <2>3 DEF TrackIsAwaited, TrackReachesTransport, IsReady
  <2>4. QED
      BY <1>5, <2>2, <2>3 DEF TransportOffered
<1>6. CASE TrackEffect
  <2>1. /\ effectTrack' = track /\ track # 0
        /\ UNCHANGED <<used, deferred, transport, producer>>
      BY <1>6 DEF TrackEffect
  <2>2. IsReady(transport)' = IsReady(transport)
      BY <2>1 DEF IsReady
  <2>3. CASE IsReady(transport)
    <3>1. transport \in Session
        BY <2>3 DEF IsReady, Session
    <3>2. sending'[transport] = track /\ UNCHANGED handlers
        BY <1>6, <2>3, <3>1 DEF TrackEffect
    <3>3. QED
        BY <2>1, <2>2, <2>3, <3>2 DEF TrackIsAwaited, TrackReachesTransport
  <2>4. CASE ~ IsReady(transport)
    <3>1. handlers' = handlers \cup {track}
        BY <1>6, <2>4 DEF TrackEffect
    <3>2. QED
        BY <2>1, <2>2, <2>4, <3>1 DEF TrackIsAwaited, TrackReachesTransport
  <2>5. QED
      BY <2>3, <2>4
<1>7. ASSUME NEW k \in Session, Produced(k)
      PROVE  TrackIsAwaited' /\ TrackReachesTransport'
  <2>1. /\ UNCHANGED <<used, deferred, transport, effectTrack>>
        /\ handlers' = {}
        /\ \A l \in Session : producer'[l] = IF l = k THEN "ready" ELSE producer[l]
      BY <1>7 DEF Produced
  <2>2. producer[k] = "producing" /\ transport # 0 /\ k <= used
      BY <1>7 DEF Produced, TrackIsAwaited
  <2>3. used <= 1 => used = 1 /\ transport = k /\ ~ IsReady(transport)
      BY <2>2 DEF IsReady, Session
  <2>4. \A l \in deferred' : producer'[l] = "none"
    <3> TAKE l \in deferred'
    <3>1. l \in deferred
        BY <2>1
    <3>2. l \in Session
        BY <3>1 DEF Session
    <3>3. producer[l] = "none"
        BY <3>1 DEF TrackIsAwaited
    <3>4. QED
        BY <2>1, <2>2, <3>2, <3>3
  <2>5. TrackIsAwaited'
    <3>1. used <= 1 => IsReady(transport)'
        BY <2>1, <2>2, <2>3 DEF IsReady
    <3>2. \A l \in Session : producer'[l] # "none" => transport' # 0 /\ l <= used'
        BY <2>1, <2>2 DEF TrackIsAwaited
    <3>3. QED
        BY <2>1, <2>4, <3>1, <3>2 DEF TrackIsAwaited
  <2>6. used = 1 /\ effectTrack # 0 => sending'[transport] = effectTrack
    <3> SUFFICES ASSUME used = 1, effectTrack # 0
                 PROVE  sending'[transport] = effectTrack
        OBVIOUS
    <3>1. effectTrack \in handlers
        BY <2>3 DEF TrackIsAwaited
    <3>2. handlers \in SUBSET (0 .. effectTrack) /\ handlers # {}
        BY <3>1
    <3>3. Max(handlers) \in handlers /\ Max(handlers) >= effectTrack
        BY <3>1, <3>2, GreatestOf
    <3>4. Max(handlers) = effectTrack
        BY <3>3
    <3>5. sending' = [sending EXCEPT ![transport] = Max(handlers)]
        BY <1>7, <2>3, <3>1 DEF Produced
    <3>6. QED
        BY <2>3, <3>4, <3>5
  <2>7. QED
      BY <2>1, <2>5, <2>6 DEF TrackReachesTransport
<1>8. ASSUME NEW k \in Session, ProduceFailed(k)
      PROVE  TrackIsAwaited' /\ TrackReachesTransport'
  <2>1. /\ UNCHANGED <<used, deferred, transport, sending, effectTrack, handlers>>
        /\ \A l \in Session : producer'[l] = IF l = k THEN "failed" ELSE producer[l]
        /\ producer[k] = "producing"
      BY <1>8 DEF ProduceFailed
  <2>2. transport # 0 => transport \in Session
      BY DEF Session
  <2>3. IsReady(transport)' = IsReady(transport)
      BY <2>1, <2>2 DEF IsReady
  <2>4. deferred \subseteq Session
      BY DEF Session
  <2>5. TrackIsAwaited'
      BY <2>1, <2>3, <2>4 DEF TrackIsAwaited
  <2>6. QED
      BY <2>1, <2>3, <2>5 DEF TrackReachesTransport
<1>9. CASE (PreflightNext /\ UNCHANGED pageVars) \/ UNCHANGED vars
    BY <1>1, <1>9, QuietStep
<1>10. CASE \/ \E sp \in Space : CreateSubmit(sp) \/ Navigate(sp)
            \/ CreateAnswered \/ FetchEffect \/ Render
            \/ \E v \in Visit : FetchesAnswered(v) \/ FetchFailed(v) \/ Settle(v)
    BY <1>1, <1>10 DEF CreateSubmit, Navigate, CreateAnswered, Visited,
                       FetchesAnswered, FetchFailed, Settle, FetchEffect, Render
<1>11. CASE RunEffects \/ Disconnect \/ SpaceInit \/ Click \/ Resumed
              \/ StartItself \/ MediaAnswered
    BY <1>1, <1>11 DEF RunEffects, Disconnect, SpaceInit, Click, Resumed,
                       StartItself, MediaAnswered
<1>12. QED
    BY <1>2, <1>4, <1>5, <1>6, <1>7, <1>8, <1>9, <1>10, <1>11 DEF Next

-----------------------------------------------------------------------------
(***************************************************************************)
(* The servers that take joins in turn                                     *)
(***************************************************************************)

\* A number splits into one multiple and one remainder.
LEMMA RemainderOf ==
  ASSUME NEW n \in Nat \ {0}, NEW q \in Nat, NEW r \in 0 .. n - 1
  PROVE  (n * q + r) % n = r
<1> DEFINE x == n * q + r
           d == q - x \div n
<1>1. x \in Nat
    OBVIOUS
<1>2. x \div n \in Nat /\ x % n \in 0 .. n - 1 /\ x = n * (x \div n) + (x % n)
    BY <1>1
<1>3. d \in Int /\ n * d = (x % n) - r
    BY <1>2
<1>4. (d >= 1 => n * d >= n) /\ (d <= -1 => n * d <= -n)
    BY <1>3
<1>5. d = 0
    BY <1>2, <1>3, <1>4
<1>6. QED
    BY <1>2, <1>3, <1>5

\* Fewer than n calls after a call there is another remainder.
LEMMA RemaindersDiffer ==
  ASSUME NEW n \in Nat \ {0}, NEW c \in Nat, NEW k \in 1 .. n - 1
  PROVE  (c + k) % n # c % n
<1> DEFINE q == c \div n
           s == c % n
<1>1. q \in Nat /\ s \in 0 .. n - 1 /\ c = n * q + s
    OBVIOUS
<1>2. c % n = s
    OBVIOUS
<1> HIDE DEF q, s
<1>3. CASE s + k < n
  <2>1. s + k \in 0 .. n - 1 /\ c + k = n * q + (s + k) /\ s + k # s
      BY <1>1, <1>3
  <2>2. (n * q + (s + k)) % n = s + k
      BY <1>1, <2>1, RemainderOf
  <2>3. QED
      BY <1>2, <2>1, <2>2
<1>4. CASE s + k >= n
  <2>1. /\ (s + k) - n \in 0 .. n - 1 /\ (s + k) - n # s
        /\ c + k = n * (q + 1) + ((s + k) - n)
      BY <1>1, <1>4
  <2>2. (n * (q + 1) + ((s + k) - n)) % n = (s + k) - n
      BY <1>1, <2>1, q + 1 \in Nat, RemainderOf
  <2>3. QED
      BY <1>2, <2>1, <2>2
<1>5. QED
    BY <1>1, <1>3, <1>4

\* A server that leaves the list leaves the others in it, each once.
LEMMA RemovedServer ==
  ASSUME NEW s \in Seq(Server), IsInjective(s), NEW k \in DOMAIN s
  PROVE  RemoveAt(s, k) \in Seq(Server) /\ IsInjective(RemoveAt(s, k))
<1> DEFINE before == SubSeq(s, 1, k - 1)
           after == SubSeq(s, k + 1, Len(s))
           t == before \o after
<1>1. /\ before \in Seq(Server) /\ Len(before) = k - 1
      /\ \A i \in 1 .. k - 1 : before[i] = s[i]
    BY SubSeqProperties
<1>2. /\ after \in Seq(Server) /\ Len(after) = Len(s) - k
      /\ \A i \in 1 .. Len(s) - k : after[i] = s[k + i]
    BY SubSeqProperties
<1> HIDE DEF before, after
<1>3. k \in Nat \ {0} /\ Len(s) \in Nat /\ k <= Len(s)
    OBVIOUS
<1>4. /\ t \in Seq(Server) /\ Len(t) = Len(s) - 1
      /\ \A i \in 1 .. Len(s) - 1 : t[i] = IF i < k THEN s[i] ELSE s[i + 1]
  <2>1. /\ t \in Seq(Server) /\ Len(t) = Len(before) + Len(after)
        /\ \A i \in 1 .. Len(before) + Len(after) : t[i] =
             IF i <= Len(before) THEN before[i] ELSE after[i - Len(before)]
      BY <1>1, <1>2, ConcatProperties
  <2> HIDE DEF t
  <2>2. Len(before) + Len(after) = Len(s) - 1
      BY <1>1, <1>2, <1>3
  <2>3. ASSUME NEW i \in 1 .. Len(s) - 1
        PROVE  t[i] = IF i < k THEN s[i] ELSE s[i + 1]
    <3>1. CASE i < k
        BY <1>1, <1>3, <2>1, <2>2, <3>1
    <3>2. CASE ~ (i < k)
      <4>1. i - (k - 1) \in 1 .. Len(s) - k /\ k + (i - (k - 1)) = i + 1
          BY <1>3, <3>2
      <4>2. t[i] = after[i - (k - 1)]
          BY <1>1, <1>3, <2>1, <2>2, <3>2
      <4>3. after[i - (k - 1)] = s[k + (i - (k - 1))]
          BY <1>2, <4>1
      <4>4. QED
          BY <3>2, <4>1, <4>2, <4>3
    <3>3. QED
        BY <3>1, <3>2
  <2>4. QED
      BY <2>1, <2>2, <2>3
<1> HIDE DEF t
<1>5. IsInjective(t)
  <2> SUFFICES ASSUME NEW i \in DOMAIN t, NEW j \in DOMAIN t, t[i] = t[j]
               PROVE  i = j
      BY DEF IsInjective
  <2>1. i \in 1 .. Len(s) - 1 /\ j \in 1 .. Len(s) - 1
      BY <1>4
  <2>2. \A x, y \in 1 .. Len(s) : s[x] = s[y] => x = y
      BY DEF IsInjective
  <2>3. QED
      BY <1>3, <1>4, <2>1, <2>2
<1>6. RemoveAt(s, k) = t
    BY DEF RemoveAt, t, before, after
<1>7. QED
    BY <1>4, <1>5, <1>6

\* A list that changed has given no server to a join yet.
LEMMA GivenAnew ==
  ASSUME PreflightTypeOK, given' = <<>>, UNCHANGED counter
  PROVE  given' \in Seq(Server) /\ GivenInTurn'
BY DEF PreflightTypeOK, GivenInTurn

\* A join is given the server that the counter points to, behind those given
\* before.
LEMMA GivenNext ==
  ASSUME PreflightTypeOK, GivenInTurn, NEW status, NEW answer \in Server,
         counter' = counter + 1, answer = Picked(servers, counter),
         given' = Append(given, answer), UNCHANGED servers
  PROVE  PreflightTypeOK' /\ GivenInTurn'
<1> DEFINE l == Len(given)
<1>1. l \in Nat /\ counter \in Nat /\ l <= counter /\ given \in Seq(Server)
    BY DEF PreflightTypeOK, GivenInTurn
<1>2. /\ given' \in Seq(Server) /\ Len(given') = l + 1
      /\ \A i \in 1 .. l : given'[i] = given[i]
      /\ given'[l + 1] = answer
    BY <1>1, AppendProperties
<1>3. \A i \in 1 .. l : given[i] = Picked(servers, (counter - l) + (i - 1))
    BY DEF GivenInTurn
<1> HIDE DEF l
<1>4. ASSUME NEW i \in 1 .. l + 1
      PROVE  given'[i] = Picked(servers, (counter' - (l + 1)) + (i - 1))
  <2>1. counter' - (l + 1) = counter - l
      BY <1>1
  <2>2. CASE i = l + 1
    <3>1. (counter - l) + (i - 1) = counter
        BY <1>1, <2>2
    <3>2. QED
        BY <1>2, <2>1, <2>2, <3>1
  <2>3. CASE i # l + 1
    <3>1. i \in 1 .. l
        BY <1>1, <2>3
    <3>2. QED
        BY <1>2, <1>3, <2>1, <3>1
  <2>4. QED
      BY <2>2, <2>3
<1>5. GivenInTurn'
  <2>1. \A n : Picked(servers, n)' = Picked(servers, n)
      BY DEF Picked
  <2>2. Len(given') <= counter'
      BY <1>1, <1>2
  <2>3. QED
      BY <1>2, <1>4, <2>2 DEF GivenInTurn, Picked
<1>6. PreflightTypeOK'
    BY <1>1, <1>2 DEF PreflightTypeOK
<1>7. QED
    BY <1>5, <1>6

\* The list of servers and the counter keep their types, and joins are given
\* servers in turn, whoever joins, registers or deregisters.
LEMMA PreflightStep ==
  PreflightTypeOK /\ GivenInTurn /\ [Next]_vars => PreflightTypeOK' /\ GivenInTurn'
<1> SUFFICES ASSUME PreflightTypeOK, GivenInTurn, [Next]_vars
             PROVE  PreflightTypeOK' /\ GivenInTurn'
    OBVIOUS
<1>1. ASSUME UNCHANGED preflightVars
      PROVE  PreflightTypeOK' /\ GivenInTurn'
    BY <1>1 DEF preflightVars, PreflightTypeOK, GivenInTurn, Picked
<1>2. ASSUME NEW status, NEW answer \in Server \cup {Refused},
             TryJoinSpace(status, answer)
      PROVE  PreflightTypeOK' /\ GivenInTurn'
  <2>1. CASE UNCHANGED preflightVars
      BY <1>1, <2>1
  <2>2. CASE ~ UNCHANGED preflightVars
    <3>1. /\ servers # <<>> /\ answer = Picked(servers, counter)
          /\ counter' = counter + 1 /\ given' = Append(given, answer)
          /\ UNCHANGED servers
        BY <1>2, <2>2 DEF TryJoinSpace
    <3>2. answer \in Server
      <4>1. (counter % Len(servers)) + 1 \in 1 .. Len(servers)
          BY <3>1 DEF PreflightTypeOK
      <4>2. QED
          BY <3>1, <4>1 DEF Picked, PreflightTypeOK
    <3>3. QED
        BY <3>1, <3>2, GivenNext
  <2>3. QED
      BY <2>1, <2>2
<1>3. ASSUME NEW srv \in Server, RegisterSignalingServer(srv)
      PROVE  PreflightTypeOK' /\ GivenInTurn'
  <2>1. \A i \in 1 .. Len(servers) : servers[i] # srv
      BY <1>3 DEF RegisterSignalingServer, Range, PreflightTypeOK
  <2>2. /\ servers' \in Seq(Server) /\ Len(servers') = Len(servers) + 1
        /\ \A i \in 1 .. Len(servers) : servers'[i] = servers[i]
        /\ servers'[Len(servers) + 1] = srv
      BY <1>3, AppendProperties
      DEF RegisterSignalingServer, OnServerConnected, PreflightTypeOK
  <2>3. IsInjective(servers')
    <3> SUFFICES ASSUME NEW i \in DOMAIN servers', NEW j \in DOMAIN servers',
                        servers'[i] = servers'[j]
                 PROVE  i = j
        BY DEF IsInjective
    <3>1. i \in 1 .. Len(servers) + 1 /\ j \in 1 .. Len(servers) + 1
        BY <2>2
    <3>2. \A x, y \in 1 .. Len(servers) : servers[x] = servers[y] => x = y
        BY DEF IsInjective, PreflightTypeOK
    <3>3. QED
        BY <2>1, <2>2, <3>1, <3>2
  <2>4. given' = <<>> /\ UNCHANGED counter
      BY <1>3 DEF RegisterSignalingServer
  <2>5. QED
      BY <2>2, <2>3, <2>4, GivenAnew DEF PreflightTypeOK
<1>4. ASSUME NEW srv \in Server, DeregisterSignalingServer(srv)
      PROVE  PreflightTypeOK' /\ GivenInTurn'
  <2>1. given' = <<>> /\ UNCHANGED counter
      BY <1>4 DEF DeregisterSignalingServer
  <2>2. servers' \in Seq(Server) /\ IsInjective(servers')
      BY <1>4, RemovedServer
      DEF DeregisterSignalingServer, OnServerDisconnected, PreflightTypeOK
  <2>3. QED
      BY <2>1, <2>2, GivenAnew DEF PreflightTypeOK
<1>5. CASE PreflightNext
    BY <1>2, <1>3, <1>4, <1>5 DEF PreflightNext, OtherJoins
<1>6. CASE \E v \in Visit : FetchesAnswered(v)
    BY <1>2, <1>6 DEF FetchesAnswered
<1>7. CASE \/ \E sp \in Space : CreateSubmit(sp) \/ Navigate(sp)
           \/ CreateAnswered \/ FetchEffect \/ Render
           \/ \E v \in Visit : FetchFailed(v) \/ Settle(v)
    BY <1>1, <1>7 DEF CreateSubmit, Navigate, CreateAnswered, Visited, FetchFailed,
                      Settle, FetchEffect, Render
<1>8. CASE RunEffects \/ Connect \/ Disconnect \/ SpaceInit \/ Click \/ Resumed
             \/ StartItself
    BY <1>1, <1>8 DEF RunEffects, Connect, Disconnect, SpaceInit, Click, Resumed,
                      StartItself
<1>9. CASE \/ FactoryLoaded \/ TransportOffered \/ MediaAnswered \/ TrackEffect
           \/ \E k \in Session : Produced(k) \/ ProduceFailed(k)
    BY <1>1, <1>9 DEF FactoryLoaded, TransportOffered, MediaAnswered, TrackEffect,
                      Produced, ProduceFailed
<1>10. CASE UNCHANGED vars
    BY <1>1, <1>10 DEF vars
<1>11. QED
    BY <1>5, <1>6, <1>7, <1>8, <1>9, <1>10 DEF Next

-----------------------------------------------------------------------------
(***************************************************************************)
(* The types of answers and tracks                                         *)
(***************************************************************************)

\* The answers of the fetches and what the page makes of them keep their types.
LEMMA AnswersStep ==
  PageTypes /\ MadeWhereCleared /\ AnswerTypes /\ PreflightTypeOK /\ [Next]_vars
    => AnswerTypes'
<1> SUFFICES ASSUME PageTypes, MadeWhereCleared, AnswerTypes, PreflightTypeOK,
                    [Next]_vars
             PROVE  AnswerTypes'
    OBVIOUS
<1> USE DEF askVars, stateVars
<1>1. ASSUME UNCHANGED <<answers, queued, overtaken, accessState, effectOf,
                         serverUrl, spaceUuid>>
      PROVE  AnswerTypes'
    BY <1>1 DEF AnswerTypes
<1>2. ASSUME NEW v \in Visit, FetchesAnswered(v)
      PROVE  AnswerTypes'
  <2>1. PICK before \in SpaceStatus, after \in SpaceStatus, srv \in Server \cup {Refused} :
          answers' = [answers EXCEPT ![v] = [read |-> ReadSpace(before), join |-> srv]]
      BY <1>2 DEF FetchesAnswered
  <2>2. [read |-> ReadSpace(before), join |-> srv] \in Answer
      BY DEF SpaceStatus, ReadSpace, Answer
  <2>3. answers' \in [Visit -> Answer \cup {Asked, Failed}]
      BY <2>1, <2>2 DEF AnswerTypes
  <2>4. QED
      BY <1>2, <2>3 DEF FetchesAnswered, AnswerTypes
<1>3. ASSUME NEW v \in Visit, FetchFailed(v)
      PROVE  AnswerTypes'
    BY <1>3 DEF FetchFailed, AnswerTypes
<1>4. ASSUME NEW v \in Visit, Settle(v)
      PROVE  AnswerTypes'
  <2>1. /\ Verdict(v) \in Verdicts
        /\ Verdict(v) = "available" => answers[v].join \in Server
      BY <1>4, VerdictOf DEF Settle
  <2>2. UNCHANGED <<answers, accessState, effectOf, serverUrl, spaceUuid>>
      BY <1>4 DEF Settle
  <2>3. overtaken' \in BOOLEAN
      BY <1>4 DEF Settle, AnswerTypes
  <2>4. queued.url \in Server \cup {None} /\ Verdict(v) \in AccessState
      BY <2>1 DEF AnswerTypes, AccessState
  <2>5. CASE v = effectVisit
    <3>1. queued' = [state |-> Verdict(v),
                     url   |-> IF Verdict(v) = "available" THEN answers[v].join
                                                           ELSE queued.url]
        BY <1>4, <2>5 DEF Settle, TakeVerdict
    <3>2. queued' \in [state : AccessState, url : Server \cup {None}]
        BY <2>1, <2>4, <3>1
    <3>3. QED
        BY <2>2, <2>3, <3>2 DEF AnswerTypes
  <2>6. CASE v # effectVisit
      BY <1>4, <2>2, <2>3, <2>6 DEF Settle, AnswerTypes
  <2>7. QED
      BY <2>5, <2>6
<1>5. CASE RunEffects
    BY <1>5 DEF RunEffects, AnswerTypes
<1>6. CASE (PreflightNext /\ UNCHANGED pageVars) \/ UNCHANGED vars
    BY <1>1, <1>6, QuietStep
<1>7. ASSUME NEW sp \in Space, Visited(sp)
      PROVE  AnswerTypes'
    BY <1>7 DEF Visited, AnswerTypes
<1>8. CASE (\E sp \in Space : CreateSubmit(sp) \/ Navigate(sp)) \/ CreateAnswered
    BY <1>1, <1>7, <1>8 DEF CreateSubmit, Navigate, CreateAnswered, PageTypes
<1>9. CASE Render
  <2>1. queued.state \in AccessState /\ queued.url \in Server \cup {None}
      BY DEF AnswerTypes
  <2>2. queued.url # None => address[visit] \in Space
      BY DEF MadeWhereCleared, PageTypes
  <2>3. QED
      BY <1>9, <2>1, <2>2 DEF Render, AnswerTypes
<1>10. CASE FetchEffect \/ Connect \/ Disconnect \/ SpaceInit \/ Click \/ Resumed
              \/ StartItself
    BY <1>1, <1>10 DEF FetchEffect, Connect, Disconnect, SpaceInit, Click, Resumed,
                       StartItself
<1>11. CASE FactoryLoaded \/ TransportOffered \/ MediaAnswered \/ TrackEffect
    BY <1>1, <1>11 DEF FactoryLoaded, TransportOffered, MediaAnswered, TrackEffect
<1>12. CASE \E k \in Session : Produced(k) \/ ProduceFailed(k)
    BY <1>1, <1>12 DEF Produced, ProduceFailed
<1>13. QED
    BY <1>2, <1>3, <1>4, <1>5, <1>6, <1>8, <1>9, <1>10, <1>11, <1>12 DEF Next

\* The audio context and what waits for it keep their types.
LEMMA ContextTypesStep == ContextTypes /\ [Next]_vars => ContextTypes'
<1> SUFFICES ASSUME ContextTypes, [Next]_vars PROVE ContextTypes'
    OBVIOUS
<1> USE DEF ContextTypes, contextVars
<1>1. CASE (PreflightNext /\ UNCHANGED pageVars) \/ UNCHANGED vars
    BY <1>1, QuietStep
<1>2. CASE \/ \E sp \in Space : CreateSubmit(sp) \/ Navigate(sp)
           \/ CreateAnswered \/ FetchEffect \/ Render
           \/ \E v \in Visit : FetchesAnswered(v) \/ FetchFailed(v) \/ Settle(v)
    BY <1>2 DEF CreateSubmit, Navigate, CreateAnswered, Visited, FetchesAnswered,
                FetchFailed, Settle, FetchEffect, Render
<1>3. CASE RunEffects \/ Connect \/ Disconnect
    BY <1>3 DEF RunEffects, Connect, Disconnect
<1>4. CASE SpaceInit \/ Click \/ Resumed \/ StartItself
    BY <1>4 DEF SpaceInit, Click, Resumed, StartItself
<1>5. CASE FactoryLoaded \/ TransportOffered \/ MediaAnswered \/ TrackEffect
    BY <1>5 DEF FactoryLoaded, TransportOffered, MediaAnswered, TrackEffect
<1>6. CASE \E k \in Session : Produced(k) \/ ProduceFailed(k)
    BY <1>6 DEF Produced, ProduceFailed
<1>7. QED
    BY <1>1, <1>2, <1>3, <1>4, <1>5, <1>6 DEF Next

\* The effect that asks for the microphone runs for a verdict no sooner than
\* its visit is settled, and once.
LEMMA AsksStep ==
  PageTypes /\ AsksFollowVisits /\ [Next]_vars => AsksFollowVisits'
<1> SUFFICES ASSUME PageTypes, AsksFollowVisits, [Next]_vars PROVE AsksFollowVisits'
    OBVIOUS
<1> USE PageAssumption DEF askVars, stateVars, trackVars
<1>1. ASSUME UNCHANGED <<visit, effectVisit, settled, queued, accessState,
                         effectOf, asks, track>>
      PROVE  AsksFollowVisits'
    BY <1>1 DEF AsksFollowVisits, Allowance, Due, Pending
<1>2. ASSUME NEW sp, Visited(sp)
      PROVE  AsksFollowVisits'
    BY <1>2 DEF Visited, PageTypes, AsksFollowVisits, Allowance, Due, Pending
<1>3. CASE FetchEffect
  <2>1. visit \notin settled /\ visit # 0
      BY <1>3 DEF FetchEffect, PageTypes
  <2>2. Allowance <= Allowance' /\ Allowance \in Int /\ Allowance' \in Int
      BY <1>3, <2>1 DEF FetchEffect, Allowance, PageTypes
  <2>3. Due' = Due /\ Pending' = Pending /\ UNCHANGED <<visit, asks, track>>
      BY <1>3 DEF FetchEffect, Due, Pending
  <2>4. Due \in {0, 1} /\ Pending \in {0, 1}
      BY DEF Due, Pending
  <2>5. QED
      BY <2>2, <2>3, <2>4 DEF AsksFollowVisits, PageTypes
<1>4. ASSUME NEW v \in Visit, Settle(v)
      PROVE  AsksFollowVisits'
  <2>1. /\ UNCHANGED <<visit, effectVisit, accessState, effectOf, asks, track>>
        /\ settled' = settled \cup {v}
        /\ Due' = Due
      BY <1>4 DEF Settle, Due
  <2>2. Due \in {0, 1} /\ Pending \in {0, 1} /\ Pending' \in {0, 1}
      BY DEF Due, Pending
  <2>3. CASE v = effectVisit
    <3>1. Allowance = effectVisit - 1 /\ Allowance' = effectVisit
        BY <1>4, <2>1, <2>3 DEF Settle, Allowance, Visit
    <3>2. QED
        BY <2>1, <2>2, <3>1 DEF AsksFollowVisits, PageTypes
  <2>4. CASE v # effectVisit
    <3>1. Pending' = Pending /\ Allowance' = Allowance
        BY <1>4, <2>1, <2>4 DEF Settle, Pending, Allowance
    <3>2. QED
        BY <2>1, <3>1 DEF AsksFollowVisits
  <2>5. QED
      BY <2>3, <2>4
<1>5. CASE Render
  <2>1. Due = 0 /\ Due' = Pending /\ Pending' = 0
      BY <1>5 DEF Render, EffectsDone, Due, Pending
  <2>2. Allowance' = Allowance /\ UNCHANGED <<visit, asks, track>>
      BY <1>5 DEF Render, Allowance
  <2>3. Pending \in {0, 1} /\ Allowance \in Int
      BY DEF Pending, Allowance, PageTypes
  <2>4. QED
      BY <2>1, <2>2, <2>3 DEF AsksFollowVisits, PageTypes
<1>6. CASE RunEffects
  <2>1. Due' = 0 /\ asks' = asks + Due /\ Due \in {0, 1} /\ Pending' = Pending
      BY <1>6 DEF RunEffects, Due, Pending, AsksFollowVisits
  <2>2. Allowance' = Allowance /\ UNCHANGED <<visit, track>>
      BY <1>6 DEF RunEffects, Allowance
  <2>3. Pending \in {0, 1} /\ Allowance \in Int
      BY DEF Pending, Allowance, PageTypes
  <2>4. QED
      BY <2>1, <2>2, <2>3 DEF AsksFollowVisits, PageTypes
<1>7. CASE MediaAnswered
  <2>1. /\ asks \in Nat /\ asks > 0 /\ asks' = asks - 1 /\ track' \in {track, track + 1}
        /\ Due' = Due /\ Pending' = Pending /\ Allowance' = Allowance /\ UNCHANGED visit
      BY <1>7 DEF MediaAnswered, Due, Pending, Allowance, AsksFollowVisits
  <2>2. asks' \in Nat /\ asks' + track' <= asks + track
      BY <2>1 DEF PageTypes
  <2>3. Due \in {0, 1} /\ Pending \in {0, 1} /\ Allowance \in Int
      BY DEF Due, Pending, Allowance, PageTypes
  <2>4. QED
      BY <2>1, <2>2, <2>3 DEF AsksFollowVisits, PageTypes
<1>8. CASE (PreflightNext /\ UNCHANGED pageVars) \/ UNCHANGED vars
    BY <1>1, <1>8, QuietStep
<1>9. CASE (\E sp \in Space : CreateSubmit(sp) \/ Navigate(sp)) \/ CreateAnswered
    BY <1>1, <1>2, <1>9 DEF CreateSubmit, Navigate, CreateAnswered
<1>10. CASE \E v \in Visit : FetchesAnswered(v) \/ FetchFailed(v)
    BY <1>1, <1>10 DEF FetchesAnswered, FetchFailed
<1>11. CASE Connect \/ Disconnect \/ SpaceInit \/ Click \/ Resumed \/ StartItself
    BY <1>1, <1>11 DEF Connect, Disconnect, SpaceInit, Click, Resumed, StartItself
<1>12. CASE FactoryLoaded \/ TransportOffered \/ TrackEffect
    BY <1>1, <1>12 DEF FactoryLoaded, TransportOffered, TrackEffect
<1>13. CASE \E k \in Session : Produced(k) \/ ProduceFailed(k)
    BY <1>1, <1>13 DEF Produced, ProduceFailed
<1>14. QED
    BY <1>3, <1>4, <1>5, <1>6, <1>7, <1>8, <1>9, <1>10, <1>11, <1>12, <1>13 DEF Next

\* What producers send are tracks, since no track is beyond the visits.
LEMMA MediaTypesStep ==
  PageTypes /\ AsksFollowVisits /\ MediaTypes /\ [Next]_vars => MediaTypes'
<1> SUFFICES ASSUME PageTypes, AsksFollowVisits, MediaTypes, [Next]_vars
             PROVE  MediaTypes'
    OBVIOUS
<1> USE PageAssumption DEF trackVars, factoryVars
<1>1. ASSUME UNCHANGED <<producer, sending>>
      PROVE  MediaTypes'
    BY <1>1 DEF MediaTypes
<1>2. track <= MaxVisits
    BY DEF AsksFollowVisits, Due, Pending, Allowance, PageTypes
<1>3. ASSUME NEW offers, CreateProducers(offers), UNCHANGED sending
      PROVE  MediaTypes'
    BY <1>3 DEF CreateProducers, MediaTypes
<1>4. CASE FactoryLoaded \/ TransportOffered
    BY <1>1, <1>3, <1>4 DEF FactoryLoaded, TransportOffered
<1>5. CASE TrackEffect
  <2>1. track \in Track \cup {0}
      BY <1>2 DEF Track, PageTypes
  <2>2. UNCHANGED producer /\ sending' \in {sending, [sending EXCEPT ![transport] = track]}
      BY <1>5 DEF TrackEffect
  <2>3. QED
      BY <2>1, <2>2 DEF MediaTypes
<1>6. ASSUME NEW k \in Session, Produced(k)
      PROVE  MediaTypes'
  <2>1. handlers # {} => Max(handlers) \in Track
    <3>1. effectTrack \in Nat /\ handlers \in SUBSET (0 .. effectTrack)
        BY DEF PageTypes
    <3>2. handlers # {} => Max(handlers) \in handlers
        BY <3>1, GreatestOf
    <3>3. handlers \subseteq Track
        BY <1>2 DEF Track, PageTypes
    <3>4. QED
        BY <3>2, <3>3
  <2>2. sending' \in [Session -> Track \cup {0}]
      BY <1>6, <2>1 DEF Produced, MediaTypes
  <2>3. QED
      BY <1>6, <2>2 DEF Produced, MediaTypes
<1>7. ASSUME NEW k \in Session, ProduceFailed(k)
      PROVE  MediaTypes'
    BY <1>7 DEF ProduceFailed, MediaTypes
<1>8. CASE (PreflightNext /\ UNCHANGED pageVars) \/ UNCHANGED vars
    BY <1>1, <1>8, QuietStep
<1>9. CASE \/ \E sp \in Space : CreateSubmit(sp) \/ Navigate(sp)
           \/ CreateAnswered \/ FetchEffect \/ Render
           \/ \E v \in Visit : FetchesAnswered(v) \/ FetchFailed(v) \/ Settle(v)
    BY <1>1, <1>9 DEF CreateSubmit, Navigate, CreateAnswered, Visited,
                      FetchesAnswered, FetchFailed, Settle, FetchEffect, Render
<1>10. CASE RunEffects \/ Connect \/ Disconnect \/ SpaceInit \/ Click \/ Resumed
              \/ StartItself \/ MediaAnswered
    BY <1>1, <1>10 DEF RunEffects, Connect, Disconnect, SpaceInit, Click, Resumed,
                       StartItself, MediaAnswered
<1>11. QED
    BY <1>4, <1>5, <1>6, <1>7, <1>8, <1>9, <1>10 DEF Next

-----------------------------------------------------------------------------
(***************************************************************************)
(* The theorems                                                            *)
(***************************************************************************)

\* A fresh page satisfies the inductive invariant.
LEMMA PageInitially == Init => PageInv
<1> SUFFICES ASSUME Init PROVE PageInv
    OBVIOUS
<1> USE PageAssumption DEF Init
<1>1. PageTypes
  <2>1. address \in [Visit -> Space \cup {None}]
      OBVIOUS
  <2>2. /\ answers = [v \in Visit |-> answers[v]]
        /\ producer = [k \in Session |-> producer[k]]
        /\ sending = [k \in Session |-> sending[k]]
      OBVIOUS
  <2>3. stopped \in BOOLEAN /\ initReceived \in BOOLEAN
      OBVIOUS
  <2>4. /\ used \in 0 .. MaxConnections /\ transport \in 0 .. used
        /\ track \in Nat /\ effectTrack \in 0 .. track
      OBVIOUS
  <2>5. ~ initReceived /\ link \in {0, used}
      OBVIOUS
  <2>6. /\ created \in Space \cup {None} /\ visit \in Nat
        /\ effectVisit \in 0 .. visit /\ settled \subseteq 1 .. effectVisit
        /\ factory \in {"none", "loading", "ready", "failed"}
        /\ deferred \subseteq 1 .. used /\ handlers \subseteq 1 .. effectTrack
      OBVIOUS
  <2>7. QED
      BY <2>1, <2>2, <2>3, <2>4, <2>5, <2>6 DEF PageTypes
<1>2. SettledStays /\ VerdictIsCurrent
    BY DEF SettledStays, VerdictIsCurrent
<1>3. MadeWhereCleared
    BY DEF MadeWhereCleared
<1>4. WaitingIsResolved /\ FactoryFollowsContext
    BY DEF WaitingIsResolved, FactoryFollowsContext
<1>5. TrackIsAwaited /\ TrackReachesTransport
    BY DEF TrackIsAwaited, TrackReachesTransport, Session, IsReady
<1>6. PreflightTypeOK /\ AnswerTypes /\ ContextTypes /\ MediaTypes
  <2>1. PreflightTypeOK
      BY DEF PreflightInit, PreflightTypeOK, IsInjective
  <2>2. AnswerTypes
      BY DEF AnswerTypes, AccessState
  <2>3. ContextTypes
      BY DEF ContextTypes
  <2>4. MediaTypes
      BY DEF MediaTypes
  <2>5. QED
      BY <2>1, <2>2, <2>3, <2>4
<1>7. AsksFollowVisits
    BY DEF AsksFollowVisits, Due, Pending, Allowance
<1>8. GivenInTurn
    BY DEF PreflightInit, GivenInTurn
<1>9. QED
    BY <1>1, <1>2, <1>3, <1>4, <1>5, <1>6, <1>7, <1>8 DEF PageInv

\* Whatever the page does, in whatever order, keeps the inductive invariant.
THEOREM PageInvariance == Spec => []PageInv
<1>1. PageInv /\ [Next]_vars => PageInv'
    BY TypesStep, VerdictStep, MadeStep, ContextStep, TrackStep, PreflightStep,
       AnswersStep, ContextTypesStep, AsksStep, MediaTypesStep
    DEF PageInv
<1>2. QED
    BY <1>1, PageInitially, PTL DEF Spec

\* What the page shows about its space comes from the fetches for that space,
\* whatever answers to earlier addresses are still on the way.
THEOREM PageVerdict == Spec => []VerdictIsCurrent
BY PageInvariance, PTL DEF PageInv

\* The page never connects to a space that no preflight cleared, unless the
\* address was left while an answer was looked at or waited to be rendered.
THEOREM PageConnects == Spec => []ConnectsWhereCleared
<1>1. PageInv => ConnectsWhereCleared
    BY DEF PageInv, MadeWhereCleared, ClearedFor, ConnectsWhereCleared
<1>2. QED
    BY <1>1, PageInvariance, PTL

\* No order of click, resume and initialization leaves a joined space without
\* a factory, or makes one on a context that does not run.
THEOREM PageFactory == Spec => []FactoryFollowsContext
BY PageInvariance, PTL DEF PageInv

\* The microphone reaches the first transport, whichever is there first, and
\* no handler stays behind at a ready transport.
THEOREM PageMicrophone == Spec => []TrackReachesTransport
BY PageInvariance, PTL DEF PageInv

\* Every variable of the page and of the preflight keeps its type; there is one
\* call for the microphone in a visit at most, so tracks do not outnumber visits.
THEOREM PageTypesHold == Spec => []PageTypeOK
<1>1. PageInv => PageTypeOK
  <2> SUFFICES ASSUME PageInv PROVE PageTypeOK
      OBVIOUS
  <2> USE PageAssumption DEF PageInv
  <2>1. visit \in 0 .. MaxVisits /\ asks \in 0 .. MaxVisits /\ track \in Track \cup {0}
      BY DEF PageTypes, AsksFollowVisits, Due, Pending, Allowance, Track
  <2>2. handlers \subseteq Track
      BY <2>1 DEF PageTypes, Track
  <2>3. stopped => link = 0
      BY DEF MadeWhereCleared
  <2>4. QED
      BY <2>1, <2>2, <2>3
      DEF PageTypes, AnswerTypes, ContextTypes, MediaTypes, PageTypeOK
<1>2. QED
    BY <1>1, PageInvariance, PTL

\* A page that was refused its present space has left the one it was in, and
\* makes no connection to it any more.
THEOREM PageLeaves == Spec => []RefusedIsDisconnected
<1>1. PageInv => RefusedIsDisconnected
  <2> SUFFICES ASSUME PageInv, visit \in settled, Verdict(visit) # "available",
                      ~RenderDue, EffectsDone
               PROVE  link = 0 /\ stopped
      BY DEF RefusedIsDisconnected
  <2>1. effectOf # "available"
      BY DEF PageInv, VerdictIsCurrent, RenderDue, EffectsDone
  <2>2. QED
      BY <2>1 DEF PageInv, MadeWhereCleared
<1>2. QED
    BY <1>1, PageInvariance, PTL

\* However many joins were given a server, and whichever servers came and went,
\* each server in the list has its turn before any is given again.
THEOREM PreflightTurns == Spec => []JoinsTakeTurns
<1>1. PageInv => JoinsTakeTurns
  <2> SUFFICES ASSUME PreflightTypeOK, GivenInTurn,
                      NEW i \in DOMAIN given, NEW j \in DOMAIN given,
                      i < j, j - i < Len(servers)
               PROVE  given[i] # given[j]
      BY DEF PageInv, JoinsTakeTurns
  <2> DEFINE n == Len(servers)
             c == (counter - Len(given)) + (i - 1)
             k == j - i
  <2>1. /\ Len(given) \in Nat /\ counter \in Nat /\ Len(given) <= counter
        /\ i \in 1 .. Len(given) /\ j \in 1 .. Len(given)
      BY DEF PreflightTypeOK, GivenInTurn
  <2>2. n \in Nat \ {0} /\ c \in Nat /\ k \in 1 .. n - 1
      BY <2>1 DEF PreflightTypeOK
  <2>3. given[i] = Picked(servers, c) /\ given[j] = Picked(servers, c + k)
    <3>1. c + k = (counter - Len(given)) + (j - 1)
        BY <2>1
    <3>2. QED
        BY <2>1, <3>1 DEF GivenInTurn
  <2> HIDE DEF c, k
  <2>4. (c + k) % n # c % n
      BY <2>2, RemaindersDiffer
  <2>5. ((c + k) % n) + 1 \in 1 .. n /\ (c % n) + 1 \in 1 .. n
      BY <2>2
  <2>6. \A x, y \in 1 .. n : servers[x] = servers[y] => x = y
      BY DEF PreflightTypeOK, IsInjective
  <2>7. servers[((c + k) % n) + 1] # servers[(c % n) + 1]
    <3> DEFINE x == ((c + k) % n) + 1
               y == (c % n) + 1
    <3>1. x \in 1 .. n /\ y \in 1 .. n /\ x # y
        BY <2>2, <2>4, <2>5
    <3> HIDE DEF x, y
    <3>2. servers[x] # servers[y]
        BY <2>6, <3>1
    <3>3. QED
        BY <3>2 DEF x, y
  <2>8. QED
      BY <2>3, <2>7 DEF Picked
<1>2. QED
    BY <1>1, PageInvariance, PTL

=============================================================================
