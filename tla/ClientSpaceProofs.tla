------------------------- MODULE ClientSpaceProofs -------------------------
(***************************************************************************)
(* Proofs about ClientSpace: the browser's copy of its space, its own id,  *)
(* its transports and its mute state follow the server's, over any number  *)
(* of connections and however many events are on the way.                  *)
(*                                                                         *)
(* Events arrive in order, so all that matters is where they lead.  What   *)
(* is on the way takes the browser from the phase it is in to the          *)
(* server's, and its copy to the room: CopyCatchesUp says that there is a  *)
(* copy for after each event, from the browser's present one to one that   *)
(* is up to date.  Events are added at one end of that chain and handled   *)
(* at the other.                                                           *)
(***************************************************************************)
EXTENDS ClientSpace, TLAPS, WellFoundedInduction

USE ClientAssumption DEF Session, Id, Self

Kind == {"connect", "success", "failed", "init", "join", "leave", "update",
         "params", "disconnect"}

Message ==
  [kind : Kind \ {"init", "disconnect"}, id : Id, muted : BOOLEAN]
  \cup [kind : {"disconnect"}, id : {0}, muted : BOOLEAN]
  \cup [kind : {"init"}, id : Session, view : SUBSET Entry]

\* Types, with the events on the way.
ServerTypes ==
  /\ room \subseteq Id /\ muted \in [Id -> BOOLEAN] /\ fresh \subseteq Id
  /\ offered \subseteq Id
  /\ phase \in {"closed", "opened", "prepared", "registered", "refused"}

WireTypes ==
  /\ used \in 0 .. MaxConnections /\ link \in {0, used}
  /\ down \in Seq(Message)
  /\ up \in Seq(BOOLEAN) /\ buffer \in Seq(BOOLEAN)

ViewTypes ==
  /\ status \in {"disconnected", "connecting", "connected"}
  /\ initReceived \in BOOLEAN /\ selfId \in 0 .. used
  /\ known \subseteq Entry /\ selfMuted \in BOOLEAN

PageTypes ==
  /\ track \in {"none", "granted", "on", "off"}
  /\ shown \in BOOLEAN /\ stopped \in BOOLEAN /\ isReady \in BOOLEAN
  /\ deferred \in Seq([id : Id \cup {Self}, session : Session])
  /\ transports \in [Id \cup {Self} -> 0 .. used]

ClientTypes == ServerTypes /\ WireTypes /\ ViewTypes /\ PageTypes

(***************************************************************************)
(* The wire.  An event leaves its reader in the phase its writer was in.   *)
(***************************************************************************)
After(kind) ==
  CASE kind = "connect"    -> "opened"
    [] kind = "success"    -> "prepared"
    [] kind = "failed"     -> "refused"
    [] kind = "disconnect" -> "closed"
    [] OTHER               -> "registered"

\* The phase a reader is in that an event of a kind is meant for.
Fits(kind, p) ==
  CASE kind = "connect"               -> p = "closed"
    [] kind \in {"success", "failed"} -> p = "opened"
    [] kind = "init"                  -> p = "prepared"
    [] kind = "disconnect"            -> TRUE
    [] OTHER                          -> p = "registered"

\* The phase the browser is in.
Heard ==
  CASE status = "disconnected" -> "closed"
    [] status = "connecting"   -> "opened"
    [] OTHER                   -> IF initReceived THEN "registered" ELSE "prepared"

Before(i) == IF i = 1 THEN Heard ELSE After(down[i - 1].kind)
Reached == IF down = <<>> THEN Heard ELSE After(down[Len(down)].kind)

\* What is on the way leads the browser, event by event, to where the server is.
WireInOrder ==
  /\ Reached = phase
  /\ phase = "closed" <=> link = 0
  /\ \A i \in DOMAIN down :
       /\ Fits(down[i].kind, Before(i))
       /\ down[i].kind = "disconnect" => i = Len(down)
       /\ down[i].kind \in {"connect", "init"} => down[i].id = used

(***************************************************************************)
(* The copy.                                                               *)
(***************************************************************************)

\* Members who were in the space before this connection's.
Earlier == Other \cup {n \in Session : n < used}

\* Nobody is in the room who is yet to be added, and a member that is yet to
\* come is not muted.
RoomInOrder ==
  /\ room \cup fresh \subseteq Earlier \cup {used}
  /\ room \cap fresh = {}
  /\ used \in fresh => phase = "closed"
  /\ used \in room => phase \in {"registered", "closed"}
  /\ \A id \in fresh : ~muted[id]
  /\ \A n \in Session : n > used => ~muted[n]
  /\ phase \in {"opened", "prepared"} => ~muted[used]
  /\ used = 0 => phase = "closed" /\ down = <<>>

\* The state of one member changes.
Updated(view, id, m) ==
  {IF x.id = id THEN [x EXCEPT !.muted = m] ELSE x : x \in view}

\* What an event makes of the members the browser knows.
Effect(view, e) ==
  CASE e.kind = "init"   -> {x \in view : x.id \notin Ids(Others(e))} \cup Others(e)
    [] e.kind = "join"   -> IF e.id \in Ids(view) \cup {used} THEN view
                            ELSE view \cup {[id |-> e.id, muted |-> e.muted]}
    [] e.kind = "leave"  -> {x \in view : x.id # e.id}
    [] e.kind = "update" -> Updated(view, e.id, e.muted)
    [] OTHER             -> view

\* A copy has one entry for a member, and none for one that is yet to come or
\* for the client itself.
Proper(view) ==
  /\ \A x, y \in view : x.id = y.id => x = y
  /\ \A x \in view : x.id \in Earlier \ fresh

\* A copy that everything the server said so far has gone into.
UpToDate(view) ==
  /\ phase = "registered" =>
       /\ \A id \in room \ {link} : [id |-> id, muted |-> muted[id]] \in view
       /\ used = 1 => Ids(view) = room \ {link}
  /\ used = 0 \/ (used = 1 /\ phase \in {"opened", "prepared"}) => view = {}

\* The copies the browser will have after each event on the way: the last is up
\* to date, and an offer meets a copy that has its member.
Replay(copy) ==
  /\ copy[0] = known
  /\ \A i \in 0 .. Len(down) : Proper(copy[i])
  /\ \A i \in DOMAIN down :
       /\ copy[i] = Effect(copy[i - 1], down[i])
       /\ down[i].kind = "params" => down[i].id \in Ids(copy[i - 1]) \cup {used}
  /\ UpToDate(copy[Len(down)])

CopyCatchesUp == \E copy \in [0 .. Len(down) -> SUBSET Entry] : Replay(copy)

(***************************************************************************)
(* The mute button.                                                        *)
(***************************************************************************)

\* The events on the way.
OnWire == {down[i] : i \in DOMAIN down}

\* The first snapshot is not there yet.
Unseen ==
  \/ used = 0
  \/ used = 1 /\ phase \in {"opened", "prepared", "refused"}
  \/ used = 1 /\ \E e \in OnWire : e.kind = "init"

\* The last press is with the server, or the last thing on its way there.
LastIsWritten ==
  IF up = <<>> THEN muted[used] = selfMuted ELSE up[Len(up)] = selfMuted

\* Until then the button is not shown.  On the first connection no press is
\* lost.
PressesArrive ==
  /\ \A e \in OnWire : e.kind = "init" =>
       /\ \E x \in e.view : x.id = used
       /\ \A x \in e.view : x.id = used => ~x.muted
  /\ Unseen => /\ ~shown /\ ~selfMuted /\ track \in {"none", "granted"}
               /\ up = <<>> /\ buffer = <<>>
  /\ used = 1 /\ phase = "registered" => LastIsWritten
  /\ used = 1 /\ initReceived =>
       /\ track = "on" => ~selfMuted
       /\ track = "off" => selfMuted

(***************************************************************************)
(* Offers.                                                                 *)
(***************************************************************************)
Comes(id) == \E e \in OnWire : e.kind = "params" /\ e.id = id

Taken(id) ==
  IF isReady THEN transports[Handler(id).id] = used
             ELSE \E i \in DOMAIN deferred : deferred[i] = Handler(id)

\* Every offer of this connection is on its way or was taken on it; a departure
\* on its way is nobody's who has one.
OffersArrive ==
  /\ offered \subseteq room
  /\ phase \in {"opened", "prepared", "refused"} => offered = {}
  /\ \A e \in OnWire : e.kind = "leave" => e.id \notin room \cup fresh \cup {used}
  /\ phase = "registered" /\ ~Stuck =>
       \A id \in offered : Comes(id) \/ (initReceived /\ Taken(id))
  /\ \A i, j \in DOMAIN deferred : i < j => deferred[i].session <= deferred[j].session
  /\ \A i \in DOMAIN deferred : deferred[i].session <= used

ClientInv ==
  /\ ClientTypes
  /\ WireInOrder
  /\ IdIsCurrent
  /\ selfId \notin Ids(known)
  /\ RoomInOrder
  /\ CopyCatchesUp
  /\ PressesArrive
  /\ OffersArrive

-----------------------------------------------------------------------------
(***************************************************************************)
(* Wires                                                                   *)
(***************************************************************************)

LEMMA Element ==
  ASSUME NEW S, NEW w \in Seq(S), NEW i \in 1 .. Len(w)
  PROVE  w[i] \in S
    OBVIOUS

\* Something is added.
LEMMA Appended ==
  ASSUME NEW S, NEW w \in Seq(S), NEW e \in S
  PROVE  /\ Append(w, e) \in Seq(S) /\ Append(w, e) # <<>>
         /\ Len(w) \in Nat /\ DOMAIN w = 1 .. Len(w)
         /\ Len(Append(w, e)) = Len(w) + 1
         /\ DOMAIN Append(w, e) = 1 .. Len(w) + 1
         /\ Append(w, e)[Len(w) + 1] = e
         /\ \A i \in 1 .. Len(w) : Append(w, e)[i] = w[i]
    OBVIOUS

\* The first thing is taken off.
LEMMA TakenOff ==
  ASSUME NEW S, NEW w \in Seq(S), w # <<>>
  PROVE  /\ Head(w) \in S /\ Tail(w) \in Seq(S)
         /\ Len(w) \in Nat /\ Len(w) > 0 /\ DOMAIN w = 1 .. Len(w)
         /\ w[1] = Head(w) /\ 1 \in DOMAIN w
         /\ Len(Tail(w)) = Len(w) - 1
         /\ DOMAIN Tail(w) = 1 .. Len(w) - 1
         /\ \A i \in 1 .. Len(w) - 1 : Tail(w)[i] = w[i + 1]
    OBVIOUS

\* Only a part arrives, and the end.
LEMMA CutOff ==
  ASSUME NEW S, NEW w \in Seq(S), NEW e \in S, NEW n \in 0 .. Len(w)
  PROVE  LET c == Append(SubSeq(w, 1, n), e) IN
         /\ c \in Seq(S) /\ c # <<>>
         /\ Len(w) \in Nat /\ DOMAIN w = 1 .. Len(w)
         /\ Len(c) = n + 1 /\ DOMAIN c = 1 .. n + 1
         /\ c[n + 1] = e
         /\ \A i \in 1 .. n : c[i] = w[i]
<1> DEFINE s == SubSeq(w, 1, n)
<1>1. s \in Seq(S) /\ Len(s) = n /\ \A i \in 1 .. n : s[i] = w[i]
    OBVIOUS
<1> HIDE DEF s
<1>2. /\ Append(s, e) \in Seq(S) /\ Append(s, e) # <<>>
      /\ Len(Append(s, e)) = n + 1 /\ DOMAIN Append(s, e) = 1 .. n + 1
      /\ Append(s, e)[n + 1] = e
      /\ \A i \in 1 .. n : Append(s, e)[i] = s[i]
    BY <1>1, Appended
<1>3. QED
    BY <1>1, <1>2 DEF s

\* Nothing is on the way, or one thing.
LEMMA Short ==
  ASSUME NEW S, NEW e \in S
  PROVE  /\ <<e>> \in Seq(S) /\ Len(<<e>>) = 1 /\ DOMAIN <<e>> = {1}
         /\ <<e>>[1] = e /\ <<e>> # <<>>
         /\ <<>> \in Seq(S) /\ Len(<<>>) = 0 /\ DOMAIN <<>> = {}
    OBVIOUS

\* A number below a bound that has a property is followed by a last one.
LEMMA LastOf ==
  ASSUME NEW n \in Nat, NEW S \in SUBSET (1 .. n), S # {}
  PROVE  /\ (CHOOSE i \in S : \A j \in S : j <= i) \in S
         /\ \A j \in S : j <= (CHOOSE i \in S : \A k \in S : k <= i)
<1> DEFINE Below == {n - x : x \in S}
<1>1. Below \subseteq Nat /\ Below # {}
    OBVIOUS
<1>2. PICK b \in Below : \A c \in Below : b <= c
  <2>1. PICK b \in Below : \A c \in Below : <<c, b>> \notin OpToRel(<, Nat)
      BY <1>1, WFMin, NatLessThanWellFounded
  <2>2. \A c \in Below : ~ (c < b)
      BY <1>1, <2>1 DEF OpToRel
  <2>3. QED
      BY <1>1, <2>2
<1>3. PICK g \in S : b = n - g
    OBVIOUS
<1>4. \A x \in S : x <= g
  <2> TAKE x \in S
  <2>1. b <= n - x
      BY <1>2
  <2>2. QED
      BY <1>3, <2>1
<1>5. \E i \in S : \A j \in S : j <= i
    BY <1>4
<1>6. QED
    BY <1>5

\* What may be on the way.
LEMMA Events ==
  ASSUME NEW kind \in Kind \ {"init", "disconnect"}, NEW id \in Id, NEW m \in BOOLEAN
  PROVE  /\ Event(kind, id, m) \in Message
         /\ Event(kind, id, m).kind = kind
         /\ Event(kind, id, m).id = id
         /\ Event(kind, id, m).muted = m
    BY DEF Message, Event

LEMMA Farewell ==
  /\ Event("disconnect", 0, FALSE) \in Message
  /\ Event("disconnect", 0, FALSE).kind = "disconnect"
    BY DEF Message, Event

LEMMA Snapshots ==
  ASSUME NEW view \in SUBSET Entry, link \in Session
  PROVE  /\ Room(view) \in Message
         /\ Room(view).kind = "init" /\ Room(view).id = link /\ Room(view).view = view
    BY DEF Message, Room

LEMMA Messages ==
  ASSUME NEW e \in Message
  PROVE  /\ e.kind = "init" => e.id \in Session /\ e.view \subseteq Entry
         /\ e.kind \notin {"init", "disconnect"} => e.id \in Id /\ e.muted \in BOOLEAN
         /\ e.kind \in Kind
    BY DEF Message, Kind

LEMMA Kinds ==
  {"connect", "success", "failed", "join", "leave", "update", "params"}
    = Kind \ {"init", "disconnect"}
    BY DEF Kind

\* What the first event on the way finds.
LEMMA Arrives ==
  ASSUME ClientInv, down # <<>>
  PROVE  /\ Arrived \in Message /\ Arrived = down[1] /\ 1 \in DOMAIN down
         /\ used \in Session
         /\ Fits(Arrived.kind, Heard)
         /\ Arrived.kind \in {"connect", "init"} => Arrived.id = used
<1>1. /\ Arrived \in Message /\ Arrived = down[1] /\ 1 \in DOMAIN down
    BY TakenOff DEF ClientInv, ClientTypes, WireTypes, Arrived
<1>2. used \in Session
    BY DEF ClientInv, ClientTypes, WireTypes, RoomInOrder
<1>3. Fits(Arrived.kind, Heard)
    BY <1>1 DEF ClientInv, WireInOrder, Before
<1>4. QED
    BY <1>1, <1>2, <1>3 DEF ClientInv, WireInOrder

\* The open connection is the latest one.
LEMMA Connected ==
  ASSUME ClientInv
  PROVE  /\ phase # "closed" => link = used /\ used \in Session
         /\ used # 0 => used \in Session
    BY DEF ClientInv, ClientTypes, WireTypes, WireInOrder

-----------------------------------------------------------------------------
(***************************************************************************)
(* Types                                                                   *)
(***************************************************************************)

\* The server's steps keep types.
LEMMA ServerTypesKept ==
  ASSUME ClientInv, Server \/ Connect \/ Break
  PROVE  ClientTypes'
<1> USE Connected
    DEF ClientTypes, ServerTypes, WireTypes, ViewTypes, PageTypes,
        clientVars, viewVars, mediaVars, pageVars
<1>0. ClientTypes /\ RoomInOrder
    BY DEF ClientInv
<1>a. ASSUME NEW e \in Message PROVE Append(down, e) \in Seq(Message)
    BY <1>0, <1>a, Appended
<1>b. ASSUME NEW e \in Message, Broadcast(e) PROVE down' \in Seq(Message)
    BY <1>0, <1>a, <1>b DEF Broadcast
<1>1. CASE SpacePrepared
  <2>0. /\ Event("success", link, FALSE) \in Message
        /\ Event("failed", link, FALSE) \in Message
    <3>1. link \in Id
        BY <1>1 DEF SpacePrepared
    <3>2. QED
        BY <3>1, Events, Kinds
  <2>1. down' \in Seq(Message)
      BY <1>0, <1>1, <1>a, <2>0 DEF SpacePrepared
  <2>2. QED
      BY <1>0, <1>1, <2>1 DEF SpacePrepared
<1>2. CASE MemberPrepared
  <2>1. {[id |-> id, muted |-> muted[id]] : id \in room'} \in SUBSET Entry
      BY <1>0, <1>2 DEF MemberPrepared, Entry
  <2>2. down' \in Seq(Message)
      BY <1>0, <1>2, <1>a, <2>1, Snapshots DEF MemberPrepared
  <2>3. QED
      BY <1>0, <1>2, <2>2 DEF MemberPrepared
<1>3. ASSUME NEW id \in Id, MemberJoins(id) \/ MemberLeaves(id) \/ Offer(id)
      PROVE  ClientTypes'
  <2>0. /\ Event("join", id, muted[id]) \in Message
        /\ Event("leave", id, FALSE) \in Message
        /\ Event("params", id, FALSE) \in Message
    <3>1. id \in Id /\ muted[id] \in BOOLEAN
        BY <1>0
    <3>2. Event("join", id, muted[id]) \in Message
        BY <3>1, Events, Kinds
    <3>3. Event("leave", id, FALSE) \in Message
        BY <3>1, Events, Kinds
    <3>4. Event("params", id, FALSE) \in Message
        BY <3>1, Events, Kinds
    <3>5. QED
        BY <3>2, <3>3, <3>4
  <2>1. down' \in Seq(Message)
      BY <1>0, <1>3, <1>b, <2>0 DEF MemberJoins, MemberLeaves, Offer
  <2>2. room' \subseteq Id /\ fresh' \subseteq Id /\ offered' \subseteq Id
      BY <1>0, <1>3 DEF MemberJoins, MemberLeaves, Offer
  <2>3. /\ UNCHANGED <<muted, phase, link, used, up, buffer, status, stopped,
                       selfId, initReceived, known, selfMuted, track, shown,
                       isReady, deferred, transports>>
      BY <1>3 DEF MemberJoins, MemberLeaves, Offer
  <2>4. QED
      BY <1>0, <2>1, <2>2, <2>3
<1>4. ASSUME NEW o \in Other, OtherToggles(o)
      PROVE  ClientTypes'
  <2>0. Event("update", o, ~muted[o]) \in Message
      BY <1>0, Events, Kinds
  <2>1. down' \in Seq(Message)
      BY <1>0, <1>4, <1>b, <2>0 DEF OtherToggles, UpdateMember
  <2>2. QED
      BY <1>0, <1>4, <2>1 DEF OtherToggles, UpdateMember
<1>5. CASE ServerHears
  <2>1. Head(up) \in BOOLEAN /\ Tail(up) \in Seq(BOOLEAN)
      BY <1>0, <1>5, TakenOff DEF ServerHears
  <2>2. CASE phase = "registered"
    <3>1. UpdateMember(link, Head(up)) /\ up' = Tail(up)
        BY <1>5, <2>2 DEF ServerHears
    <3>2. link \in Id
        BY <2>2
    <3>3. Event("update", link, Head(up)) \in Message
        BY <2>1, <3>2, Events, Kinds
    <3>4. down' \in Seq(Message)
        BY <1>b, <3>1, <3>3 DEF UpdateMember
    <3>5. muted' \in [Id -> BOOLEAN]
        BY <1>0, <2>1, <3>1 DEF UpdateMember
    <3>6. QED
        BY <1>0, <1>5, <2>1, <3>4, <3>5 DEF ServerHears
  <2>3. CASE phase # "registered"
      BY <1>0, <1>5, <2>1, <2>3 DEF ServerHears
  <2>4. QED
      BY <2>2, <2>3
<1>6. CASE Connect
  <2>0. Event("connect", used + 1, FALSE) \in Message
    <3>1. used + 1 \in Id
        BY <1>0, <1>6 DEF Connect
    <3>2. QED
        BY <3>1, Events, Kinds
  <2>1. down' \in Seq(Message)
      BY <1>0, <1>6, <2>0, Short DEF Connect
  <2>2. used' \in 0 .. MaxConnections /\ link' \in {0, used'} /\ used \in 0 .. used'
      BY <1>0, <1>6 DEF Connect
  <2>3. transports' \in [Id \cup {Self} -> 0 .. used'] /\ selfId' \in 0 .. used'
      BY <1>0, <1>6, <2>2 DEF Connect
  <2>4. QED
      BY <1>0, <1>6, <2>1, <2>2, <2>3 DEF Connect
<1>7. CASE Break
  <2>1. down' \in Seq(Message)
    <3>1. PICK n \in 0 .. Len(down) :
            down' = Append(SubSeq(down, 1, n), Event("disconnect", 0, FALSE))
        BY <1>7 DEF Break
    <3>2. QED
        BY <1>0, <3>1, Farewell, CutOff
  <2>2. up' \in Seq(BOOLEAN) /\ fresh' \subseteq Id
      BY <1>0, <1>7 DEF Break
  <2>3. QED
      BY <1>0, <1>7, <2>1, <2>2 DEF Break
<1>8. QED
    BY <1>1, <1>2, <1>3, <1>4, <1>5, <1>6, <1>7 DEF Server

\* So do the browser's.
LEMMA ReceiveTypesKept ==
  ASSUME ClientInv, Receive
  PROVE  ClientTypes'
<1>0. ServerTypes /\ WireTypes /\ ViewTypes /\ PageTypes
    BY DEF ClientInv, ClientTypes
<1>d. down # <<>>
    BY DEF Receive, Takes, HandleConnect, HandleConnectionSuccessful,
       HandleConnectionFailed, HandleDisconnect, HandleSpaceInit, HandleMemberJoin,
       HandleMemberLeave, HandleMemberStateUpdate, HandleTransportParams
<1>m. /\ Tail(down) \in Seq(Message)
      /\ Arrived \in Message /\ used \in Session
      /\ Arrived.kind \in {"connect", "init"} => Arrived.id = used
    BY <1>0, <1>d, TakenOff, Arrives DEF WireTypes
<1>n. /\ Arrived.kind = "init" => Arrived.view \subseteq Entry
      /\ Arrived.kind \notin {"init", "disconnect"}
           => Arrived.id \in Id /\ Arrived.muted \in BOOLEAN
    BY <1>m, Messages
<1>s. ASSUME UNCHANGED serverVars PROVE ServerTypes'
    BY <1>0, <1>s DEF ServerTypes, serverVars
<1>w. ASSUME UNCHANGED <<link, used, up, buffer>>, down' = Tail(down)
      PROVE  WireTypes'
    BY <1>0, <1>m, <1>w DEF WireTypes
<1>v. ASSUME UNCHANGED <<used, status, initReceived, selfId, selfMuted>>,
             known' \subseteq Entry
      PROVE  ViewTypes'
    BY <1>0, <1>v DEF ViewTypes
<1>p. ASSUME UNCHANGED <<used, track, stopped, isReady>>, shown' \in BOOLEAN,
             deferred' \in Seq([id : Id \cup {Self}, session : Session]),
             transports' \in [Id \cup {Self} -> 0 .. used]
      PROVE  PageTypes'
    BY <1>0, <1>p DEF PageTypes
<1>q. ASSUME UNCHANGED <<used, track, stopped, isReady, shown, deferred, transports>>
      PROVE  PageTypes'
    BY <1>0, <1>q DEF PageTypes
<1>t. /\ deferred \in Seq([id : Id \cup {Self}, session : Session])
      /\ transports \in [Id \cup {Self} -> 0 .. used]
      /\ shown \in BOOLEAN /\ initReceived \in BOOLEAN
      /\ known \subseteq Entry
    BY <1>0 DEF PageTypes, ViewTypes
<1>1. CASE HandleConnect
  <2>1. up' \in Seq(BOOLEAN) /\ buffer' \in Seq(BOOLEAN)
      BY <1>0, <1>1 DEF HandleConnect, WireTypes
  <2>2. WireTypes'
      BY <1>0, <1>1, <1>m, <2>1 DEF HandleConnect, Takes, WireTypes
  <2>3. ViewTypes'
      BY <1>0, <1>1 DEF HandleConnect, ViewTypes, viewVars
  <2>4. QED
      BY <1>1, <1>s, <1>q, <2>2, <2>3
         DEF HandleConnect, pageVars, mediaVars, ClientTypes
<1>2. CASE HandleConnectionSuccessful
  <2>1. ViewTypes'
      BY <1>0, <1>2 DEF HandleConnectionSuccessful, ViewTypes, viewVars
  <2>2. QED
      BY <1>2, <1>s, <1>q, <1>w, <2>1
         DEF HandleConnectionSuccessful, Takes, pageVars, mediaVars, ClientTypes
<1>3. CASE HandleDisconnect
  <2>1. ViewTypes'
      BY <1>0, <1>3 DEF HandleDisconnect, ViewTypes
  <2>2. QED
      BY <1>3, <1>s, <1>q, <1>w, <2>1
         DEF HandleDisconnect, Takes, pageVars, mediaVars, ClientTypes
<1>4. CASE HandleSpaceInit
  <2>1. Arrived.kind = "init"
      BY <1>4 DEF HandleSpaceInit, Takes
  <2>2. selfId' \in 0 .. used /\ initReceived' \in BOOLEAN /\ shown' \in BOOLEAN
    <3>1. CASE initReceived
        BY <1>0, <1>4, <1>t, <3>1 DEF HandleSpaceInit, ViewTypes, viewVars
    <3>2. CASE ~initReceived
        BY <1>4, <1>m, <2>1, <3>2 DEF HandleSpaceInit
    <3>3. QED
        BY <3>1, <3>2
  <2>3. known' \subseteq Entry
      BY <1>t, <1>4, <1>n, <2>1 DEF HandleSpaceInit, Others, viewVars
  <2>4. selfMuted' \in BOOLEAN
    <3>1. CASE initReceived
        BY <1>0, <1>4, <3>1 DEF HandleSpaceInit, ViewTypes, viewVars
    <3>2. CASE ~initReceived
      <4>1. PICK e \in Arrived.view : selfMuted' = e.muted
          BY <1>4, <3>2 DEF HandleSpaceInit
      <4>2. QED
          BY <1>n, <2>1, <4>1 DEF Entry
    <3>3. QED
        BY <3>1, <3>2
  <2>5. transports' \in [Id \cup {Self} -> 0 .. used]
    <3>1. CASE initReceived
        BY <1>4, <1>t, <3>1 DEF HandleSpaceInit
    <3>2. CASE ~initReceived
      <4>1. transports' = [id \in Id \cup {Self} |->
                             IF id \in Ids(Others(Arrived)) THEN 0 ELSE transports[id]]
          BY <1>4, <3>2 DEF HandleSpaceInit
      <4>2. QED
          BY <1>m, <1>t, <4>1
    <3>3. QED
        BY <3>1, <3>2
  <2>6. ViewTypes' /\ PageTypes'
      BY <1>0, <1>4, <1>t, <2>2, <2>3, <2>4, <2>5
         DEF HandleSpaceInit, ViewTypes, PageTypes
  <2>7. QED
      BY <1>4, <1>s, <1>w, <2>6 DEF HandleSpaceInit, Takes, ClientTypes
<1>5. CASE HandleMemberJoin
  <2>1. [id |-> Arrived.id, muted |-> Arrived.muted] \in Entry
      BY <1>5, <1>n DEF HandleMemberJoin, Takes, Entry
  <2>2. known' \subseteq Entry /\ shown' \in BOOLEAN
      BY <1>5, <1>t, <2>1 DEF HandleMemberJoin, Notify
  <2>3. QED
      BY <1>5, <1>s, <1>w, <1>v, <1>p, <1>t, <2>2
         DEF HandleMemberJoin, Takes, mediaVars, ClientTypes
<1>6. CASE HandleMemberLeave
  <2>1. known' \subseteq Entry /\ shown' \in BOOLEAN
      BY <1>6, <1>t DEF HandleMemberLeave, Notify
  <2>2. transports' \in [Id \cup {Self} -> 0 .. used]
      BY <1>6, <1>t, <1>m DEF HandleMemberLeave
  <2>3. QED
      BY <1>6, <1>s, <1>w, <1>v, <1>p, <1>t, <2>1, <2>2
         DEF HandleMemberLeave, Takes, ClientTypes
<1>7. CASE HandleMemberStateUpdate
  <2>1. Arrived.muted \in BOOLEAN
      BY <1>7, <1>n DEF HandleMemberStateUpdate, Takes
  <2>2. \A e \in Entry : [e EXCEPT !.muted = Arrived.muted] \in Entry
      BY <2>1 DEF Entry
  <2>3. known' \subseteq Entry /\ shown' \in BOOLEAN
      BY <1>7, <1>t, <2>2 DEF HandleMemberStateUpdate, Notify
  <2>4. QED
      BY <1>7, <1>s, <1>w, <1>v, <1>p, <1>t, <2>3
         DEF HandleMemberStateUpdate, Takes, mediaVars, ClientTypes
<1>8. CASE HandleTransportParams
  <2>1. Arrived.id \in Id
      BY <1>8, <1>n DEF HandleTransportParams, Takes
  <2>2. Handler(Arrived.id) \in [id : Id \cup {Self}, session : Session]
      BY <1>m, <2>1 DEF Handler
  <2>3. /\ deferred' \in Seq([id : Id \cup {Self}, session : Session])
        /\ transports' \in [Id \cup {Self} -> 0 .. used]
        /\ shown' \in BOOLEAN
    <3>1. CASE Arrived.id \notin Ids(known) \cup {selfId}
        BY <1>8, <1>t, <3>1 DEF HandleTransportParams
    <3>2. CASE Arrived.id \in Ids(known) \cup {selfId} /\ isReady
      <4>1. /\ transports' = [transports EXCEPT ![Handler(Arrived.id).id] = used]
            /\ deferred' = deferred /\ shown' = initReceived
          BY <1>8, <3>2 DEF HandleTransportParams, Notify
      <4>2. used \in 0 .. used
          BY <1>m
      <4>3. QED
          BY <1>t, <4>1, <4>2
    <3>3. CASE Arrived.id \in Ids(known) \cup {selfId} /\ ~isReady
      <4>1. /\ deferred' = Append(deferred, Handler(Arrived.id))
            /\ transports' = transports /\ shown' = initReceived
          BY <1>8, <3>3 DEF HandleTransportParams, Notify
      <4>2. QED
          BY <1>t, <2>2, <4>1, Appended
    <3>4. QED
        BY <3>1, <3>2, <3>3
  <2>4. QED
      BY <1>8, <1>s, <1>w, <1>v, <1>p, <1>t, <2>3
         DEF HandleTransportParams, Takes, viewVars, ClientTypes
<1>9. CASE HandleConnectionFailed
  <2>1. WireTypes' /\ ServerTypes'
      BY <1>0, <1>9 DEF HandleConnectionFailed, Cleanup, WireTypes, ServerTypes
  <2>2. ViewTypes' /\ PageTypes'
      BY <1>0, <1>9 DEF HandleConnectionFailed, Cleanup, ViewTypes, PageTypes,
         mediaVars, pageVars
  <2>3. QED
      BY <2>1, <2>2 DEF ClientTypes
<1>10. QED
    BY <1>1, <1>2, <1>3, <1>4, <1>5, <1>6, <1>7, <1>8, <1>9 DEF Receive

\* What becomes of a transport when the handlers up to the n-th have run: the
\* last one for it decides.
LEMMA LastSessionIs ==
  ASSUME ClientInv, NEW n \in 0 .. Len(deferred), NEW id \in Id \cup {Self}
  PROVE  /\ LastSession(id, n) \in 0 .. used
         /\ \A i \in 1 .. n : deferred[i].id = id
              => deferred[i].session <= LastSession(id, n)
<1> DEFINE runs == {i \in 1 .. n : deferred[i].id = id}
           last == CHOOSE i \in runs : \A j \in runs : j <= i
<1>1. /\ \A i \in 1 .. Len(deferred) : /\ deferred[i].session \in Session
                                       /\ deferred[i].session <= used
      /\ n \in Nat /\ n <= Len(deferred) /\ Len(deferred) \in Nat
      /\ DOMAIN deferred = 1 .. Len(deferred)
      /\ transports[id] \in 0 .. used /\ used \in Nat
  <2>1. /\ deferred \in Seq([id : Id \cup {Self}, session : Session])
        /\ transports \in [Id \cup {Self} -> 0 .. used]
        /\ used \in 0 .. MaxConnections
        /\ \A i \in DOMAIN deferred : deferred[i].session <= used
      BY DEF ClientInv, ClientTypes, PageTypes, WireTypes, OffersArrive
  <2>2. Len(deferred) \in Nat /\ DOMAIN deferred = 1 .. Len(deferred)
      BY <2>1
  <2>3. ASSUME NEW i \in 1 .. Len(deferred)
        PROVE  deferred[i].session \in Session
    <3>1. deferred[i] \in [id : Id \cup {Self}, session : Session]
        BY <2>1, Element
    <3>2. QED
        BY <3>1
  <2>4. transports[id] \in 0 .. used /\ used \in Nat
      BY <2>1
  <2>5. n \in Nat /\ n <= Len(deferred)
      BY <2>2
  <2>6. QED
      BY <2>1, <2>2, <2>3, <2>4, <2>5
<1>2. CASE runs = {}
    BY <1>1, <1>2 DEF LastSession
<1>3. CASE runs # {}
  <2>1. runs \in SUBSET (1 .. n)
      OBVIOUS
  <2>2. last \in runs /\ \A j \in runs : j <= last
      BY <1>1, <1>3, <2>1, LastOf
  <2>3. LastSession(id, n) = deferred[last].session
      BY <1>3 DEF LastSession
  <2>4. last \in 1 .. Len(deferred)
      BY <1>1, <2>2
  <2>5. \A i \in 1 .. n : deferred[i].id = id
          => deferred[i].session <= deferred[last].session
    <3> SUFFICES ASSUME NEW i \in 1 .. n, deferred[i].id = id
                 PROVE  deferred[i].session <= deferred[last].session
        OBVIOUS
    <3>1. i \in runs /\ i \in 1 .. Len(deferred)
        BY <1>1
    <3>2. i <= last
        BY <2>2, <3>1
    <3> HIDE DEF last
    <3>3. CASE i = last
        BY <1>1, <2>4, <3>3
    <3>4. CASE i < last
        BY <1>1, <2>4, <3>1, <3>4 DEF ClientInv, OffersArrive
    <3>5. QED
        BY <1>1, <2>4, <3>1, <3>2, <3>3, <3>4
  <2>6. deferred[last].session \in 0 .. used
      BY <1>1, <2>4
  <2>7. QED
      BY <2>3, <2>5, <2>6
<1>4. QED
    BY <1>2, <1>3

\* The page keeps types.
LEMMA PageTypesKept ==
  ASSUME ClientInv, Page
  PROVE  ClientTypes'
<1>0. ServerTypes /\ WireTypes /\ ViewTypes /\ PageTypes
    BY DEF ClientInv, ClientTypes
<1>s. ASSUME UNCHANGED serverVars PROVE ServerTypes'
    BY <1>0, <1>s DEF ServerTypes, serverVars
<1>w. ASSUME UNCHANGED wireVars PROVE WireTypes'
    BY <1>0, <1>w DEF WireTypes, wireVars
<1>v. ASSUME UNCHANGED <<used, status, viewVars>> PROVE ViewTypes'
    BY <1>0, <1>v DEF ViewTypes, viewVars
<1>1. CASE FactoryReady
  <2>1. PICK n \in 0 .. Len(deferred) :
          /\ transports' = [id \in Id \cup {Self} |-> LastSession(id, n)]
          /\ deferred' = IF n = Len(deferred) THEN <<>> ELSE deferred
      BY <1>1 DEF FactoryReady
  <2>2. transports' \in [Id \cup {Self} -> 0 .. used]
      BY <2>1, LastSessionIs
  <2>3. deferred' \in Seq([id : Id \cup {Self}, session : Session])
      BY <1>0, <2>1 DEF PageTypes
  <2>4. PageTypes'
      BY <1>0, <1>1, <2>2, <2>3 DEF FactoryReady, PageTypes, pageVars, wireVars
  <2>5. QED
      BY <1>1, <1>s, <1>w, <1>v, <2>4 DEF FactoryReady, ClientTypes, wireVars
<1>2. CASE GrantMedia
  <2>1. PageTypes'
      BY <1>0, <1>2 DEF GrantMedia, PageTypes, mediaVars, wireVars
  <2>2. QED
      BY <1>2, <1>s, <1>w, <1>v, <2>1 DEF GrantMedia, ClientTypes, wireVars
<1>3. CASE Toggle
  <2>1. PageTypes'
      BY <1>0, <1>3 DEF Toggle, PageTypes, ViewTypes, mediaVars, Notify
  <2>2. ViewTypes'
      BY <1>0, <1>3 DEF Toggle, ViewTypes
  <2>3. up' \in Seq(BOOLEAN) /\ buffer' \in Seq(BOOLEAN)
    <3>1. (~selfMuted) \in BOOLEAN
        OBVIOUS
    <3>2. Append(up, ~selfMuted) \in Seq(BOOLEAN)
          /\ Append(buffer, ~selfMuted) \in Seq(BOOLEAN)
        BY <1>0, <3>1, Appended DEF WireTypes
    <3>3. \/ up' = up /\ buffer' = Append(buffer, ~selfMuted)
          \/ up' = Append(up, ~selfMuted) /\ buffer' = buffer
          \/ up' = up /\ buffer' = buffer
        BY <1>3 DEF Toggle, Emit
    <3>4. QED
        BY <1>0, <3>2, <3>3 DEF WireTypes
  <2>4. WireTypes'
      BY <1>0, <1>3, <2>3 DEF Toggle, WireTypes
  <2>5. QED
      BY <1>3, <1>s, <2>1, <2>2, <2>4 DEF Toggle, ClientTypes
<1>4. CASE LeavePage
  <2>1. WireTypes' /\ ServerTypes'
      BY <1>0, <1>4 DEF LeavePage, Cleanup, WireTypes, ServerTypes
  <2>2. ViewTypes' /\ PageTypes'
      BY <1>0, <1>4 DEF LeavePage, Cleanup, ViewTypes, PageTypes,
         mediaVars, pageVars
  <2>3. QED
      BY <2>1, <2>2 DEF ClientTypes
<1>5. QED
    BY <1>1, <1>2, <1>3, <1>4 DEF Page

-----------------------------------------------------------------------------
(***************************************************************************)
(* The wire                                                                *)
(***************************************************************************)

\* The server says something.
Says(e) ==
  /\ e \in Message /\ Fits(e.kind, phase) /\ e.kind # "disconnect"
  /\ e.kind \in {"connect", "init"} => e.id = used
  /\ phase # "closed" /\ phase' = After(e.kind)
  /\ down' = Append(down, e)
  /\ UNCHANGED <<link, used, status, initReceived>>

\* The browser hears something.
Hears ==
  /\ down # <<>> /\ down' = Tail(down)
  /\ Heard' = After(Arrived.kind)
  /\ UNCHANGED <<phase, link, used>>

\* The connection breaks after the n-th event on the way, or is closed.
Cuts(n) ==
  /\ link # 0 /\ link' = 0 /\ phase' = "closed"
  /\ down' = Append(SubSeq(down, 1, n), Event("disconnect", 0, FALSE))
  /\ UNCHANGED <<used, status, initReceived>>

Closes ==
  /\ link' = 0 /\ phase' = "closed" /\ down' = <<>> /\ UNCHANGED used
  /\ status' = "disconnected" /\ ~initReceived'

Opens ==
  /\ link = 0 /\ down = <<>> /\ used' = used + 1 /\ link' = used + 1
  /\ phase' = "opened" /\ down' = <<Event("connect", used + 1, FALSE)>>
  /\ UNCHANGED <<status, initReceived>>

Silence == UNCHANGED <<down, phase, link, used, status, initReceived>>

\* What the server says fits what it said before.
LEMMA SaidInOrder ==
  ASSUME ClientInv, NEW e, Says(e)
  PROVE  WireInOrder'
<1> USE DEF Says
<1>0. WireInOrder /\ down \in Seq(Message)
    BY DEF ClientInv, ClientTypes, WireTypes
<1>1. /\ down' # <<>> /\ Len(down) \in Nat /\ DOMAIN down = 1 .. Len(down)
      /\ Len(down') = Len(down) + 1 /\ DOMAIN down' = 1 .. Len(down) + 1
      /\ down'[Len(down) + 1] = e
      /\ \A i \in 1 .. Len(down) : down'[i] = down[i]
    BY <1>0, Appended
<1>2. Heard' = Heard
    BY DEF Heard
<1>s. /\ Fits(e.kind, phase) /\ e.kind # "disconnect"
      /\ e.kind \in {"connect", "init"} => e.id = used
      /\ phase # "closed" /\ phase' = After(e.kind)
      /\ UNCHANGED <<link, used>>
    OBVIOUS
<1> HIDE DEF Says
<1>3. Reached' = phase'
    BY <1>1, <1>s DEF Reached
<1>4. \A i \in 1 .. Len(down) : Before(i)' = Before(i)
    BY <1>1, <1>2 DEF Before
<1>n. PICK n \in Nat : n = Len(down)
    BY <1>1
<1>5. Before(n + 1)' = phase
  <2>1. CASE n = 0
    <3>1. down = <<>>
      <4>1. down # <<>> => Len(down) > 0
          BY <1>0, TakenOff
      <4>2. QED
          BY <1>n, <2>1, <4>1
    <3>2. Heard = phase
        BY <1>0, <3>1 DEF WireInOrder, Reached
    <3>3. Before(1)' = phase
        BY <1>2, <3>2 DEF Before
    <3>4. n + 1 = 1
        BY <2>1
    <3>5. QED
        BY <1>n, <3>3, <3>4
  <2>2. CASE n # 0
    <3>1. down # <<>>
        BY <1>n, <2>2
    <3>2. After(down[n].kind) = phase
        BY <1>0, <1>n, <3>1 DEF WireInOrder, Reached
    <3>3. down'[n] = down[n]
        BY <1>1, <1>n, <2>2
    <3>4. n + 1 # 1 /\ n + 1 - 1 = n
        BY <2>2
    <3>5. Before(n + 1)' = After(down'[n].kind)
        BY <3>4 DEF Before
    <3>6. QED
        BY <1>n, <3>2, <3>3, <3>5
  <2>3. QED
      BY <2>1, <2>2
<1>6. ASSUME NEW i \in DOMAIN down'
      PROVE  /\ Fits(down'[i].kind, Before(i)')
             /\ down'[i].kind = "disconnect" => i = Len(down')
             /\ down'[i].kind \in {"connect", "init"} => down'[i].id = used'
  <2>1. CASE i = Len(down) + 1
    <3>0. i = n + 1
        BY <1>n, <2>1
    <3>1. down'[i] = e /\ Before(i)' = phase /\ Len(down') = i /\ used' = used
        BY <1>1, <1>5, <1>n, <1>s, <3>0
    <3>2. QED
        BY <1>s, <3>1
  <2>2. CASE i \in 1 .. Len(down)
    <3>1. down[i].kind # "disconnect"
      <4> SUFFICES ASSUME down[i].kind = "disconnect" PROVE FALSE
          OBVIOUS
      <4>1. i = Len(down) /\ down # <<>>
          BY <1>0, <1>1, <2>2 DEF WireInOrder
      <4>2. phase = "closed"
          BY <1>0, <4>1 DEF WireInOrder, Reached, After
      <4>3. QED
          BY <1>s, <4>2
    <3>2. QED
        BY <1>0, <1>1, <1>4, <1>s, <2>2, <3>1 DEF WireInOrder
  <2>3. QED
      BY <1>1, <2>1, <2>2
<1>7. phase' # "closed" /\ link # 0
    BY <1>0, <1>s DEF WireInOrder, After
<1>8. QED
    BY <1>s, <1>3, <1>6, <1>7 DEF WireInOrder

\* What the browser hears brings it where the next event expects it.
LEMMA HeardInOrder ==
  ASSUME ClientInv, Hears
  PROVE  WireInOrder'
<1> USE DEF Hears
<1>0. WireInOrder /\ down \in Seq(Message)
    BY DEF ClientInv, ClientTypes, WireTypes
<1>1. /\ Len(down) \in Nat /\ Len(down) > 0 /\ DOMAIN down = 1 .. Len(down)
      /\ down[1] = Arrived
      /\ Len(down') = Len(down) - 1 /\ DOMAIN down' = 1 .. Len(down) - 1
      /\ \A i \in 1 .. Len(down) - 1 : down'[i] = down[i + 1]
      /\ down' \in Seq(Message)
    BY <1>0, TakenOff DEF Arrived
<1>h. down # <<>> /\ Heard' = After(Arrived.kind) /\ UNCHANGED <<phase, link, used>>
    OBVIOUS
<1> HIDE DEF Hears
<1>2. \A i \in 1 .. Len(down) - 1 : Before(i)' = Before(i + 1)
  <2> SUFFICES ASSUME NEW i \in 1 .. Len(down) - 1 PROVE Before(i)' = Before(i + 1)
      OBVIOUS
  <2>1. Before(i + 1) = After(down[i].kind)
      BY <1>1 DEF Before
  <2>2. CASE i = 1
      BY <1>1, <1>h, <2>1, <2>2 DEF Before
  <2>3. CASE i # 1
    <3>1. down'[i - 1] = down[i]
        BY <1>1, <2>3
    <3>2. QED
        BY <2>1, <2>3, <3>1 DEF Before
  <2>4. QED
      BY <2>2, <2>3
<1>3. Reached' = Reached
  <2>1. Reached = After(down[Len(down)].kind)
      BY <1>h DEF Reached
  <2>2. CASE Len(down) = 1
    <3>1. down' = <<>>
        BY <1>1, <2>2
    <3>2. QED
        BY <1>1, <1>h, <2>1, <2>2, <3>1 DEF Reached
  <2>3. CASE Len(down) # 1
    <3>1. Len(down') \in 1 .. Len(down) - 1 /\ Len(down') + 1 = Len(down)
        BY <1>1, <2>3
    <3>2. down'[Len(down')] = down[Len(down)]
        BY <1>1, <3>1
    <3>3. down' # <<>>
        BY <3>1
    <3>4. QED
        BY <2>1, <3>2, <3>3 DEF Reached
  <2>4. QED
      BY <2>2, <2>3
<1>4. ASSUME NEW i \in DOMAIN down'
      PROVE  /\ Fits(down'[i].kind, Before(i)')
             /\ down'[i].kind = "disconnect" => i = Len(down')
             /\ down'[i].kind \in {"connect", "init"} => down'[i].id = used'
  <2>1. /\ i \in 1 .. Len(down) - 1 /\ i + 1 \in DOMAIN down
        /\ down'[i] = down[i + 1] /\ Before(i)' = Before(i + 1)
      BY <1>1, <1>2
  <2>2. /\ Fits(down[i + 1].kind, Before(i + 1))
        /\ down[i + 1].kind = "disconnect" => i + 1 = Len(down)
        /\ down[i + 1].kind \in {"connect", "init"} => down[i + 1].id = used
      BY <1>0, <2>1 DEF WireInOrder
  <2>3. QED
      BY <1>1, <1>h, <2>1, <2>2
<1>5. QED
    BY <1>0, <1>h, <1>3, <1>4 DEF WireInOrder

\* A connection that breaks or ends is the last thing heard of it.
LEMMA CutInOrder ==
  ASSUME ClientInv, NEW n \in 0 .. Len(down), Cuts(n)
  PROVE  WireInOrder'
<1> DEFINE e == Event("disconnect", 0, FALSE)
<1>0. WireInOrder /\ down \in Seq(Message)
    BY DEF ClientInv, ClientTypes, WireTypes
<1>e. e \in Message /\ e.kind = "disconnect"
    BY Farewell
<1>c. down' = Append(SubSeq(down, 1, n), e)
    BY DEF Cuts
<1> HIDE DEF e
<1>1. /\ down' # <<>> /\ DOMAIN down = 1 .. Len(down) /\ Len(down) \in Nat
      /\ Len(down') = n + 1 /\ DOMAIN down' = 1 .. n + 1
      /\ down'[n + 1] = e
      /\ \A i \in 1 .. n : down'[i] = down[i]
  <2> DEFINE c == Append(SubSeq(down, 1, n), e)
  <2>1. /\ c # <<>> /\ DOMAIN down = 1 .. Len(down) /\ Len(down) \in Nat
        /\ Len(c) = n + 1 /\ DOMAIN c = 1 .. n + 1
        /\ c[n + 1] = e
        /\ \A i \in 1 .. n : c[i] = down[i]
      BY <1>0, <1>e, CutOff
  <2>2. QED
      BY <1>c, <2>1, Zenon
<1>2. /\ Heard' = Heard /\ phase' = "closed" /\ link' = 0 /\ link # 0
      /\ UNCHANGED used
    BY DEF Cuts, Heard
<1>3. Reached' = "closed"
    BY <1>1, <1>e DEF Reached, After
<1>4. ASSUME NEW i \in 1 .. n PROVE Before(i)' = Before(i)
  <2>1. i # 1 => down'[i - 1] = down[i - 1]
      BY <1>1
  <2>2. QED
      BY <1>2, <2>1 DEF Before
<1>5. ASSUME NEW i \in DOMAIN down'
      PROVE  /\ Fits(down'[i].kind, Before(i)')
             /\ down'[i].kind = "disconnect" => i = Len(down')
             /\ down'[i].kind \in {"connect", "init"} => down'[i].id = used'
  <2>1. CASE i = n + 1
      BY <1>1, <1>e, <2>1 DEF Fits
  <2>2. CASE i \in 1 .. n
    <3>1. down[i].kind # "disconnect"
      <4> SUFFICES ASSUME down[i].kind = "disconnect" PROVE FALSE
          OBVIOUS
      <4>1. i = Len(down) /\ down # <<>>
          BY <1>0, <1>1, <2>2 DEF WireInOrder
      <4>2. phase = "closed"
          BY <1>0, <4>1 DEF WireInOrder, Reached, After
      <4>3. QED
          BY <1>0, <1>2, <4>2 DEF WireInOrder
    <3>2. i \in DOMAIN down /\ down'[i] = down[i]
        BY <1>1, <2>2
    <3>3. QED
        BY <1>0, <1>2, <1>4, <2>2, <3>1, <3>2 DEF WireInOrder
  <2>3. QED
      BY <1>1, <2>1, <2>2
<1>6. QED
    BY <1>2, <1>3, <1>5 DEF WireInOrder

\* A new connection, a page that is left, and steps that say nothing.
LEMMA OthersInOrder ==
  ASSUME ClientInv, Opens \/ Closes \/ Silence
  PROVE  WireInOrder'
<1>0. WireInOrder /\ used \in Nat /\ IdIsCurrent
    BY DEF ClientInv, ClientTypes, WireTypes
<1>1. CASE Opens
  <2> DEFINE e == Event("connect", used + 1, FALSE)
  <2>1. e.kind = "connect" /\ e.id = used'
      BY <1>1 DEF Opens, Event
  <2>2. down' = <<e>> /\ phase' = "opened" /\ link' # 0 /\ Heard' = Heard
      BY <1>0, <1>1 DEF Opens, Heard
  <2> HIDE DEF e
  <2>3. DOMAIN down' = {1} /\ down' # <<>> /\ Len(down') = 1 /\ down'[1] = e
      BY <2>2
  <2>4. Heard = "closed"
      BY <1>0, <1>1 DEF Opens, WireInOrder, Reached
  <2>5. Before(1)' = "closed"
      BY <2>2, <2>4 DEF Before
  <2>6. Reached' = "opened"
      BY <2>1, <2>3 DEF Reached, After
  <2>7. QED
      BY <2>1, <2>2, <2>3, <2>5, <2>6 DEF WireInOrder, Fits
<1>2. CASE Closes
  <2>1. Heard' = "closed" /\ down' = <<>> /\ DOMAIN down' = {}
      BY <1>2 DEF Closes, Heard
  <2>2. QED
      BY <1>2, <2>1 DEF Closes, WireInOrder, Reached
<1>3. CASE Silence
  <2>1. Heard' = Heard /\ Reached' = Reached /\ \A i : Before(i)' = Before(i)
      BY <1>3 DEF Silence, Heard, Reached, Before
  <2>2. QED
      BY <1>0, <1>3, <2>1 DEF Silence, WireInOrder
<1>4. QED
    BY <1>1, <1>2, <1>3

\* What the server says while the client is in the space.
LEMMA Announced ==
  ASSUME ClientInv, NEW e \in Message,
         e.kind \in {"join", "leave", "update", "params"}, Broadcast(e),
         UNCHANGED <<phase, link, used, status, initReceived>>
  PROVE  IF phase = "registered" THEN Says(e) ELSE Silence
    BY DEF Broadcast, Says, Silence, Fits, After

\* The server's steps say one thing or nothing.
LEMMA ServerSays ==
  ASSUME ClientInv, Server
  PROVE  Silence \/ \E e : Says(e)
<1> USE DEF clientVars, viewVars
<1>0. ServerTypes /\ WireTypes
    BY DEF ClientInv, ClientTypes
<1>1. CASE SpacePrepared
  <2>1. /\ phase = "opened" /\ link \in Id
        /\ UNCHANGED <<link, used, status, initReceived>>
      BY <1>1, Connected DEF SpacePrepared
  <2>2. /\ Event("success", link, FALSE) \in Message
        /\ Event("success", link, FALSE).kind = "success"
      BY <2>1, Events, Kinds
  <2>3. /\ Event("failed", link, FALSE) \in Message
        /\ Event("failed", link, FALSE).kind = "failed"
      BY <2>1, Events, Kinds
  <2>4. \/ phase' = "prepared" /\ down' = Append(down, Event("success", link, FALSE))
        \/ phase' = "refused" /\ down' = Append(down, Event("failed", link, FALSE))
      BY <1>1 DEF SpacePrepared
  <2>5. CASE phase' = "prepared" /\ down' = Append(down, Event("success", link, FALSE))
    <3>1. Says(Event("success", link, FALSE))
        BY <2>1, <2>2, <2>5 DEF Says, Fits, After
    <3>2. QED
        BY <3>1
  <2>6. CASE phase' = "refused" /\ down' = Append(down, Event("failed", link, FALSE))
    <3>1. Says(Event("failed", link, FALSE))
        BY <2>1, <2>3, <2>6 DEF Says, Fits, After
    <3>2. QED
        BY <3>1
  <2>7. QED
      BY <2>4, <2>5, <2>6
<1>2. CASE MemberPrepared
  <2> DEFINE view == {[id |-> id, muted |-> muted[id]] : id \in room'}
  <2>1. /\ phase = "prepared" /\ phase' = "registered" /\ link = used /\ link \in Session
        /\ UNCHANGED <<link, used, status, initReceived>>
        /\ down' = Append(down, Room(view))
      BY <1>2, Connected DEF MemberPrepared
  <2>2. view \in SUBSET Entry
      BY <1>0, <1>2, <2>1 DEF MemberPrepared, ServerTypes, Entry
  <2> HIDE DEF view
  <2>3. Room(view) \in Message /\ Room(view).kind = "init" /\ Room(view).id = used
      BY <2>1, <2>2, Snapshots
  <2>4. Says(Room(view))
      BY <2>1, <2>3 DEF Says, Fits, After
  <2>5. QED
      BY <2>4
<1>3. ASSUME NEW id \in Id, MemberJoins(id) \/ MemberLeaves(id) \/ Offer(id)
      PROVE  Silence \/ \E e : Says(e)
  <2>1. UNCHANGED <<phase, link, used, status, initReceived>>
      BY <1>3 DEF MemberJoins, MemberLeaves, Offer
  <2>2. PICK kind \in {"join", "leave", "params"}, m \in BOOLEAN :
          Broadcast(Event(kind, id, m))
      BY <1>0, <1>3 DEF MemberJoins, MemberLeaves, Offer, ServerTypes
  <2>3. /\ Event(kind, id, m) \in Message
        /\ Event(kind, id, m).kind = kind
      BY <2>2, Events, Kinds
  <2>4. QED
      BY <2>1, <2>2, <2>3, Announced
<1>4. ASSUME NEW id \in Id, NEW m \in BOOLEAN, UpdateMember(id, m),
             UNCHANGED <<phase, link, used, status, initReceived>>
      PROVE  Silence \/ \E e : Says(e)
  <2>1. /\ Event("update", id, m) \in Message
        /\ Event("update", id, m).kind = "update"
      BY Events, Kinds
  <2>2. QED
      BY <1>4, <2>1, Announced DEF UpdateMember
<1>5. ASSUME NEW o \in Other, OtherToggles(o)
      PROVE  Silence \/ \E e : Says(e)
  <2>1. (~muted[o]) \in BOOLEAN /\ o \in Id
      OBVIOUS
  <2>2. /\ UpdateMember(o, ~muted[o])
        /\ UNCHANGED <<phase, link, used, status, initReceived>>
      BY <1>5 DEF OtherToggles
  <2>3. QED
      BY <1>4, <2>1, <2>2
<1>6. CASE ServerHears
  <2>1. Head(up) \in BOOLEAN
      BY <1>0, <1>6, TakenOff DEF ServerHears, WireTypes
  <2>2. UNCHANGED <<phase, link, used, status, initReceived>>
      BY <1>6 DEF ServerHears
  <2>3. CASE phase = "registered"
      BY <1>4, <1>6, <2>1, <2>2, <2>3, Connected DEF ServerHears
  <2>4. CASE phase # "registered"
      BY <1>6, <2>2, <2>4 DEF ServerHears, Silence
  <2>5. QED
      BY <2>3, <2>4
<1>7. QED
    BY <1>1, <1>2, <1>3, <1>5, <1>6 DEF Server

\* A broken connection cuts off what is on the way.
LEMMA BreakCuts ==
  ASSUME ClientInv, Break
  PROVE  \E n \in 0 .. Len(down) : Cuts(n)
    BY DEF Break, Cuts, clientVars, viewVars

\* The browser's handlers bring it on by what they hear, or close.
LEMMA ReceiveHears ==
  ASSUME ClientInv, Receive
  PROVE  /\ Hears \/ Closes
         /\ IdIsCurrent'
<1>0. WireTypes /\ ViewTypes /\ WireInOrder /\ IdIsCurrent
    BY DEF ClientInv, ClientTypes
<1>a. ASSUME down # <<>>
      PROVE  /\ Fits(Arrived.kind, Heard)
             /\ Arrived.kind \in {"connect", "init"} => Arrived.id = used
    BY <1>a, Arrives
<1> USE DEF Takes, serverVars
<1>1. CASE HandleConnect
  <2>1. /\ down # <<>> /\ Arrived.kind = "connect"
        /\ status' = "connecting" /\ UNCHANGED <<initReceived, selfId, used>>
      BY <1>1 DEF HandleConnect, viewVars
  <2>2. status = "disconnected"
      BY <1>0, <1>a, <2>1 DEF Fits, Heard, ViewTypes
  <2>3. QED
      BY <1>0, <1>1, <2>1, <2>2
         DEF HandleConnect, Hears, Heard, After, IdIsCurrent
<1>2. CASE HandleConnectionSuccessful
  <2>1. /\ down # <<>> /\ Arrived.kind = "success"
        /\ status' = "connected" /\ UNCHANGED <<initReceived, selfId, used>>
      BY <1>2 DEF HandleConnectionSuccessful, viewVars
  <2>2. status = "connecting"
      BY <1>0, <1>a, <2>1 DEF Fits, Heard, ViewTypes
  <2>3. QED
      BY <1>0, <1>2, <2>1, <2>2
         DEF HandleConnectionSuccessful, Hears, Heard, After, IdIsCurrent
<1>3. CASE HandleDisconnect
    BY <1>3 DEF HandleDisconnect, Hears, Heard, After, IdIsCurrent
<1>4. CASE HandleConnectionFailed
    BY <1>4 DEF HandleConnectionFailed, Cleanup, Closes, IdIsCurrent
<1>5. CASE HandleSpaceInit
  <2>1. /\ down # <<>> /\ Arrived.kind = "init"
        /\ UNCHANGED <<status, used>>
      BY <1>5 DEF HandleSpaceInit
  <2>2. status = "connected" /\ ~initReceived
      BY <1>0, <1>a, <2>1 DEF Fits, Heard, ViewTypes
  <2>3. initReceived' = TRUE /\ selfId' = used
      BY <1>5, <1>a, <2>1, <2>2 DEF HandleSpaceInit
  <2>4. QED
      BY <1>5, <2>1, <2>2, <2>3 DEF HandleSpaceInit, Hears, Heard, After, IdIsCurrent
<1>6. CASE \/ HandleMemberJoin \/ HandleMemberLeave
           \/ HandleMemberStateUpdate \/ HandleTransportParams
  <2>1. /\ down # <<>> /\ down' = Tail(down)
        /\ Arrived.kind \in {"join", "leave", "update", "params"}
        /\ UNCHANGED <<status, used, initReceived, selfId, phase, link>>
      BY <1>6 DEF HandleMemberJoin, HandleMemberLeave, HandleMemberStateUpdate,
         HandleTransportParams, viewVars
  <2>2. Heard = "registered"
      BY <1>a, <2>1 DEF Fits
  <2>3. QED
      BY <1>0, <2>1, <2>2 DEF Hears, Heard, After, IdIsCurrent
<1>7. QED
    BY <1>1, <1>2, <1>3, <1>4, <1>5, <1>6 DEF Receive

\* A page that is left closes, otherwise it does not touch the wire.
LEMMA PageSays ==
  ASSUME ClientInv, Page
  PROVE  /\ Silence \/ Closes
         /\ IdIsCurrent'
    BY DEF Page, FactoryReady, GrantMedia, Toggle, LeavePage, Cleanup, Silence,
       Closes, serverVars, wireVars, viewVars, ClientInv, IdIsCurrent

\* The order of events is kept, and the client knows its id.
LEMMA WireStep ==
  ASSUME ClientInv, [Next]_vars
  PROVE  WireInOrder' /\ IdIsCurrent'
<1>1. CASE Server
  <2>1. IdIsCurrent'
    <3>1. UNCHANGED <<initReceived, selfId, used, status>>
        BY <1>1 DEF Server, SpacePrepared, MemberPrepared, MemberJoins, MemberLeaves,
           OtherToggles, ServerHears, Offer, clientVars, viewVars
    <3>2. QED
        BY <3>1 DEF ClientInv, IdIsCurrent
  <2>2. QED
      BY <1>1, <2>1, ServerSays, SaidInOrder, OthersInOrder
<1>2. CASE Connect
  <2>1. Opens
      BY <1>2 DEF Connect, Opens, clientVars, viewVars
  <2>2. status = "disconnected"
      BY <2>1 DEF Opens, ClientInv, ClientTypes, ViewTypes, WireInOrder, Reached, Heard
  <2>3. IdIsCurrent'
      BY <1>2, <2>2 DEF Connect, clientVars, viewVars, ClientInv, IdIsCurrent
  <2>4. QED
      BY <2>1, <2>3, OthersInOrder
<1>3. CASE Break
  <2>1. IdIsCurrent'
      BY <1>3 DEF Break, clientVars, viewVars, ClientInv, IdIsCurrent
  <2>2. QED
      BY <1>3, <2>1, BreakCuts, CutInOrder
<1>4. CASE Receive
    BY <1>4, ReceiveHears, HeardInOrder, OthersInOrder
<1>5. CASE Page
    BY <1>5, PageSays, OthersInOrder
<1>6. CASE UNCHANGED vars
  <2>1. Silence /\ UNCHANGED selfId
      BY <1>6 DEF vars, serverVars, wireVars, clientVars, viewVars, Silence
  <2>2. IdIsCurrent'
      BY <2>1 DEF Silence, ClientInv, IdIsCurrent
  <2>3. QED
      BY <2>1, <2>2, OthersInOrder
<1>7. QED
    BY <1>1, <1>2, <1>3, <1>4, <1>5, <1>6 DEF Next

-----------------------------------------------------------------------------
(***************************************************************************)
(* The browser's own id and the room                                       *)
(***************************************************************************)

\* Whom the browser knows came before its present connection.
LEMMA KnownAreEarlier ==
  ASSUME ClientInv
  PROVE  /\ Ids(known) \subseteq Earlier \ fresh
         /\ used \notin Earlier
         /\ \A x, y \in known : x.id = y.id => x = y
<1>1. PICK copy \in [0 .. Len(down) -> SUBSET Entry] : Replay(copy)
    BY DEF ClientInv, CopyCatchesUp
<1>2. Len(down) \in Nat
    BY DEF ClientInv, ClientTypes, WireTypes
<1>3. Proper(known)
    BY <1>1, <1>2 DEF Replay
<1>4. used \notin Earlier
    BY DEF ClientInv, ClientTypes, WireTypes, Earlier
<1>5. QED
    BY <1>3, <1>4 DEF Proper, Ids

\* A change of state changes nobody's id.
LEMMA UpdatedIds ==
  ASSUME NEW view \in SUBSET Entry, NEW id, NEW m \in BOOLEAN
  PROVE  /\ Updated(view, id, m) \in SUBSET Entry
         /\ Ids(Updated(view, id, m)) = Ids(view)
         /\ (\A x, y \in view : x.id = y.id => x = y)
              => \A x, y \in Updated(view, id, m) : x.id = y.id => x = y
<1> DEFINE Change(x) == IF x.id = id THEN [x EXCEPT !.muted = m] ELSE x
<1>1. \A x \in Entry : Change(x) \in Entry /\ Change(x).id = x.id
    BY DEF Entry
<1>2. Updated(view, id, m) = {Change(x) : x \in view}
    BY DEF Updated
<1> HIDE DEF Change
<1>3. QED
    BY <1>1, <1>2 DEF Ids

\* The client is not among the others it knows.
LEMMA SelfStep ==
  ASSUME ClientInv, [Next]_vars
  PROVE  (selfId \notin Ids(known))'
<1>0. selfId \notin Ids(known) /\ known \subseteq Entry
    BY DEF ClientInv, ClientTypes, ViewTypes
<1>1. CASE UNCHANGED <<selfId, known>>
    BY <1>0, <1>1
<1>2. CASE HandleSpaceInit
  <2>1. CASE initReceived
      BY <1>1, <1>2, <2>1 DEF HandleSpaceInit, viewVars
  <2>2. CASE ~initReceived
    <3>1. down # <<>> /\ Arrived.kind = "init" /\ selfId' = Arrived.id
          /\ known' = {e \in known : e.id \notin Ids(Others(Arrived))} \cup Others(Arrived)
        BY <1>2, <2>2 DEF HandleSpaceInit, Takes
    <3>2. Arrived.id = used /\ used \notin Ids(known)
        BY <3>1, Arrives, KnownAreEarlier
    <3>3. QED
        BY <3>1, <3>2 DEF Ids, Others
  <2>3. QED
      BY <2>1, <2>2
<1>3. CASE HandleMemberJoin
    BY <1>0, <1>3 DEF HandleMemberJoin, Ids
<1>4. CASE HandleMemberLeave
    BY <1>0, <1>4 DEF HandleMemberLeave, Ids
<1>5. CASE HandleMemberStateUpdate
  <2>1. Arrived.muted \in BOOLEAN /\ UNCHANGED selfId
      BY <1>5, Arrives, Messages DEF HandleMemberStateUpdate, Takes
  <2>2. known' = Updated(known, Arrived.id, Arrived.muted)
      BY <1>5 DEF HandleMemberStateUpdate, Updated
  <2>3. Ids(Updated(known, Arrived.id, Arrived.muted)) = Ids(known)
      BY <1>0, <2>1, UpdatedIds
  <2>4. Ids(known)' = Ids(known)
      BY <2>2, <2>3 DEF Ids
  <2>5. QED
      BY <1>0, <2>1, <2>4
<1>6. CASE Server \/ Connect \/ Break
  <2>1. UNCHANGED <<selfId, known>>
      BY <1>6 DEF Server, SpacePrepared, MemberPrepared, MemberJoins, MemberLeaves,
         OtherToggles, ServerHears, Offer, Connect, Break, clientVars, viewVars
  <2>2. QED
      BY <1>1, <2>1
<1>7. CASE Page
  <2>1. UNCHANGED <<selfId, known>>
      BY <1>7 DEF Page, FactoryReady, GrantMedia, Toggle, LeavePage, Cleanup, viewVars
  <2>2. QED
      BY <1>1, <2>1
<1>8. CASE \/ HandleConnect \/ HandleConnectionSuccessful \/ HandleConnectionFailed
           \/ HandleDisconnect \/ HandleTransportParams
  <2>1. UNCHANGED <<selfId, known>>
      BY <1>8 DEF HandleConnect, HandleConnectionSuccessful, HandleConnectionFailed,
         HandleDisconnect, HandleTransportParams, Cleanup, viewVars
  <2>2. QED
      BY <1>1, <2>1
<1>9. CASE UNCHANGED vars
    BY <1>1, <1>9 DEF vars, clientVars, viewVars
<1>10. QED
    BY <1>2, <1>3, <1>4, <1>5, <1>6, <1>7, <1>8, <1>9 DEF Next, Receive

\* The page's steps and the browser's handlers leave the server's side alone,
\* but for closing the connection.
LEMMA BrowserSteps ==
  ASSUME ClientInv, Receive \/ Page
  PROVE  /\ UNCHANGED <<room, muted, fresh, offered, used>>
         /\ \/ UNCHANGED <<phase, link>>
            \/ phase' = "closed" /\ link' = 0 /\ down' = <<>>
         /\ used \in Session \/ down' \in {down, <<>>}
<1>1. Receive => used \in Session
    BY Arrives DEF Receive, Takes, HandleConnect, HandleConnectionSuccessful,
       HandleConnectionFailed, HandleDisconnect, HandleSpaceInit, HandleMemberJoin,
       HandleMemberLeave, HandleMemberStateUpdate, HandleTransportParams
<1>2. CASE HandleConnectionFailed \/ LeavePage
    BY <1>1, <1>2 DEF HandleConnectionFailed, LeavePage, Cleanup
<1>3. CASE FactoryReady \/ GrantMedia \/ Toggle
    BY <1>1, <1>3 DEF FactoryReady, GrantMedia, Toggle, serverVars, wireVars
<1>4. CASE \/ HandleConnect \/ HandleConnectionSuccessful
           \/ HandleDisconnect \/ HandleSpaceInit \/ HandleMemberJoin
           \/ HandleMemberLeave \/ HandleMemberStateUpdate \/ HandleTransportParams
  <2>1. UNCHANGED <<serverVars, link, used>>
      BY <1>4 DEF HandleConnect, HandleConnectionSuccessful,
         HandleDisconnect, HandleSpaceInit, HandleMemberJoin, HandleMemberLeave,
         HandleMemberStateUpdate, HandleTransportParams
  <2>2. Receive
      BY <1>4 DEF Receive
  <2>3. QED
      BY <1>1, <2>1, <2>2 DEF serverVars
<1>5. QED
    BY <1>2, <1>3, <1>4 DEF Receive, Page

\* Who is in the room, and who is to come.
LEMMA RoomStep ==
  ASSUME ClientInv, [Next]_vars
  PROVE  RoomInOrder'
<1>0. /\ RoomInOrder /\ ServerTypes /\ used \in Nat
      /\ phase = "closed" <=> link = 0
      /\ phase # "closed" => link = used /\ used \in Session
    BY Connected DEF ClientInv, ClientTypes, WireTypes, WireInOrder
<1>e. /\ used \notin Earlier
      /\ \A o \in Other : o \notin Session
    BY <1>0 DEF Earlier
<1> USE DEF RoomInOrder
<1>1. CASE SpacePrepared
    BY <1>0, <1>1 DEF SpacePrepared, Earlier
<1>2. CASE MemberPrepared
    BY <1>0, <1>2 DEF MemberPrepared, Earlier
<1>3. ASSUME NEW id \in Id, MemberJoins(id)
      PROVE  RoomInOrder'
  <2>1. /\ UNCHANGED <<muted, phase, used>> /\ Earlier' = Earlier
        /\ id \in fresh /\ fresh' = fresh \ {id} /\ room' = room \cup {id}
      BY <1>3 DEF MemberJoins, Earlier
  <2>2. used = 0 => down' = down
      BY <1>0, <1>3 DEF MemberJoins, Broadcast
  <2>3. QED
      BY <1>0, <2>1, <2>2
<1>4. ASSUME NEW id \in Id, MemberLeaves(id)
      PROVE  RoomInOrder'
  <2>1. /\ UNCHANGED <<muted, phase, used, fresh>> /\ Earlier' = Earlier
        /\ room' = room \ {id}
      BY <1>4 DEF MemberLeaves, Earlier
  <2>2. used = 0 => down' = down
      BY <1>0, <1>4 DEF MemberLeaves, Broadcast
  <2>3. QED
      BY <1>0, <2>1, <2>2
<1>5. ASSUME NEW id \in Id, Offer(id)
      PROVE  RoomInOrder'
    BY <1>0, <1>5 DEF Offer, Earlier
<1>6. ASSUME NEW id \in Id, NEW m \in BOOLEAN, UpdateMember(id, m),
             id \notin fresh, id \notin Session \/ (id = used /\ phase = "registered"),
             UNCHANGED <<room, fresh, phase, used>>
      PROVE  RoomInOrder'
  <2>1. /\ Earlier' = Earlier
        /\ \A i \in Id : i # id => muted'[i] = muted[i]
      BY <1>0, <1>6 DEF UpdateMember, Earlier, ServerTypes
  <2>2. used = 0 => down' = down
      BY <1>0, <1>6 DEF UpdateMember, Broadcast
  <2>3. \A i \in fresh : i \in Id /\ i # id
      BY <1>0, <1>6 DEF ServerTypes
  <2>4. \A n \in Session : n > used => n # id /\ n \in Id
      BY <1>0, <1>6
  <2>5. phase \in {"opened", "prepared"} => used # id /\ used \in Id
      BY <1>0, <1>6
  <2>6. QED
      BY <1>0, <1>6, <2>1, <2>2, <2>3, <2>4, <2>5
<1>7. ASSUME NEW o \in Other, OtherToggles(o)
      PROVE  RoomInOrder'
  <2>1. (~muted[o]) \in BOOLEAN
      OBVIOUS
  <2>2. QED
      BY <1>0, <1>e, <1>6, <1>7, <2>1 DEF OtherToggles
<1>8. CASE ServerHears
  <2>1. CASE phase = "registered"
    <3>1. Head(up) \in BOOLEAN /\ used \notin fresh /\ used \in Id /\ link = used
      <4>1. up \in Seq(BOOLEAN) /\ up # <<>>
          BY <1>8 DEF ServerHears, ClientInv, ClientTypes, WireTypes
      <4>2. QED
          BY <1>0, <2>1, <4>1, TakenOff
    <3>2. QED
        BY <1>6, <1>8, <2>1, <3>1 DEF ServerHears
  <2>2. CASE phase # "registered"
      BY <1>0, <1>8, <2>2 DEF ServerHears, Earlier
  <2>3. QED
      BY <2>1, <2>2
<1>9. CASE Connect
  <2>1. Earlier \cup {used} \subseteq Earlier' \cup {0}
      BY <1>0, <1>9 DEF Connect, Earlier
  <2>2. used' = used + 1 /\ used' \in Session /\ used' # 0
      BY <1>0, <1>9 DEF Connect
  <2>3. room \subseteq Earlier' /\ fresh \subseteq Earlier'
    <3>1. 0 \notin room \cup fresh
        BY <1>0 DEF ServerTypes
    <3>2. QED
        BY <1>0, <2>1, <3>1
  <2>4. used' \notin Earlier'
      BY <1>0, <2>2 DEF Earlier
  <2>5. /\ UNCHANGED <<room, muted, fresh>> /\ phase' = "opened"
      BY <1>9 DEF Connect
  <2>6. \A n \in Session : n > used' => n > used
      BY <1>0, <2>2
  <2>7. ~muted[used']
      BY <1>0, <2>2
  <2>8. QED
      BY <1>0, <2>2, <2>3, <2>4, <2>5, <2>6, <2>7
<1>10. CASE Break
    BY <1>0, <1>10 DEF Break, Earlier
<1>11. CASE Receive \/ Page
  <2>1. Earlier' = Earlier
      BY <1>11, BrowserSteps DEF Earlier
  <2>2. QED
      BY <1>0, <1>11, <2>1, BrowserSteps
<1>12. CASE UNCHANGED vars
    BY <1>0, <1>12 DEF vars, serverVars, wireVars, Earlier
<1>13. QED
    BY <1>1, <1>2, <1>3, <1>4, <1>5, <1>7, <1>8, <1>9, <1>10, <1>11, <1>12
       DEF Next, Server

-----------------------------------------------------------------------------
(***************************************************************************)
(* The copy                                                                *)
(***************************************************************************)

\* Copies of those who came earlier stay copies of such when no more are to
\* come but the client itself.
LEMMA ProperKept ==
  ASSUME NEW view \in SUBSET Entry, Proper(view),
         Earlier \ fresh \subseteq (Earlier \ fresh)'
  PROVE  Proper(view)'
    BY DEF Proper

\* Nothing is said, and the last copy stays up to date.
LEMMA CopyStays ==
  ASSUME ClientInv,
         NEW copy \in [0 .. Len(down) -> SUBSET Entry], Replay(copy),
         UNCHANGED <<down, known, used>>,
         Earlier \ fresh \subseteq (Earlier \ fresh)',
         NEW last, last = copy[Len(down)], UpToDate(last)'
  PROVE  CopyCatchesUp'
<1>0. Len(down) \in Nat /\ DOMAIN down = 1 .. Len(down)
    BY DEF ClientInv, ClientTypes, WireTypes
<1>1. copy[0] = known'
    BY DEF Replay
<1>2. ASSUME NEW i \in 0 .. Len(down) PROVE Proper(copy[i])'
    BY <1>2, ProperKept DEF Replay
<1>3. ASSUME NEW i \in DOMAIN down
      PROVE  /\ copy[i] = Effect(copy[i - 1], down[i])'
             /\ down[i].kind = "params" => down[i].id \in Ids(copy[i - 1]) \cup {used}
  <2>1. /\ copy[i] = Effect(copy[i - 1], down[i])
        /\ down[i].kind = "params" => down[i].id \in Ids(copy[i - 1]) \cup {used}
      BY <1>3 DEF Replay
  <2>2. Effect(copy[i - 1], down[i])' = Effect(copy[i - 1], down[i])
      BY DEF Effect
  <2>3. QED
      BY <2>1, <2>2
<1>4. copy \in [0 .. Len(down') -> SUBSET Entry]
    OBVIOUS
<1>5. copy[Len(down')] = last
    OBVIOUS
<1>6. Replay(copy)'
    BY <1>0, <1>1, <1>2, <1>3, <1>5 DEF Replay
<1>7. QED
    BY <1>4, <1>6 DEF CopyCatchesUp

\* Something is said, and the copy that has it is up to date.
LEMMA CopyGrows ==
  ASSUME ClientInv, NEW e \in Message, down' = Append(down, e),
         NEW copy \in [0 .. Len(down) -> SUBSET Entry], Replay(copy),
         UNCHANGED <<known, used>>,
         Earlier \ fresh \subseteq (Earlier \ fresh)',
         NEW last \in SUBSET Entry,
         last = Effect(copy[Len(down)], e), Proper(last)', UpToDate(last)',
         e.kind = "params" => e.id \in Ids(copy[Len(down)]) \cup {used}
  PROVE  CopyCatchesUp'
<1> DEFINE n == Len(down) + 1
           longer == [i \in 0 .. n |-> IF i = n THEN last ELSE copy[i]]
<1>0. /\ Len(down) \in Nat /\ DOMAIN down = 1 .. Len(down)
      /\ Len(down') = n /\ DOMAIN down' = 1 .. n
      /\ down'[n] = e
      /\ \A i \in 1 .. Len(down) : down'[i] = down[i]
  <2>1. down \in Seq(Message)
      BY DEF ClientInv, ClientTypes, WireTypes
  <2>2. QED
      BY <2>1, Appended
<1>1. PICK N \in Nat : N = n
    BY <1>0
<1>2. PICK c \in [0 .. N -> SUBSET Entry] : c = longer
  <2>1. longer \in [0 .. N -> SUBSET Entry]
      BY <1>0, <1>1
  <2>2. QED
      BY <2>1
<1>3. /\ c[N] = last
      /\ \A i \in 0 .. N - 1 : c[i] = copy[i]
      /\ N - 1 = Len(down)
    BY <1>0, <1>1, <1>2
<1> HIDE DEF longer, n
<1>4. c[0] = known'
    BY <1>0, <1>3 DEF Replay
<1>5. ASSUME NEW i \in 0 .. N PROVE Proper(c[i])'
  <2>1. CASE i = N
      BY <1>3, <2>1
  <2>2. CASE i # N
    <3>1. i \in 0 .. Len(down) /\ c[i] = copy[i]
        BY <1>3, <2>2
    <3>2. Proper(copy[i]) /\ copy[i] \in SUBSET Entry
        BY <3>1 DEF Replay
    <3>3. QED
        BY <3>1, <3>2, ProperKept
  <2>3. QED
      BY <2>1, <2>2
<1>6. ASSUME NEW i \in 1 .. N
      PROVE  /\ c[i] = Effect(c[i - 1], down[i])'
             /\ down'[i].kind = "params" => down'[i].id \in Ids(c[i - 1]) \cup {used'}
  <2>1. CASE i = N
    <3>1. c[i - 1] = copy[Len(down)] /\ c[i] = last /\ down'[i] = e
        BY <1>0, <1>1, <1>3, <2>1
    <3>2. c[i] = Effect(c[i - 1], e)
        BY <3>1
    <3>3. Effect(c[i - 1], down[i])' = Effect(c[i - 1], e)
        BY <3>1 DEF Effect
    <3>4. QED
        BY <3>1, <3>2, <3>3
  <2>2. CASE i # N
    <3>1. /\ i \in DOMAIN down /\ c[i] = copy[i] /\ c[i - 1] = copy[i - 1]
          /\ down'[i] = down[i]
        BY <1>0, <1>1, <1>3, <2>2
    <3>2. /\ c[i] = Effect(c[i - 1], down[i])
          /\ down[i].kind = "params" => down[i].id \in Ids(c[i - 1]) \cup {used}
        BY <3>1 DEF Replay
    <3>3. Effect(c[i - 1], down[i])' = Effect(c[i - 1], down[i])
        BY <3>1 DEF Effect
    <3>4. QED
        BY <3>1, <3>2, <3>3
  <2>3. QED
      BY <2>1, <2>2
<1>7. Replay(c)'
    BY <1>0, <1>1, <1>3, <1>4, <1>5, <1>6 DEF Replay
<1>8. QED
    BY <1>0, <1>1, <1>7 DEF CopyCatchesUp

\* The first thing on the way is heard.
LEMMA CopyHears ==
  ASSUME ClientInv, down # <<>>, down' = Tail(down),
         known' = Effect(known, Arrived),
         UNCHANGED <<room, muted, fresh, phase, link, used>>
  PROVE  CopyCatchesUp'
<1>1. PICK copy \in [0 .. Len(down) -> SUBSET Entry] : Replay(copy)
    BY DEF ClientInv, CopyCatchesUp
<1>0. /\ Len(down) \in Nat /\ Len(down) > 0 /\ DOMAIN down = 1 .. Len(down)
      /\ down[1] = Arrived /\ 1 \in DOMAIN down
      /\ Len(down') = Len(down) - 1 /\ DOMAIN down' = 1 .. Len(down) - 1
      /\ \A i \in 1 .. Len(down) - 1 : down'[i] = down[i + 1]
  <2>1. down \in Seq(Message)
      BY DEF ClientInv, ClientTypes, WireTypes
  <2>2. QED
      BY <2>1, TakenOff DEF Arrived
<1>2. PICK N \in Nat : N = Len(down) - 1
  <2>1. Len(down) - 1 \in Nat
      BY <1>0
  <2>2. QED
      BY <2>1
<1>3. PICK c \in [0 .. N -> SUBSET Entry] : \A i \in 0 .. N : c[i] = copy[i + 1]
  <2>1. [i \in 0 .. N |-> copy[i + 1]] \in [0 .. N -> SUBSET Entry]
      BY <1>0, <1>2
  <2>2. QED
      BY <2>1
<1>e. Earlier' = Earlier
    BY DEF Earlier
<1>4. c[0] = known'
  <2>1. copy[1] = Effect(copy[0], down[1]) /\ copy[0] = known
      BY <1>0, <1>1 DEF Replay
  <2>2. QED
      BY <1>0, <1>2, <1>3, <2>1
<1>5. ASSUME NEW i \in 0 .. N PROVE Proper(c[i])'
  <2>1. c[i] \in SUBSET Entry /\ Proper(c[i])
      BY <1>0, <1>1, <1>2, <1>3 DEF Replay
  <2>2. QED
      BY <1>e, <2>1, ProperKept
<1>6. ASSUME NEW i \in 1 .. N
      PROVE  /\ c[i] = Effect(c[i - 1], down[i])'
             /\ down'[i].kind = "params" => down'[i].id \in Ids(c[i - 1]) \cup {used'}
  <2>1. /\ i + 1 \in DOMAIN down /\ c[i] = copy[i + 1] /\ c[i - 1] = copy[i]
        /\ down'[i] = down[i + 1]
      BY <1>0, <1>2, <1>3
  <2>2. /\ c[i] = Effect(c[i - 1], down[i + 1])
        /\ down[i + 1].kind = "params" => down[i + 1].id \in Ids(c[i - 1]) \cup {used}
    <3>1. (i + 1) - 1 = i
        OBVIOUS
    <3>2. QED
        BY <1>1, <2>1, <3>1 DEF Replay
  <2>3. Effect(c[i - 1], down[i])' = Effect(c[i - 1], down[i + 1])
      BY <2>1 DEF Effect
  <2>4. QED
      BY <2>1, <2>2, <2>3
<1>7. UpToDate(c[N])'
  <2>1. c[N] = copy[Len(down)]
      BY <1>0, <1>2, <1>3
  <2>2. UpToDate(c[N])
      BY <1>1, <2>1 DEF Replay
  <2>3. QED
      BY <2>2 DEF UpToDate
<1>8. Replay(c)'
    BY <1>0, <1>2, <1>4, <1>5, <1>6, <1>7 DEF Replay
<1>9. QED
    BY <1>0, <1>2, <1>8 DEF CopyCatchesUp

\* The connection breaks.
LEMMA CopyIsCut ==
  ASSUME ClientInv, NEW n \in 0 .. Len(down), Cuts(n), UNCHANGED known,
         Earlier \ fresh \subseteq (Earlier \ fresh)'
  PROVE  CopyCatchesUp'
<1> DEFINE e == Event("disconnect", 0, FALSE)
<1>1. PICK copy \in [0 .. Len(down) -> SUBSET Entry] : Replay(copy)
    BY DEF ClientInv, CopyCatchesUp
<1>e. e \in Message /\ e.kind = "disconnect"
    BY Farewell
<1>0. /\ Len(down) \in Nat /\ DOMAIN down = 1 .. Len(down)
      /\ Len(down') = n + 1 /\ DOMAIN down' = 1 .. n + 1
      /\ down'[n + 1] = e
      /\ \A i \in 1 .. n : down'[i] = down[i]
  <2> HIDE DEF e
  <2>1. down \in Seq(Message)
      BY DEF ClientInv, ClientTypes, WireTypes
  <2> DEFINE cut == Append(SubSeq(down, 1, n), e)
  <2>2. /\ Len(down) \in Nat /\ DOMAIN down = 1 .. Len(down)
        /\ Len(cut) = n + 1 /\ DOMAIN cut = 1 .. n + 1
        /\ cut[n + 1] = e
        /\ \A i \in 1 .. n : cut[i] = down[i]
      BY <1>e, <2>1, CutOff
  <2>3. down' = cut
      BY DEF Cuts, e
  <2>4. QED
      BY <2>2, <2>3, Zenon
<1> HIDE DEF e
<1>2. PICK c \in [0 .. n + 1 -> SUBSET Entry] :
        /\ c[n + 1] = copy[n]
        /\ \A i \in 0 .. n : c[i] = copy[i]
  <2> DEFINE f == [i \in 0 .. n + 1 |-> IF i = n + 1 THEN copy[n] ELSE copy[i]]
  <2>1. /\ f \in [0 .. n + 1 -> SUBSET Entry] /\ f[n + 1] = copy[n]
        /\ \A i \in 0 .. n : f[i] = copy[i]
      BY <1>0
  <2>2. QED
      BY <2>1
<1>u. used' = used /\ phase' = "closed" /\ used # 0
    BY DEF Cuts, ClientInv, ClientTypes, WireTypes
<1>4. c[0] = known'
    BY <1>0, <1>1, <1>2 DEF Replay
<1>5. ASSUME NEW i \in 0 .. n + 1 PROVE Proper(c[i])'
  <2>1. PICK j \in 0 .. n : c[i] = copy[j]
      BY <1>0, <1>2
  <2>2. Proper(copy[j]) /\ copy[j] \in SUBSET Entry
      BY <1>0, <1>1 DEF Replay
  <2>3. QED
      BY <2>1, <2>2, ProperKept
<1>6. ASSUME NEW i \in 1 .. n + 1
      PROVE  /\ c[i] = Effect(c[i - 1], down[i])'
             /\ down'[i].kind = "params" => down'[i].id \in Ids(c[i - 1]) \cup {used'}
  <2>1. CASE i = n + 1
    <3>1. down'[i] = e /\ c[i] = c[i - 1]
        BY <1>0, <1>2, <2>1
    <3>2. Effect(c[i - 1], down[i])' = c[i - 1]
        BY <1>e, <3>1 DEF Effect
    <3>3. QED
        BY <1>e, <3>1, <3>2
  <2>2. CASE i # n + 1
    <3>1. /\ i \in DOMAIN down /\ c[i] = copy[i] /\ c[i - 1] = copy[i - 1]
          /\ down'[i] = down[i]
        BY <1>0, <1>2, <2>2
    <3>2. /\ c[i] = Effect(c[i - 1], down[i])
          /\ down[i].kind = "params" => down[i].id \in Ids(c[i - 1]) \cup {used}
        BY <1>1, <3>1 DEF Replay
    <3>3. Effect(c[i - 1], down[i])' = Effect(c[i - 1], down[i])
        BY <1>u, <3>1 DEF Effect
    <3>4. QED
        BY <1>u, <3>1, <3>2, <3>3
  <2>3. QED
      BY <2>1, <2>2
<1>7. UpToDate(c[n + 1])'
    BY <1>u DEF UpToDate
<1>8. Replay(c)'
    BY <1>0, <1>4, <1>5, <1>6, <1>7 DEF Replay
<1>9. QED
    BY <1>0, <1>8 DEF CopyCatchesUp

\* What the browser knows before its first connection is in the space.
LEMMA NobodyKnown ==
  ASSUME ClientInv, used = 0
  PROVE  known = {}
<1>1. PICK copy \in [0 .. Len(down) -> SUBSET Entry] : Replay(copy)
    BY DEF ClientInv, CopyCatchesUp
<1>2. down = <<>> /\ Len(down) = 0
    BY DEF ClientInv, RoomInOrder
<1>3. QED
    BY <1>1, <1>2 DEF Replay, UpToDate

\* A page is left, or a connection is made.
LEMMA CopyIsKept ==
  ASSUME ClientInv, (Closes /\ UNCHANGED fresh) \/ Connect, UNCHANGED known
  PROVE  CopyCatchesUp'
<1>1. PICK copy \in [0 .. Len(down) -> SUBSET Entry] : Replay(copy)
    BY DEF ClientInv, CopyCatchesUp
<1>0. /\ Len(down) \in Nat /\ used \in Nat /\ known \in SUBSET Entry
    BY DEF ClientInv, ClientTypes, WireTypes, ViewTypes
<1>2. Proper(known)
    BY <1>0, <1>1 DEF Replay
<1>3. CASE Closes /\ UNCHANGED fresh
  <2>1. PICK c \in [{0} -> SUBSET Entry] : c[0] = known
    <3>1. [i \in {0} |-> known] \in [{0} -> SUBSET Entry]
        BY <1>0
    <3>2. QED
        BY <3>1
  <2>2. Len(down') = 0 /\ DOMAIN down' = {} /\ 0 .. Len(down') = {0}
      BY <1>3 DEF Closes
  <2>3. used' = used /\ phase' = "closed" /\ Earlier' = Earlier /\ fresh' = fresh
      BY <1>3 DEF Closes, Earlier
  <2>4. Proper(c[0])'
      BY <1>2, <2>1, <2>3 DEF Proper
  <2>5. UpToDate(c[0])'
      BY <2>1, <2>3, NobodyKnown DEF UpToDate
  <2>6. Replay(c)'
      BY <2>1, <2>2, <2>4, <2>5 DEF Replay
  <2>7. QED
      BY <2>2, <2>6 DEF CopyCatchesUp
<1>4. CASE Connect
  <2> DEFINE e == Event("connect", used + 1, FALSE)
  <2>1. e.kind = "connect" /\ down' = <<e>>
      BY <1>4 DEF Connect, Event
  <2> HIDE DEF e
  <2>2. Len(down') = 1 /\ DOMAIN down' = {1} /\ 0 .. Len(down') = {0, 1} /\ down'[1] = e
      BY <2>1
  <2>3. PICK c \in [{0, 1} -> SUBSET Entry] : c[0] = known /\ c[1] = known
    <3>1. [i \in {0, 1} |-> known] \in [{0, 1} -> SUBSET Entry]
        BY <1>0
    <3>2. QED
        BY <3>1
  <2>4. used' = used + 1 /\ phase' = "opened" /\ fresh' = fresh /\ used \in Nat
      BY <1>0, <1>4 DEF Connect
  <2>5. Proper(known)'
    <3>1. Earlier \subseteq Earlier'
        BY <2>4 DEF Earlier
    <3>2. QED
        BY <1>2, <2>4, <3>1 DEF Proper
  <2>6. UpToDate(c[1])'
      BY <2>3, <2>4, NobodyKnown DEF UpToDate
  <2>7. c[1] = Effect(c[0], down[1])'
    <3>1. Effect(c[0], down[1])' = c[0]
        BY <2>1, <2>2 DEF Effect
    <3>2. QED
        BY <2>3, <3>1
  <2>8. Replay(c)'
      BY <2>1, <2>2, <2>3, <2>5, <2>6, <2>7 DEF Replay
  <2>9. QED
      BY <2>2, <2>8 DEF CopyCatchesUp
<1>5. QED
    BY <1>3, <1>4

\* An event makes a copy of a copy.
LEMMA EffectIsCopy ==
  ASSUME NEW view \in SUBSET Entry, NEW e \in Message
  PROVE  Effect(view, e) \in SUBSET Entry
<1>1. CASE e.kind = "init"
  <2>1. e.view \subseteq Entry
      BY <1>1, Messages
  <2>2. Effect(view, e) = {x \in view : x.id \notin Ids(Others(e))} \cup Others(e)
      BY <1>1 DEF Effect
  <2>3. QED
      BY <2>1, <2>2 DEF Others
<1>2. CASE e.kind = "join"
  <2>1. [id |-> e.id, muted |-> e.muted] \in Entry
      BY <1>2, Messages DEF Entry
  <2>2. QED
      BY <1>2, <2>1 DEF Effect
<1>3. CASE e.kind = "update"
  <2>1. e.muted \in BOOLEAN
      BY <1>3, Messages
  <2>2. Updated(view, e.id, e.muted) \in SUBSET Entry
      BY <2>1, UpdatedIds
  <2>3. QED
      BY <1>3, <2>2 DEF Effect
<1>4. CASE e.kind \notin {"init", "join", "update"}
  <2>1. Effect(view, e) \subseteq view
      BY <1>4 DEF Effect
  <2>2. QED
      BY <2>1
<1>5. QED
    BY <1>1, <1>2, <1>3, <1>4

\* A step that says e keeps a copy up to date that takes e in.
Leads(e) ==
  \A before, after \in SUBSET Entry :
    Proper(before) /\ UpToDate(before) /\ after = Effect(before, e) =>
      /\ Proper(after)' /\ UpToDate(after)'
      /\ e.kind = "params" => e.id \in Ids(before) \cup {used}

LEMMA CopySays ==
  ASSUME ClientInv, NEW e \in Message, down' = Append(down, e), Leads(e),
         UNCHANGED <<known, used>>,
         Earlier \ fresh \subseteq (Earlier \ fresh)'
  PROVE  CopyCatchesUp'
<1>1. PICK copy \in [0 .. Len(down) -> SUBSET Entry] : Replay(copy)
    BY DEF ClientInv, CopyCatchesUp
<1>2. Len(down) \in Nat
    BY DEF ClientInv, ClientTypes, WireTypes
<1>3. PICK before \in SUBSET Entry : before = copy[Len(down)]
    BY <1>2
<1>4. Proper(before) /\ UpToDate(before)
    BY <1>1, <1>2, <1>3 DEF Replay
<1>5. PICK after \in SUBSET Entry : after = Effect(before, e)
    BY EffectIsCopy
<1>6. /\ Proper(after)' /\ UpToDate(after)'
      /\ e.kind = "params" => e.id \in Ids(before) \cup {used}
    BY <1>4, <1>5 DEF Leads
<1>7. QED
    BY <1>1, <1>3, <1>5, <1>6, CopyGrows

\* What is said to those in the space is said to the client when it is.
LEMMA CopyIsTold ==
  ASSUME ClientInv, NEW e \in Message, Broadcast(e),
         phase = "registered" => Leads(e),
         UNCHANGED <<known, used, phase>>,
         Earlier \ fresh \subseteq (Earlier \ fresh)'
  PROVE  CopyCatchesUp'
<1>1. CASE phase = "registered"
    BY <1>1, CopySays DEF Broadcast
<1>2. CASE phase # "registered"
  <2>1. PICK copy \in [0 .. Len(down) -> SUBSET Entry] : Replay(copy)
      BY DEF ClientInv, CopyCatchesUp
  <2>2. PICK last : last = copy[Len(down)]
      OBVIOUS
  <2>3. UpToDate(last)
      BY <2>1, <2>2 DEF Replay
  <2>4. UpToDate(last)'
      BY <1>2, <2>3 DEF UpToDate
  <2>5. down' = down
      BY <1>2 DEF Broadcast
  <2>6. QED
      BY <2>1, <2>2, <2>4, <2>5, CopyStays
<1>3. QED
    BY <1>1, <1>2

\* A state changes that a copy has taken in.
LEMMA UpdateLeads ==
  ASSUME ClientInv, NEW id \in Id, NEW m \in BOOLEAN,
         muted' = [muted EXCEPT ![id] = m],
         UNCHANGED <<room, fresh, phase, link, used>>,
         phase = "registered"
  PROVE  Leads(Event("update", id, m))
<1> DEFINE e == Event("update", id, m)
<1>0. ServerTypes /\ RoomInOrder
    BY DEF ClientInv, ClientTypes
<1>1. e.kind = "update" /\ e.id = id /\ e.muted = m
    BY DEF Event
<1> HIDE DEF e
<1>2. SUFFICES ASSUME NEW before \in SUBSET Entry, NEW after \in SUBSET Entry,
                      Proper(before), UpToDate(before), after = Effect(before, e)
               PROVE  Proper(after)' /\ UpToDate(after)'
    BY <1>1 DEF Leads, e
<1>3. after = Updated(before, id, m)
    BY <1>1, <1>2 DEF Effect
<1>4. /\ Ids(after) = Ids(before)
      /\ \A x, y \in after : x.id = y.id => x = y
    BY <1>2, <1>3, UpdatedIds DEF Proper
<1>5. Earlier' = Earlier
    BY DEF Earlier
<1>6. Proper(after)'
  <2>1. Ids(before) \subseteq Earlier \ fresh
      BY <1>2 DEF Proper, Ids
  <2>2. \A x \in after : x.id \in Earlier \ fresh
      BY <1>4, <2>1 DEF Ids
  <2>3. QED
      BY <1>4, <1>5, <2>2 DEF Proper
<1>7. UpToDate(after)'
  <2>1. ASSUME NEW r \in room \ {link}
        PROVE  [id |-> r, muted |-> muted'[r]] \in after
    <3>1. [id |-> r, muted |-> muted[r]] \in before
        BY <1>2, <2>1 DEF UpToDate
    <3>2. CASE r = id
      <4>1. muted'[r] = m
          BY <1>0, <3>2 DEF ServerTypes
      <4>2. [[id |-> r, muted |-> muted[r]] EXCEPT !.muted = m]
              = [id |-> r, muted |-> m]
          OBVIOUS
      <4>3. QED
          BY <1>3, <3>1, <3>2, <4>1, <4>2 DEF Updated
    <3>3. CASE r # id
      <4>1. muted'[r] = muted[r]
          BY <1>0, <3>3 DEF ServerTypes
      <4>2. QED
          BY <1>3, <3>1, <3>3, <4>1 DEF Updated
    <3>4. QED
        BY <3>2, <3>3
  <2>2. used = 1 => Ids(after) = room \ {link}
      BY <1>2, <1>4 DEF UpToDate
  <2>3. used # 0
      BY <1>0 DEF RoomInOrder
  <2>4. QED
      BY <2>1, <2>2, <2>3 DEF UpToDate, Ids
<1>8. QED
    BY <1>6, <1>7

\* The server has prepared the space, or has not.
LEMMA AnswerLeads ==
  ASSUME ClientInv, SpacePrepared,
         NEW e \in Message, e.kind \in {"success", "failed"}
  PROVE  Leads(e)
<1>1. /\ phase = "opened" /\ UNCHANGED <<fresh, used>>
      /\ phase' \in {"prepared", "refused"}
    BY DEF SpacePrepared
<1>2. Earlier' = Earlier
    BY <1>1 DEF Earlier
<1>3. ASSUME NEW before \in SUBSET Entry, NEW after \in SUBSET Entry,
             Proper(before), UpToDate(before), after = Effect(before, e)
      PROVE  Proper(after)' /\ UpToDate(after)'
  <2>1. after = before
      BY <1>3 DEF Effect
  <2>2. QED
      BY <1>1, <1>2, <1>3, <2>1 DEF Proper, UpToDate
<1>4. QED
    BY <1>3 DEF Leads

\* The snapshot has everybody in the room.
LEMMA SnapshotLeads ==
  ASSUME ClientInv, MemberPrepared, NEW view \in SUBSET Entry,
         view = {[id |-> id, muted |-> muted[id]] : id \in room'}
  PROVE  Leads(Room(view))
<1>1. /\ phase = "prepared" /\ phase' = "registered" /\ link = used /\ link \in Session
      /\ room' = room \cup {used}
      /\ UNCHANGED <<muted, fresh, link, used>>
    BY Connected DEF MemberPrepared
<1>2. RoomInOrder /\ ServerTypes /\ Earlier' = Earlier
    BY <1>1 DEF ClientInv, ClientTypes, Earlier
<1>3. Room(view).kind = "init" /\ Room(view).id = used /\ Room(view).view = view
    BY <1>1, Snapshots
<1>4. /\ \A x \in view : x.id \in room' /\ x.muted = muted[x.id]
      /\ \A id \in room' : [id |-> id, muted |-> muted[id]] \in view
      /\ \A x, y \in view : x.id = y.id => x = y
    OBVIOUS
<1>5. ASSUME NEW before \in SUBSET Entry, NEW after \in SUBSET Entry,
             Proper(before), UpToDate(before), after = Effect(before, Room(view))
      PROVE  Proper(after)' /\ UpToDate(after)'
  <2> DEFINE others == Others(Room(view))
  <2>1. after = {x \in before : x.id \notin Ids(others)} \cup others
      BY <1>3, <1>5 DEF Effect
  <2>2. others = {x \in view : x.id # used}
      BY <1>3 DEF Others
  <2> HIDE DEF others
  <2>3. Proper(after)'
    <3>1. \A x \in after : x.id \in Earlier \ fresh
      <4>1. \A x \in others : x.id \in Earlier \ fresh
          BY <1>1, <1>2, <1>4, <2>2 DEF RoomInOrder
      <4>2. QED
          BY <1>5, <2>1, <4>1 DEF Proper
    <3>2. \A x, y \in after : x.id = y.id => x = y
      <4>1. \A x \in others : x.id \in Ids(others)
          BY DEF Ids
      <4>2. \A x, y \in others : x.id = y.id => x = y
          BY <1>4, <2>2
      <4>3. \A x, y \in before : x.id = y.id => x = y
          BY <1>5 DEF Proper
      <4>4. QED
          BY <2>1, <4>1, <4>2, <4>3
    <3>3. QED
        BY <1>1, <1>2, <3>1, <3>2 DEF Proper
  <2>4. UpToDate(after)'
    <3>1. ASSUME NEW id \in room' \ {link}
          PROVE  [id |-> id, muted |-> muted[id]] \in after
        BY <1>1, <1>4, <2>1, <2>2, <3>1
    <3>2. ASSUME used = 1 PROVE Ids(after) = room' \ {link}
      <4>1. before = {}
          BY <1>1, <1>5, <3>2 DEF UpToDate
      <4>2. ASSUME NEW id \in room' \ {link} PROVE \E x \in others : x.id = id
        <5>1. [id |-> id, muted |-> muted[id]] \in others
            BY <1>1, <1>4, <2>2
        <5>2. QED
            BY <5>1
      <4>3. \A x \in others : x.id \in room' \ {link}
          BY <1>1, <1>4, <2>2
      <4>4. QED
          BY <2>1, <4>1, <4>2, <4>3 DEF Ids
    <3>3. used # 0
        BY <1>1
    <3>4. QED
        BY <1>1, <3>1, <3>2, <3>3 DEF UpToDate, Ids
  <2>5. QED
      BY <2>3, <2>4
<1>6. QED
    BY <1>3, <1>5 DEF Leads

\* Somebody joins.
LEMMA JoinLeads ==
  ASSUME ClientInv, NEW id \in Id, MemberJoins(id), phase = "registered"
  PROVE  Leads(Event("join", id, muted[id]))
<1> DEFINE e == Event("join", id, muted[id])
<1>1. /\ id \in fresh /\ fresh' = fresh \ {id} /\ room' = room \cup {id}
      /\ UNCHANGED <<muted, phase, link, used>>
    BY DEF MemberJoins
<1>2. /\ RoomInOrder /\ Earlier' = Earlier /\ used \in Session /\ link = used
      /\ used \notin Earlier
    BY <1>1, Connected, KnownAreEarlier DEF ClientInv, Earlier
<1>3. id \in Earlier /\ id # used
    BY <1>1, <1>2 DEF RoomInOrder
<1>e. e.kind = "join" /\ e.id = id /\ e.muted = muted[id]
    BY DEF Event
<1> HIDE DEF e
<1>4. ASSUME NEW before \in SUBSET Entry, NEW after \in SUBSET Entry,
             Proper(before), UpToDate(before), after = Effect(before, e)
      PROVE  Proper(after)' /\ UpToDate(after)'
  <2>1. id \notin Ids(before)
      BY <1>1, <1>4 DEF Proper, Ids
  <2>2. after = before \cup {[id |-> id, muted |-> muted[id]]}
      BY <1>3, <1>4, <1>e, <2>1 DEF Effect
  <2>3. Proper(after)'
      BY <1>1, <1>2, <1>3, <1>4, <2>1, <2>2 DEF Proper, Ids
  <2>4. UpToDate(after)'
    <3>1. \A i \in room' \ {link} : [id |-> i, muted |-> muted[i]] \in after
        BY <1>1, <1>4, <2>2 DEF UpToDate
    <3>2. Ids(after) = Ids(before) \cup {id}
      <4>1. ASSUME NEW x \in Ids(after) PROVE x \in Ids(before) \cup {id}
          BY <2>2 DEF Ids
      <4>2. ASSUME NEW x \in Ids(before) PROVE x \in Ids(after)
          BY <2>2 DEF Ids
      <4>3. [id |-> id, muted |-> muted[id]] \in after
          BY <2>2
      <4>4. id \in Ids(after)
          BY <4>3 DEF Ids
      <4>5. QED
          BY <4>1, <4>2, <4>4
    <3>3. used = 1 => Ids(after) = room' \ {link}
        BY <1>1, <1>2, <1>3, <1>4, <3>2 DEF UpToDate
    <3>4. QED
        BY <1>1, <1>2, <3>1, <3>3 DEF UpToDate, Ids
  <2>5. QED
      BY <2>3, <2>4
<1>5. QED
    BY <1>4, <1>e DEF Leads, e

\* Somebody leaves.
LEMMA LeaveLeads ==
  ASSUME ClientInv, NEW id \in Id, MemberLeaves(id), phase = "registered"
  PROVE  Leads(Event("leave", id, FALSE))
<1> DEFINE e == Event("leave", id, FALSE)
<1>1. /\ room' = room \ {id} /\ id # link
      /\ UNCHANGED <<muted, fresh, phase, link, used>>
    BY DEF MemberLeaves
<1>2. Earlier' = Earlier /\ used \in Session
    BY <1>1, Connected DEF Earlier
<1>e. e.kind = "leave" /\ e.id = id
    BY DEF Event
<1> HIDE DEF e
<1>4. ASSUME NEW before \in SUBSET Entry, NEW after \in SUBSET Entry,
             Proper(before), UpToDate(before), after = Effect(before, e)
      PROVE  Proper(after)' /\ UpToDate(after)'
  <2>1. after = {x \in before : x.id # id}
      BY <1>4, <1>e DEF Effect
  <2>2. Proper(after)'
      BY <1>1, <1>2, <1>4, <2>1 DEF Proper
  <2>3. Ids(after) = Ids(before) \ {id}
      BY <2>1 DEF Ids
  <2>4. \A i \in room' \ {link} : [id |-> i, muted |-> muted[i]] \in after
      BY <1>1, <1>4, <2>1 DEF UpToDate
  <2>5. used = 1 => Ids(after) = room' \ {link}
      BY <1>1, <1>4, <2>3 DEF UpToDate
  <2>6. UpToDate(after)'
      BY <1>1, <1>2, <2>4, <2>5 DEF UpToDate, Ids
  <2>7. QED
      BY <2>2, <2>6
<1>5. QED
    BY <1>4, <1>e DEF Leads, e

\* A member's media is offered.
LEMMA OfferLeads ==
  ASSUME ClientInv, NEW id \in Id, Offer(id)
  PROVE  Leads(Event("params", id, FALSE))
<1> DEFINE e == Event("params", id, FALSE)
<1>1. /\ id \in room /\ phase = "registered" /\ link = used /\ used \in Session
      /\ UNCHANGED <<room, muted, fresh, phase, link, used>>
    BY Connected DEF Offer
<1>2. Earlier' = Earlier
    BY <1>1 DEF Earlier
<1>e. e.kind = "params" /\ e.id = id
    BY DEF Event
<1> HIDE DEF e
<1>4. ASSUME NEW before \in SUBSET Entry, NEW after \in SUBSET Entry,
             Proper(before), UpToDate(before), after = Effect(before, e)
      PROVE  /\ Proper(after)' /\ UpToDate(after)'
             /\ e.id \in Ids(before) \cup {used}
  <2>1. after = before
      BY <1>4, <1>e DEF Effect
  <2>2. id # used => [id |-> id, muted |-> muted[id]] \in before
      BY <1>1, <1>4 DEF UpToDate
  <2>3. QED
      BY <1>1, <1>2, <1>4, <1>e, <2>1, <2>2 DEF Proper, UpToDate, Ids
<1>5. QED
    BY <1>4, <1>e DEF Leads, e

\* Each handler makes of the copy what the event makes of one.
LEMMA HandlersTakeEffect ==
  ASSUME ClientInv, Receive, ~HandleConnectionFailed
  PROVE  /\ down # <<>> /\ down' = Tail(down)
         /\ known' = Effect(known, Arrived)
         /\ UNCHANGED <<room, muted, fresh, phase, link, used>>
<1> USE DEF Takes, serverVars
<1>0. IdIsCurrent
    BY DEF ClientInv
<1>a. ASSUME down # <<>> PROVE Fits(Arrived.kind, Heard)
    BY <1>a, Arrives
<1>h. Heard = "registered" => initReceived
    BY DEF Heard
<1>1. CASE HandleConnect
    BY <1>1 DEF HandleConnect, viewVars, Effect
<1>2. CASE HandleConnectionSuccessful
    BY <1>2 DEF HandleConnectionSuccessful, viewVars, Effect
<1>3. CASE HandleDisconnect
    BY <1>3 DEF HandleDisconnect, Effect
<1>4. CASE HandleSpaceInit
  <2>1. down # <<>> /\ Arrived.kind = "init"
      BY <1>4 DEF HandleSpaceInit
  <2>2. ~initReceived
      BY <1>a, <2>1 DEF Fits, Heard
  <2>3. known' = {e \in known : e.id \notin Ids(Others(Arrived))} \cup Others(Arrived)
      BY <1>4, <2>2 DEF HandleSpaceInit
  <2>4. known' = Effect(known, Arrived)
      BY <2>1, <2>3 DEF Effect
  <2>5. QED
      BY <1>4, <2>1, <2>4 DEF HandleSpaceInit
<1>5. CASE HandleMemberJoin
  <2>1. down # <<>> /\ Arrived.kind = "join"
      BY <1>5 DEF HandleMemberJoin
  <2>2. selfId = used
      BY <1>0, <1>a, <1>h, <2>1 DEF Fits, IdIsCurrent
  <2>3. QED
      BY <1>5, <2>1, <2>2 DEF HandleMemberJoin, Effect
<1>6. CASE HandleMemberLeave
  <2>1. down # <<>> /\ Arrived.kind = "leave"
      BY <1>6 DEF HandleMemberLeave
  <2>2. known' = {x \in known : x.id # Arrived.id}
    <3>1. CASE Arrived.id \in Ids(known)
        BY <1>6, <3>1 DEF HandleMemberLeave
    <3>2. CASE Arrived.id \notin Ids(known)
        BY <1>6, <3>2 DEF HandleMemberLeave, Ids
    <3>3. QED
        BY <3>1, <3>2
  <2>3. QED
      BY <1>6, <2>1, <2>2 DEF HandleMemberLeave, Effect
<1>7. CASE HandleMemberStateUpdate
  <2>1. down # <<>> /\ Arrived.kind = "update"
      BY <1>7 DEF HandleMemberStateUpdate
  <2>2. known' = Updated(known, Arrived.id, Arrived.muted)
      BY <1>7 DEF HandleMemberStateUpdate, Updated
  <2>3. QED
      BY <1>7, <2>1, <2>2 DEF HandleMemberStateUpdate, Effect
<1>8. CASE HandleTransportParams
    BY <1>8 DEF HandleTransportParams, viewVars, Effect
<1>9. QED
    BY <1>1, <1>2, <1>3, <1>4, <1>5, <1>6, <1>7, <1>8 DEF Receive

\* What is on the way always leads to a copy that is up to date.
LEMMA CopyStep ==
  ASSUME ClientInv, [Next]_vars
  PROVE  CopyCatchesUp'
<1>0. ServerTypes /\ WireTypes /\ RoomInOrder /\ used \notin Earlier
    BY KnownAreEarlier DEF ClientInv, ClientTypes
<1>k. UNCHANGED <<fresh, used>> => Earlier \ fresh \subseteq (Earlier \ fresh)'
    BY DEF Earlier
<1>1. CASE SpacePrepared
  <2>1. /\ phase = "opened" /\ link \in Id /\ UNCHANGED <<known, fresh, used>>
      BY <1>1, Connected DEF SpacePrepared, clientVars, viewVars
  <2>2. PICK kind \in {"success", "failed"} : down' = Append(down, Event(kind, link, FALSE))
      BY <1>1 DEF SpacePrepared
  <2>3. Event(kind, link, FALSE) \in Message /\ Event(kind, link, FALSE).kind = kind
      BY <2>1, Events, Kinds
  <2>4. QED
      BY <1>k, <1>1, <2>1, <2>2, <2>3, AnswerLeads, CopySays
<1>2. CASE MemberPrepared
  <2>1. /\ link \in Session /\ UNCHANGED <<known, fresh, used>>
      BY <1>2, Connected DEF MemberPrepared, clientVars, viewVars
  <2>2. {[id |-> id, muted |-> muted[id]] : id \in room'} \in SUBSET Entry
      BY <1>0, <1>2, <2>1 DEF MemberPrepared, ServerTypes, Entry
  <2>3. PICK view \in SUBSET Entry :
          view = {[id |-> id, muted |-> muted[id]] : id \in room'}
      BY <2>2
  <2>4. Leads(Room(view)) /\ Room(view) \in Message
      BY <1>2, <2>1, <2>3, SnapshotLeads, Snapshots
  <2>5. down' = Append(down, Room(view))
      BY <1>2, <2>3 DEF MemberPrepared
  <2>6. QED
      BY <1>k, <2>1, <2>4, <2>5, CopySays
<1>3. ASSUME NEW id \in Id, MemberJoins(id)
      PROVE  CopyCatchesUp'
  <2>1. UNCHANGED <<known, used, phase>> /\ Broadcast(Event("join", id, muted[id]))
        /\ fresh' \subseteq fresh
      BY <1>3 DEF MemberJoins, clientVars, viewVars
  <2>2. Event("join", id, muted[id]) \in Message
    <3>1. muted[id] \in BOOLEAN
        BY <1>0 DEF ServerTypes
    <3>2. QED
        BY <3>1, Events, Kinds
  <2>3. Earlier \ fresh \subseteq (Earlier \ fresh)'
      BY <2>1 DEF Earlier
  <2>4. QED
      BY <1>3, <2>1, <2>2, <2>3, JoinLeads, CopyIsTold
<1>4. ASSUME NEW id \in Id, MemberLeaves(id)
      PROVE  CopyCatchesUp'
  <2>1. UNCHANGED <<known, used, phase, fresh>> /\ Broadcast(Event("leave", id, FALSE))
      BY <1>4 DEF MemberLeaves, clientVars, viewVars
  <2>2. Event("leave", id, FALSE) \in Message
      BY Events, Kinds
  <2>3. QED
      BY <1>k, <1>4, <2>1, <2>2, LeaveLeads, CopyIsTold
<1>5. ASSUME NEW id \in Id, Offer(id)
      PROVE  CopyCatchesUp'
  <2>1. UNCHANGED <<known, used, phase, fresh>> /\ Broadcast(Event("params", id, FALSE))
      BY <1>5 DEF Offer, clientVars, viewVars
  <2>2. Event("params", id, FALSE) \in Message
      BY Events, Kinds
  <2>3. QED
      BY <1>k, <1>5, <2>1, <2>2, OfferLeads, CopyIsTold
<1>6. ASSUME NEW id \in Id, NEW m \in BOOLEAN, UpdateMember(id, m),
             UNCHANGED <<room, fresh, phase, link, used, known>>
      PROVE  CopyCatchesUp'
  <2>1. /\ muted' = [muted EXCEPT ![id] = m] /\ Broadcast(Event("update", id, m))
      BY <1>6 DEF UpdateMember
  <2>2. Event("update", id, m) \in Message
      BY Events, Kinds
  <2>3. phase = "registered" => Leads(Event("update", id, m))
      BY <1>6, <2>1, UpdateLeads
  <2>4. QED
      BY <1>k, <1>6, <2>1, <2>2, <2>3, CopyIsTold
<1>7. ASSUME NEW o \in Other, OtherToggles(o)
      PROVE  CopyCatchesUp'
  <2>1. (~muted[o]) \in BOOLEAN /\ o \in Id
      OBVIOUS
  <2>2. QED
      BY <1>6, <1>7, <2>1 DEF OtherToggles, clientVars, viewVars
<1>8. CASE ServerHears
  <2>1. UNCHANGED <<room, fresh, phase, link, used, known>>
      BY <1>8 DEF ServerHears, clientVars, viewVars
  <2>2. CASE phase = "registered"
    <3>1. Head(up) \in BOOLEAN /\ link \in Id
        BY <1>0, <1>8, <2>2, TakenOff, Connected DEF ServerHears, WireTypes
    <3>2. QED
        BY <1>6, <1>8, <2>1, <2>2, <3>1 DEF ServerHears
  <2>3. CASE phase # "registered"
    <3>1. UNCHANGED <<muted, down>>
        BY <1>8, <2>3 DEF ServerHears
    <3>2. PICK copy \in [0 .. Len(down) -> SUBSET Entry] : Replay(copy)
        BY DEF ClientInv, CopyCatchesUp
    <3>3. PICK last : last = copy[Len(down)]
        OBVIOUS
    <3>4. UpToDate(last)
        BY <3>2, <3>3 DEF Replay
    <3>5. UpToDate(last)'
        BY <2>1, <3>1, <3>4 DEF UpToDate
    <3>6. QED
        BY <1>k, <2>1, <3>1, <3>2, <3>3, <3>5, CopyStays
  <2>4. QED
      BY <2>2, <2>3
<1>9. CASE Connect
    BY <1>9, CopyIsKept DEF Connect, clientVars, viewVars
<1>10. CASE Break
  <2>1. PICK n \in 0 .. Len(down) : Cuts(n)
      BY <1>10, BreakCuts
  <2>2. fresh' \subseteq fresh \cup {used} /\ UNCHANGED <<known, used>>
      BY <1>0, <1>10 DEF Break, clientVars, viewVars, WireTypes
  <2>3. Earlier \ fresh \subseteq (Earlier \ fresh)'
      BY <1>0, <2>2 DEF Earlier
  <2>4. QED
      BY <2>1, <2>2, <2>3, CopyIsCut
<1>11. CASE Receive /\ ~HandleConnectionFailed
    BY <1>11, HandlersTakeEffect, CopyHears
<1>12. CASE HandleConnectionFailed \/ LeavePage
  <2>1. Closes /\ UNCHANGED <<fresh, known>>
      BY <1>12 DEF HandleConnectionFailed, LeavePage, Cleanup, Closes
  <2>2. QED
      BY <2>1, CopyIsKept
<1>13. CASE FactoryReady \/ GrantMedia \/ Toggle \/ UNCHANGED vars
  <2>1. UNCHANGED <<room, muted, fresh, phase, link, used, down, known>>
      BY <1>13 DEF FactoryReady, GrantMedia, Toggle, vars, clientVars, serverVars,
         wireVars, viewVars
  <2>2. PICK copy \in [0 .. Len(down) -> SUBSET Entry] : Replay(copy)
      BY DEF ClientInv, CopyCatchesUp
  <2>3. PICK last : last = copy[Len(down)]
      OBVIOUS
  <2>4. UpToDate(last)
      BY <2>2, <2>3 DEF Replay
  <2>5. UpToDate(last)'
      BY <2>1, <2>4 DEF UpToDate
  <2>6. QED
      BY <1>k, <2>1, <2>2, <2>3, <2>5, CopyStays
<1>14. QED
    BY <1>1, <1>2, <1>3, <1>4, <1>5, <1>7, <1>8, <1>9, <1>10, <1>11, <1>12, <1>13
       DEF Next, Server, Page

-----------------------------------------------------------------------------
(***************************************************************************)
(* What is on the way                                                      *)
(***************************************************************************)

LEMMA WireGains ==
  ASSUME ClientInv, NEW e \in Message, down' = Append(down, e)
  PROVE  OnWire' = OnWire \cup {e}
<1>1. /\ DOMAIN down = 1 .. Len(down) /\ DOMAIN down' = 1 .. Len(down) + 1
      /\ Len(down) \in Nat /\ down'[Len(down) + 1] = e
      /\ \A i \in 1 .. Len(down) : down'[i] = down[i]
  <2>1. down \in Seq(Message)
      BY DEF ClientInv, ClientTypes, WireTypes
  <2>2. QED
      BY <2>1, Appended
<1>2. ASSUME NEW x \in OnWire' PROVE x \in OnWire \cup {e}
  <2>1. PICK i \in 1 .. Len(down) + 1 : x = down'[i]
      BY <1>1, <1>2 DEF OnWire
  <2>2. CASE i = Len(down) + 1
      BY <1>1, <2>1, <2>2
  <2>3. CASE i # Len(down) + 1
      BY <1>1, <2>1, <2>3 DEF OnWire
  <2>4. QED
      BY <2>2, <2>3
<1>3. ASSUME NEW x \in OnWire PROVE x \in OnWire'
  <2>1. PICK i \in 1 .. Len(down) : x = down[i]
      BY <1>1, <1>3 DEF OnWire
  <2>2. i \in DOMAIN down' /\ x = down'[i]
      BY <1>1, <2>1
  <2>3. QED
      BY <2>2 DEF OnWire
<1>4. e \in OnWire'
  <2>1. Len(down) + 1 \in DOMAIN down' /\ e = down'[Len(down) + 1]
      BY <1>1
  <2>2. QED
      BY <2>1 DEF OnWire
<1>5. QED
    BY <1>2, <1>3, <1>4

LEMMA WireIsTaken ==
  ASSUME ClientInv, down # <<>>, down' = Tail(down)
  PROVE  OnWire' \subseteq OnWire /\ OnWire \subseteq OnWire' \cup {Arrived}
         /\ Arrived \in OnWire
<1>1. /\ DOMAIN down = 1 .. Len(down) /\ DOMAIN down' = 1 .. Len(down) - 1
      /\ Len(down) \in Nat /\ down[1] = Arrived /\ 1 \in DOMAIN down
      /\ \A i \in 1 .. Len(down) - 1 : down'[i] = down[i + 1]
  <2>1. down \in Seq(Message)
      BY DEF ClientInv, ClientTypes, WireTypes
  <2>2. QED
      BY <2>1, TakenOff DEF Arrived
<1>2. ASSUME NEW x \in OnWire' PROVE x \in OnWire
  <2>1. PICK i \in 1 .. Len(down) - 1 : x = down'[i]
      BY <1>1, <1>2 DEF OnWire
  <2>2. i + 1 \in DOMAIN down /\ x = down[i + 1]
      BY <1>1, <2>1
  <2>3. QED
      BY <2>2 DEF OnWire
<1>3. ASSUME NEW x \in OnWire PROVE x \in OnWire' \cup {Arrived}
  <2>1. PICK i \in 1 .. Len(down) : x = down[i]
      BY <1>1, <1>3 DEF OnWire
  <2>2. CASE i = 1
      BY <1>1, <2>1, <2>2
  <2>3. CASE i # 1
    <3>1. i - 1 \in DOMAIN down' /\ x = down'[i - 1]
        BY <1>1, <2>1, <2>3
    <3>2. QED
        BY <3>1 DEF OnWire
  <2>4. QED
      BY <2>2, <2>3
<1>4. Arrived \in OnWire
    BY <1>1 DEF OnWire
<1>5. QED
    BY <1>2, <1>3, <1>4

LEMMA WireIsCut ==
  ASSUME ClientInv, NEW n \in 0 .. Len(down), Cuts(n)
  PROVE  \A e \in OnWire' : e \in OnWire \/ e.kind = "disconnect"
<1> DEFINE d == Event("disconnect", 0, FALSE)
           cut == Append(SubSeq(down, 1, n), d)
<1>1. d \in Message /\ d.kind = "disconnect"
    BY Farewell
<1>2. down' = cut
    BY DEF Cuts
<1> HIDE DEF d
<1>3. /\ DOMAIN down = 1 .. Len(down) /\ Len(down) \in Nat
      /\ DOMAIN cut = 1 .. n + 1 /\ cut[n + 1] = d
      /\ \A i \in 1 .. n : cut[i] = down[i]
  <2>1. down \in Seq(Message)
      BY DEF ClientInv, ClientTypes, WireTypes
  <2>2. QED
      BY <1>1, <2>1, CutOff
<1> HIDE DEF cut
<1>4. SUFFICES ASSUME NEW i \in 1 .. n + 1
               PROVE  down'[i] \in OnWire \/ down'[i].kind = "disconnect"
    BY <1>2, <1>3 DEF OnWire
<1>5. CASE i = n + 1
    BY <1>1, <1>2, <1>3, <1>5
<1>6. CASE i # n + 1
  <2>1. down'[i] = down[i] /\ i \in DOMAIN down
      BY <1>2, <1>3, <1>6
  <2>2. QED
      BY <2>1 DEF OnWire
<1>7. QED
    BY <1>5, <1>6

\* What the server's steps put on the way.
LEMMA ServerAdds ==
  ASSUME ClientInv, Server
  PROVE  \/ OnWire' = OnWire
         \/ \E e \in Message :
              /\ OnWire' = OnWire \cup {e}
              /\ e.kind = "init" =>
                   MemberPrepared /\ e = Room({[id |-> id, muted |-> muted[id]] : id \in room'})
              /\ e.kind = "leave" => MemberLeaves(e.id) /\ phase = "registered"
              /\ e.kind = "params" => Offer(e.id)
<1>0. ServerTypes /\ WireTypes
    BY DEF ClientInv, ClientTypes
<1>s. down' = down => OnWire' = OnWire
    BY DEF OnWire
<1>1. CASE SpacePrepared
  <2>1. link \in Id
      BY <1>1, Connected DEF SpacePrepared
  <2>2. PICK kind \in {"success", "failed"} : down' = Append(down, Event(kind, link, FALSE))
      BY <1>1 DEF SpacePrepared
  <2>3. Event(kind, link, FALSE) \in Message /\ Event(kind, link, FALSE).kind = kind
      BY <2>1, Events, Kinds
  <2>4. QED
      BY <2>2, <2>3, WireGains
<1>2. CASE MemberPrepared
  <2>1. link \in Session
      BY <1>2, Connected DEF MemberPrepared
  <2>2. {[id |-> id, muted |-> muted[id]] : id \in room'} \in SUBSET Entry
      BY <1>0, <1>2, <2>1 DEF MemberPrepared, ServerTypes, Entry
  <2>3. PICK view \in SUBSET Entry :
          view = {[id |-> id, muted |-> muted[id]] : id \in room'}
      BY <2>2
  <2>4. Room(view) \in Message /\ Room(view).kind = "init"
      BY <2>1, Snapshots
  <2>5. down' = Append(down, Room(view))
      BY <1>2, <2>3 DEF MemberPrepared
  <2>6. OnWire' = OnWire \cup {Room(view)}
      BY <2>4, <2>5, WireGains
  <2>7. QED
      BY <1>2, <2>3, <2>4, <2>6
<1>3. ASSUME NEW e \in Message, Broadcast(e), e.kind # "init",
             e.kind = "leave" => MemberLeaves(e.id),
             e.kind = "params" => Offer(e.id)
      PROVE  \/ OnWire' = OnWire
             \/ \E x \in Message :
                  /\ OnWire' = OnWire \cup {x} /\ x.kind # "init"
                  /\ x.kind = "leave" => MemberLeaves(x.id) /\ phase = "registered"
                  /\ x.kind = "params" => Offer(x.id)
  <2>1. CASE phase # "registered"
      BY <1>s, <1>3, <2>1 DEF Broadcast
  <2>2. CASE phase = "registered"
    <3>1. OnWire' = OnWire \cup {e}
        BY <1>3, <2>2, WireGains DEF Broadcast
    <3>2. QED
        BY <1>3, <2>2, <3>1
  <2>3. QED
      BY <2>1, <2>2
<1>4. ASSUME NEW id \in Id, MemberJoins(id) \/ MemberLeaves(id) \/ Offer(id)
      PROVE  \E e \in Message : /\ Broadcast(e) /\ e.kind # "init"
                                /\ e.kind = "leave" => MemberLeaves(e.id)
                                /\ e.kind = "params" => Offer(e.id)
  <2>0. muted[id] \in BOOLEAN
      BY <1>0 DEF ServerTypes
  <2>1. CASE MemberJoins(id)
    <3>1. Event("join", id, muted[id]) \in Message /\ Event("join", id, muted[id]).kind = "join"
        BY <2>0, Events, Kinds
    <3>2. QED
        BY <2>1, <3>1 DEF MemberJoins
  <2>2. CASE MemberLeaves(id)
    <3>0. "leave" \in Kind \ {"init", "disconnect"} /\ FALSE \in BOOLEAN
        BY Kinds
    <3>1. /\ Event("leave", id, FALSE) \in Message
          /\ Event("leave", id, FALSE).kind = "leave" /\ Event("leave", id, FALSE).id = id
        BY <3>0, Events
    <3>2. Broadcast(Event("leave", id, FALSE))
        BY <2>2 DEF MemberLeaves
    <3>3. QED
        BY <2>2, <3>1, <3>2
  <2>3. CASE Offer(id)
    <3>0. "params" \in Kind \ {"init", "disconnect"} /\ FALSE \in BOOLEAN
        BY Kinds
    <3>1. /\ Event("params", id, FALSE) \in Message
          /\ Event("params", id, FALSE).kind = "params" /\ Event("params", id, FALSE).id = id
        BY <3>0, Events
    <3>2. Broadcast(Event("params", id, FALSE))
        BY <2>3 DEF Offer
    <3>3. QED
        BY <2>3, <3>1, <3>2
  <2>4. QED
      BY <1>4, <2>1, <2>2, <2>3
<1>5. ASSUME NEW id \in Id, NEW m \in BOOLEAN, UpdateMember(id, m)
      PROVE  \E e \in Message : Broadcast(e) /\ e.kind = "update"
  <2>1. Event("update", id, m) \in Message /\ Event("update", id, m).kind = "update"
      BY Events, Kinds
  <2>2. QED
      BY <1>5, <2>1 DEF UpdateMember
<1>6. CASE \E o \in Other : OtherToggles(o)
  <2>1. PICK o \in Other : UpdateMember(o, ~muted[o])
      BY <1>6 DEF OtherToggles
  <2>2. (~muted[o]) \in BOOLEAN /\ o \in Id
      OBVIOUS
  <2>3. PICK e \in Message : Broadcast(e) /\ e.kind = "update"
      BY <1>5, <2>1, <2>2
  <2>4. QED
      BY <1>3, <2>3
<1>7. CASE ServerHears
  <2>1. CASE phase = "registered"
    <3>1. Head(up) \in BOOLEAN /\ link \in Id
        BY <1>0, <1>7, <2>1, TakenOff, Connected DEF ServerHears, WireTypes
    <3>2. UpdateMember(link, Head(up))
        BY <1>7, <2>1 DEF ServerHears
    <3>3. PICK e \in Message : Broadcast(e) /\ e.kind = "update"
        BY <1>5, <3>1, <3>2
    <3>4. QED
        BY <1>3, <3>3
  <2>2. CASE phase # "registered"
      BY <1>s, <1>7, <2>2 DEF ServerHears
  <2>3. QED
      BY <2>1, <2>2
<1>8. CASE \E id \in Id : MemberJoins(id) \/ MemberLeaves(id) \/ Offer(id)
    BY <1>3, <1>4, <1>8
<1>9. QED
    BY <1>1, <1>2, <1>6, <1>7, <1>8 DEF Server

\* No other step puts an event there, but the two ends of a connection.
LEMMA OthersAddNothing ==
  ASSUME ClientInv, Connect \/ Break \/ Receive \/ Page \/ UNCHANGED vars
  PROVE  /\ \A e \in OnWire' : e \in OnWire \/ e.kind \in {"connect", "disconnect"}
         /\ Connect => OnWire = {}
<1>0. down \in Seq(Message)
    BY DEF ClientInv, ClientTypes, WireTypes
<1>1. CASE Connect
  <2> DEFINE e == Event("connect", used + 1, FALSE)
  <2>1. down' = <<e>> /\ e.kind = "connect" /\ down = <<>>
      BY <1>1 DEF Connect, Event
  <2> HIDE DEF e
  <2>2. OnWire' = {e} /\ OnWire = {}
      BY <2>1 DEF OnWire
  <2>3. QED
      BY <2>1, <2>2
<1>2. CASE Break
  <2>1. link # 0
      BY <1>2 DEF Break
  <2>2. ~Connect
      BY <2>1 DEF Connect
  <2>3. QED
      BY <1>2, <2>2, BreakCuts, WireIsCut
<1>3. CASE Receive /\ ~HandleConnectionFailed
  <2>1. down # <<>> /\ down' = Tail(down)
      BY <1>3, HandlersTakeEffect
  <2>2. ~Connect
      BY <2>1 DEF Connect
  <2>3. QED
      BY <2>1, <2>2, WireIsTaken
<1>4. CASE HandleConnectionFailed \/ LeavePage
  <2>1. down' = <<>>
      BY <1>4 DEF HandleConnectionFailed, LeavePage, Cleanup
  <2>2. OnWire' = {}
      BY <2>1 DEF OnWire
  <2>3. Connect => OnWire = {}
      BY DEF Connect, OnWire
  <2>4. QED
      BY <2>2, <2>3
<1>5. CASE FactoryReady \/ GrantMedia \/ Toggle \/ UNCHANGED vars
  <2>1. down' = down
      BY <1>5 DEF FactoryReady, GrantMedia, Toggle, vars, wireVars
  <2>2. Connect => OnWire = {}
      BY DEF Connect, OnWire
  <2>3. QED
      BY <2>1, <2>2 DEF OnWire
<1>6. QED
    BY <1>1, <1>2, <1>3, <1>4, <1>5 DEF Page

\* A number that has a property is preceded by a first one.
LEMMA FirstOf ==
  ASSUME NEW S \in SUBSET Nat, S # {}
  PROVE  \E i \in S : \A j \in S : i <= j
<1>1. PICK i \in S : \A j \in S : <<j, i>> \notin OpToRel(<, Nat)
    BY WFMin, NatLessThanWellFounded
<1>2. \A j \in S : ~ (j < i)
    BY <1>1 DEF OpToRel
<1>3. QED
    BY <1>2

\* After the snapshot there is no other, and the connection is up or gone.
LEMMA NoSecondSnapshot ==
  ASSUME ClientInv, down # <<>>, After(Arrived.kind) = "registered"
  PROVE  /\ phase \in {"registered", "closed"}
         /\ down' = Tail(down) => \A e \in OnWire' : e.kind # "init"
<1> DEFINE Late == {"join", "leave", "update", "params", "disconnect"}
           Odd == {i \in 2 .. Len(down) : down[i].kind \notin Late}
<1>0. /\ DOMAIN down = 1 .. Len(down) /\ Len(down) \in Nat /\ Len(down) > 0
      /\ down[1] = Arrived
      /\ \A i \in 1 .. Len(down) : down[i] \in Message
      /\ down' = Tail(down) =>
           /\ DOMAIN down' = 1 .. Len(down) - 1
           /\ \A i \in 1 .. Len(down) - 1 : down'[i] = down[i + 1]
  <2>1. down \in Seq(Message)
      BY DEF ClientInv, ClientTypes, WireTypes
  <2>2. QED
      BY <2>1, TakenOff, Element DEF Arrived
<1>1. Odd = {}
  <2>1. SUFFICES ASSUME Odd # {} PROVE FALSE
      OBVIOUS
  <2>2. Odd \in SUBSET Nat
      OBVIOUS
  <2>3. PICK i \in Odd : \A j \in Odd : i <= j
      BY <2>1, <2>2, FirstOf
  <2>4. /\ i \in 2 .. Len(down) /\ down[i].kind \notin Late
        /\ Before(i) = After(down[i - 1].kind)
      BY <2>3 DEF Before
  <2>5. down[i - 1].kind \in Late \/ i - 1 = 1
      BY <2>3, <2>4
  <2>6. /\ Fits(down[i].kind, Before(i)) /\ i - 1 # Len(down)
        /\ down[i - 1].kind = "disconnect" => i - 1 = Len(down)
      BY <1>0, <2>4 DEF ClientInv, WireInOrder
  <2>7. After(down[i - 1].kind) = "registered"
      BY <1>0, <2>5, <2>6 DEF After
  <2>8. down[i].kind \in Kind
      BY <1>0, <2>4, Messages
  <2>9. QED
      BY <2>4, <2>6, <2>7, <2>8 DEF Fits, Kind
<1>2. phase \in {"registered", "closed"}
  <2>1. phase = After(down[Len(down)].kind)
      BY DEF ClientInv, WireInOrder, Reached
  <2>2. CASE Len(down) = 1
      BY <1>0, <2>1, <2>2
  <2>3. CASE Len(down) # 1
    <3>1. down[Len(down)].kind \in Late
        BY <1>0, <1>1, <2>3
    <3>2. QED
        BY <2>1, <3>1 DEF After
  <2>4. QED
      BY <2>2, <2>3
<1>3. ASSUME down' = Tail(down), NEW e \in OnWire' PROVE e.kind # "init"
  <2>1. PICK i \in 1 .. Len(down) - 1 : e = down'[i]
      BY <1>0, <1>3 DEF OnWire
  <2>2. e = down[i + 1] /\ i + 1 \in 2 .. Len(down)
      BY <1>0, <1>3, <2>1
  <2>3. QED
      BY <1>1, <2>2
<1>4. QED
    BY <1>2, <1>3

\* When the server has the client in the space and the browser does not know,
\* the snapshot is on the way.
LEMMA SnapshotIsOnTheWay ==
  ASSUME ClientInv, phase = "registered", Heard # "registered"
  PROVE  \E e \in OnWire : e.kind = "init"
<1> DEFINE In == {i \in 1 .. Len(down) : After(down[i].kind) = "registered"}
<1>0. DOMAIN down = 1 .. Len(down) /\ Len(down) \in Nat
    BY DEF ClientInv, ClientTypes, WireTypes
<1>1. down # <<>> /\ After(down[Len(down)].kind) = "registered"
    BY DEF ClientInv, WireInOrder, Reached
<1>2. In # {} /\ In \in SUBSET Nat
  <2>1. Len(down) \in 1 .. Len(down)
    <3>1. down \in Seq(Message)
        BY DEF ClientInv, ClientTypes, WireTypes
    <3>2. QED
        BY <1>1, <3>1, TakenOff
  <2>2. QED
      BY <1>1, <2>1
<1>3. PICK i \in In : \A j \in In : i <= j
    BY <1>2, FirstOf
<1>4. Before(i) # "registered"
  <2>1. CASE i = 1
      BY <2>1 DEF Before
  <2>2. CASE i # 1
    <3>1. i - 1 \in 1 .. Len(down) /\ ~ (i <= i - 1)
        BY <1>0, <1>3, <2>2
    <3>2. QED
        BY <1>3, <2>2, <3>1 DEF Before
  <2>3. QED
      BY <2>1, <2>2
<1>5. i \in DOMAIN down /\ Fits(down[i].kind, Before(i))
    BY <1>0, <1>3 DEF ClientInv, WireInOrder
<1>6. down[i].kind = "init"
    BY <1>3, <1>4, <1>5 DEF Fits, After
<1>7. QED
    BY <1>5, <1>6 DEF OnWire

-----------------------------------------------------------------------------
(***************************************************************************)
(* The mute button                                                         *)
(***************************************************************************)

\* What is seen stays seen.
LEMMA SeenStaysSeen ==
  ASSUME ClientInv, [Next]_vars, Unseen'
  PROVE  Unseen
<1>0. used \in Nat
    BY DEF ClientInv, ClientTypes, WireTypes
<1>1. CASE Server
  <2>1. /\ used' = used
        /\ phase' # phase => phase \in {"opened", "prepared"}
        /\ MemberPrepared => phase = "prepared"
      BY <1>1 DEF Server, SpacePrepared, MemberPrepared, MemberJoins, MemberLeaves,
         OtherToggles, ServerHears, Offer
  <2>2. ASSUME NEW e \in OnWire', e.kind = "init" PROVE e \in OnWire \/ MemberPrepared
      BY <1>1, <2>2, ServerAdds
  <2>3. QED
      BY <2>1, <2>2 DEF Unseen
<1>2. CASE Connect
    BY <1>0, <1>2 DEF Connect, Unseen
<1>3. CASE Break \/ Receive \/ Page \/ UNCHANGED vars
  <2>1. used' = used /\ phase' \in {phase, "closed"}
      BY <1>3, BrowserSteps DEF Break, vars, wireVars, serverVars
  <2>2. \A e \in OnWire' : e.kind = "init" => e \in OnWire
      BY <1>3, OthersAddNothing
  <2>3. QED
      BY <2>1, <2>2 DEF Unseen
<1>4. QED
    BY <1>1, <1>2, <1>3 DEF Next

\* The client is in the snapshot, as it joined.
LEMMA SnapshotsHaveSelf ==
  ASSUME ClientInv, [Next]_vars, NEW e \in OnWire', e.kind = "init"
  PROVE  /\ \E x \in e.view : x.id = used'
         /\ \A x \in e.view : x.id = used' => ~x.muted
<1>1. CASE e \in OnWire
  <2>1. used' = used
    <3>1. ~Connect
        BY <1>1, OthersAddNothing
    <3>2. QED
        BY <3>1, BrowserSteps DEF Next, Server, SpacePrepared, MemberPrepared, MemberJoins,
           MemberLeaves, OtherToggles, ServerHears, Offer, Break, vars, wireVars
  <2>2. QED
      BY <1>1, <2>1 DEF ClientInv, PressesArrive
<1>2. CASE e \notin OnWire
  <2>1. Server
      BY <1>2, OthersAddNothing DEF Next
  <2>2. /\ MemberPrepared
        /\ e = Room({[id |-> id, muted |-> muted[id]] : id \in room'})
      BY <1>2, <2>1, ServerAdds
  <2>3. /\ phase = "prepared" /\ link = used /\ used \in room' /\ used' = used
      BY <2>2, Connected DEF MemberPrepared
  <2>4. ~muted[used]
      BY <2>3 DEF ClientInv, RoomInOrder
  <2>5. e.view = {[id |-> id, muted |-> muted[id]] : id \in room'}
      BY <2>2 DEF Room
  <2>6. [id |-> used, muted |-> muted[used]] \in e.view
      BY <2>3, <2>5
  <2>7. \A x \in e.view : x.muted = muted[x.id]
      BY <2>5
  <2>8. QED
      BY <2>3, <2>4, <2>6, <2>7
<1>3. QED
    BY <1>1, <1>2

\* The handlers of what happens in the space run once the snapshot is there.
LEMMA SpaceIsSeen ==
  ASSUME ClientInv,
         \/ HandleSpaceInit \/ HandleMemberJoin \/ HandleMemberLeave
         \/ HandleMemberStateUpdate \/ HandleTransportParams
  PROVE  ~Unseen'
<1>1. /\ down # <<>> /\ down' = Tail(down) /\ UNCHANGED <<used, phase>>
      /\ Arrived.kind \in {"init", "join", "leave", "update", "params"}
    BY DEF HandleSpaceInit, HandleMemberJoin, HandleMemberLeave, HandleMemberStateUpdate,
       HandleTransportParams, Takes, serverVars
<1>2. After(Arrived.kind) = "registered" /\ used \in Session
    BY <1>1, Arrives DEF After
<1>3. phase' \in {"registered", "closed"} /\ used' # 0
    BY <1>1, <1>2, NoSecondSnapshot
<1>4. \A e \in OnWire' : e.kind # "init"
    BY <1>1, <1>2, NoSecondSnapshot
<1>5. QED
    BY <1>3, <1>4 DEF Unseen

\* Before the first snapshot there is nothing to press.
LEMMA BlankUntilSeen ==
  ASSUME ClientInv, [Next]_vars, Unseen'
  PROVE  /\ ~shown' /\ ~selfMuted' /\ track' \in {"none", "granted"}
         /\ up' = <<>> /\ buffer' = <<>>
<1>1. /\ ~shown /\ ~selfMuted /\ track \in {"none", "granted"}
      /\ up = <<>> /\ buffer = <<>>
    BY SeenStaysSeen DEF ClientInv, PressesArrive
<1>2. CASE Server \/ Connect \/ Break
  <2>1. UNCHANGED clientVars /\ buffer' = buffer /\ up' \in {up, <<>>}
      BY <1>1, <1>2 DEF Server, SpacePrepared, MemberPrepared, MemberJoins, MemberLeaves,
         OtherToggles, ServerHears, Offer, Connect, Break
  <2>2. QED
      BY <1>1, <2>1 DEF clientVars, viewVars, pageVars
<1>3. CASE HandleConnect
  <2>1. <<>> \o <<>> = <<>>
      OBVIOUS
  <2>2. QED
      BY <1>1, <1>3, <2>1 DEF HandleConnect, viewVars, pageVars
<1>4. CASE HandleConnectionSuccessful \/ HandleDisconnect
    BY <1>1, <1>4 DEF HandleConnectionSuccessful, HandleDisconnect, viewVars, pageVars
<1>5. CASE HandleConnectionFailed \/ LeavePage
    BY <1>1, <1>5 DEF HandleConnectionFailed, LeavePage, Cleanup, pageVars
<1>6. CASE \/ HandleSpaceInit \/ HandleMemberJoin \/ HandleMemberLeave
           \/ HandleMemberStateUpdate \/ HandleTransportParams
    BY <1>6, SpaceIsSeen
<1>7. CASE FactoryReady \/ GrantMedia
    BY <1>1, <1>7 DEF FactoryReady, GrantMedia, wireVars, viewVars, pageVars
<1>8. CASE Toggle
    BY <1>1, <1>8 DEF Toggle
<1>9. CASE UNCHANGED vars
    BY <1>1, <1>9 DEF vars, wireVars, clientVars, viewVars, pageVars
<1>10. QED
    BY <1>2, <1>3, <1>4, <1>5, <1>6, <1>7, <1>8, <1>9 DEF Next, Receive, Page

\* On the first connection the last press is never lost.
LEMMA LastStaysWritten ==
  ASSUME ClientInv, [Next]_vars, used' = 1, phase' = "registered"
  PROVE  LastIsWritten'
<1>0. /\ ServerTypes /\ WireTypes /\ ViewTypes /\ RoomInOrder /\ used \in Nat
    BY DEF ClientInv, ClientTypes, WireTypes
<1>u. Unseen => /\ ~shown /\ ~selfMuted /\ up = <<>> /\ buffer = <<>>
    BY DEF ClientInv, PressesArrive
<1>l. used = 1 /\ phase = "registered" => LastIsWritten
    BY DEF ClientInv, PressesArrive
<1>a. ASSUME UNCHANGED <<up, selfMuted, used, phase>>, used # 0 => muted'[used] = muted[used]
      PROVE  LastIsWritten'
    BY <1>a, <1>l DEF LastIsWritten
<1>1. CASE MemberPrepared
  <2>1. /\ phase = "prepared" /\ UNCHANGED <<muted, used, up, selfMuted>>
      BY <1>1 DEF MemberPrepared, clientVars, viewVars
  <2>2. Unseen /\ ~muted[used]
      BY <1>0, <2>1 DEF Unseen, RoomInOrder
  <2>3. ~selfMuted /\ up = <<>>
      BY <1>u, <2>2
  <2>4. muted[used] = FALSE /\ selfMuted = FALSE
    <3>1. muted[used] \in BOOLEAN /\ selfMuted \in BOOLEAN
        BY <1>0, <2>1 DEF ServerTypes, ViewTypes
    <3>2. QED
        BY <2>2, <2>3, <3>1
  <2>5. QED
      BY <2>1, <2>3, <2>4 DEF LastIsWritten
<1>2. CASE ServerHears
  <2>1. /\ up # <<>> /\ up' = Tail(up) /\ UNCHANGED <<used, phase, selfMuted>>
        /\ link = used /\ used \in Session
      BY <1>2, Connected DEF ServerHears, clientVars, viewVars
  <2>2. muted'[used] = Head(up)
      BY <1>0, <1>2, <2>1 DEF ServerHears, UpdateMember, ServerTypes
  <2>3. up[Len(up)] = selfMuted
      BY <1>l, <2>1 DEF LastIsWritten
  <2>4. /\ Len(up) \in Nat /\ Len(up) > 0 /\ up[1] = Head(up)
        /\ Len(up') = Len(up) - 1
        /\ \A i \in 1 .. Len(up) - 1 : up'[i] = up[i + 1]
        /\ up' \in Seq(BOOLEAN)
    <3>1. up \in Seq(BOOLEAN)
        BY <1>0 DEF WireTypes
    <3>2. QED
        BY <2>1, <3>1, TakenOff
  <2>5. CASE up' = <<>>
    <3>1. Len(up) = 1
        BY <2>4, <2>5
    <3>2. QED
        BY <2>1, <2>2, <2>3, <2>4, <2>5, <3>1 DEF LastIsWritten
  <2>6. CASE up' # <<>>
    <3>1. Len(up') \in 1 .. Len(up) - 1 /\ Len(up') + 1 = Len(up)
      <4>1. Len(up') # 0
          BY <2>4, <2>6
      <4>2. QED
          BY <2>4, <4>1
    <3>2. up'[Len(up')] = up[Len(up)]
        BY <2>4, <3>1
    <3>3. QED
        BY <2>1, <2>3, <2>6, <3>2 DEF LastIsWritten
  <2>7. QED
      BY <2>5, <2>6
<1>3. ASSUME NEW o \in Other, OtherToggles(o)
      PROVE  LastIsWritten'
  <2>1. UNCHANGED <<up, selfMuted, used, phase>> /\ muted' = [muted EXCEPT ![o] = ~muted[o]]
      BY <1>3 DEF OtherToggles, UpdateMember, clientVars, viewVars
  <2>2. used # o
      BY <1>0
  <2>3. used # 0 => muted'[used] = muted[used]
    <3>1. used # 0 => used \in Id
        BY Connected
    <3>2. QED
        BY <1>0, <2>1, <2>2, <3>1 DEF ServerTypes
  <2>4. QED
      BY <1>a, <2>1, <2>3
<1>4. CASE SpacePrepared \/ Connect \/ Break \/ HandleConnectionFailed \/ LeavePage
    BY <1>4 DEF SpacePrepared, Connect, Break, HandleConnectionFailed, LeavePage, Cleanup
<1>5. CASE \E id \in Id : MemberJoins(id) \/ MemberLeaves(id) \/ Offer(id)
  <2>1. UNCHANGED <<up, selfMuted, used, phase, muted>>
      BY <1>5 DEF MemberJoins, MemberLeaves, Offer, clientVars, viewVars
  <2>2. QED
      BY <1>a, <2>1
<1>6. CASE HandleConnect
  <2>1. /\ down # <<>> /\ Arrived.kind = "connect" /\ UNCHANGED <<used, phase, muted, selfMuted>>
        /\ up' = up \o buffer
      BY <1>6 DEF HandleConnect, Takes, serverVars, viewVars
  <2>2. Heard # "registered"
      BY <2>1, Arrives DEF Fits
  <2>3. Unseen
      BY <2>1, <2>2, SnapshotIsOnTheWay DEF Unseen
  <2>4. <<>> \o <<>> = <<>>
      OBVIOUS
  <2>5. up' = up
      BY <1>u, <2>1, <2>3, <2>4
  <2>6. QED
      BY <1>a, <2>1, <2>5
<1>7. CASE HandleSpaceInit
  <2>1. /\ down # <<>> /\ down' = Tail(down) /\ Arrived.kind = "init"
        /\ UNCHANGED <<used, phase, muted, up>>
      BY <1>7 DEF HandleSpaceInit, Takes, serverVars
  <2>2. Arrived \in OnWire /\ Arrived.id = used
      BY <2>1, WireIsTaken, Arrives
  <2>3. Unseen /\ \A x \in Arrived.view : x.id = used => ~x.muted
      BY <2>1, <2>2 DEF Unseen, ClientInv, PressesArrive
  <2>4. ~selfMuted /\ up = <<>> /\ LastIsWritten
      BY <1>u, <1>l, <2>1, <2>3
  <2>5. selfMuted' = selfMuted
    <3>1. CASE initReceived
        BY <1>7, <3>1 DEF HandleSpaceInit, viewVars
    <3>2. CASE ~initReceived
      <4>1. PICK e \in Arrived.view : e.id = Arrived.id /\ selfMuted' = e.muted
          BY <1>7, <3>2 DEF HandleSpaceInit
      <4>2. e \in Entry
          BY <2>1, Arrives, Messages
      <4>3. QED
          BY <1>0, <2>2, <2>3, <2>4, <4>1, <4>2 DEF Entry, ViewTypes
    <3>3. QED
        BY <3>1, <3>2
  <2>6. QED
      BY <1>a, <2>1, <2>5
<1>8. CASE \/ HandleConnectionSuccessful \/ HandleDisconnect \/ HandleMemberJoin
           \/ HandleMemberLeave \/ HandleMemberStateUpdate \/ HandleTransportParams
  <2>1. UNCHANGED <<up, selfMuted, used, phase, muted>>
      BY <1>8 DEF HandleConnectionSuccessful, HandleDisconnect, HandleMemberJoin,
         HandleMemberLeave, HandleMemberStateUpdate, HandleTransportParams, serverVars, viewVars
  <2>2. QED
      BY <1>a, <2>1
<1>9. CASE FactoryReady \/ GrantMedia \/ UNCHANGED vars
  <2>1. UNCHANGED <<up, selfMuted, used, phase, muted>>
      BY <1>9 DEF FactoryReady, GrantMedia, vars, wireVars, serverVars, clientVars, viewVars
  <2>2. QED
      BY <1>a, <2>1
<1>10. CASE Toggle
  <2>1. /\ shown /\ selfMuted' = ~selfMuted /\ Emit(~selfMuted)
        /\ UNCHANGED <<used, phase, link>>
      BY <1>10 DEF Toggle, serverVars
  <2>2. ~Unseen /\ link # 0
      BY <1>u, <2>1, Connected
  <2>3. Heard = "registered"
      BY <2>1, <2>2, SnapshotIsOnTheWay DEF Unseen
  <2>4. status # "disconnected"
      BY <2>3 DEF Heard
  <2>5. up' = Append(up, ~selfMuted)
      BY <2>1, <2>2, <2>4 DEF Emit
  <2>6. (~selfMuted) \in BOOLEAN /\ up \in Seq(BOOLEAN)
      BY <1>0 DEF WireTypes
  <2>7. /\ up' # <<>> /\ Len(up') = Len(up) + 1
        /\ up'[Len(up) + 1] = (~selfMuted)
      BY <2>5, <2>6, Appended
  <2>8. QED
      BY <2>1, <2>7 DEF LastIsWritten
<1>11. QED
    BY <1>1, <1>2, <1>3, <1>4, <1>5, <1>6, <1>7, <1>8, <1>9, <1>10
       DEF Next, Server, Receive, Page

\* What the button shows is what the microphone does.
LEMMA ButtonStep ==
  ASSUME ClientInv, [Next]_vars, used' = 1, initReceived'
  PROVE  (track' = "on" => ~selfMuted') /\ (track' = "off" => selfMuted')
<1>0. used \in Nat
    BY DEF ClientInv, ClientTypes, WireTypes
<1>b. /\ used = 1 /\ initReceived =>
           (track = "on" => ~selfMuted) /\ (track = "off" => selfMuted)
      /\ Unseen => track \in {"none", "granted"}
    BY DEF ClientInv, PressesArrive
<1>1. CASE Toggle
  <2>1. /\ selfMuted' = ~selfMuted
        /\ track' = IF track = "none" THEN "none" ELSE IF selfMuted THEN "on" ELSE "off"
      BY <1>1 DEF Toggle
  <2>2. CASE selfMuted
      BY <2>1, <2>2
  <2>3. CASE ~selfMuted
      BY <2>1, <2>3
  <2>4. QED
      BY <2>2, <2>3
<1>2. CASE GrantMedia
    BY <1>2 DEF GrantMedia
<1>3. CASE HandleSpaceInit
  <2>1. /\ down # <<>> /\ down' = Tail(down) /\ Arrived.kind = "init"
        /\ UNCHANGED <<used, track>>
      BY <1>3 DEF HandleSpaceInit, Takes
  <2>2. Unseen
      BY <2>1, WireIsTaken DEF Unseen
  <2>3. QED
      BY <1>b, <2>1, <2>2
<1>4. CASE Connect
    BY <1>0, <1>4, <1>b DEF Connect, Unseen, clientVars, pageVars
<1>5. CASE HandleConnectionFailed \/ LeavePage
    BY <1>5 DEF HandleConnectionFailed, LeavePage, Cleanup
<1>6. CASE Server \/ Break \/ FactoryReady \/ UNCHANGED vars
  <2>1. UNCHANGED <<used, initReceived, track, selfMuted>>
      BY <1>6 DEF Server, SpacePrepared, MemberPrepared, MemberJoins, MemberLeaves,
         OtherToggles, ServerHears, Offer, Break, FactoryReady, vars, wireVars, clientVars,
         viewVars, pageVars
  <2>2. QED
      BY <1>b, <2>1
<1>7. CASE \/ HandleConnect \/ HandleConnectionSuccessful \/ HandleDisconnect
           \/ HandleMemberJoin \/ HandleMemberLeave \/ HandleMemberStateUpdate
           \/ HandleTransportParams
  <2>1. UNCHANGED <<used, track, selfMuted>> /\ (initReceived' => initReceived)
      BY <1>7 DEF HandleConnect, HandleConnectionSuccessful, HandleDisconnect,
         HandleMemberJoin, HandleMemberLeave, HandleMemberStateUpdate,
         HandleTransportParams, viewVars, pageVars
  <2>2. QED
      BY <1>b, <2>1
<1>8. QED
    BY <1>1, <1>2, <1>3, <1>4, <1>5, <1>6, <1>7 DEF Next, Receive, Page

LEMMA PressStep ==
  ASSUME ClientInv, [Next]_vars
  PROVE  PressesArrive'
<1>1. ASSUME NEW e \in OnWire', e.kind = "init"
      PROVE  /\ \E x \in e.view : x.id = used'
             /\ \A x \in e.view : x.id = used' => ~x.muted
    BY <1>1, SnapshotsHaveSelf
<1>2. QED
    BY <1>1, BlankUntilSeen, LastStaysWritten, ButtonStep DEF PressesArrive

-----------------------------------------------------------------------------
(***************************************************************************)
(* Offers                                                                  *)
(***************************************************************************)

\* Only members have offers, and a new connection starts without.
LEMMA OfferedAreInRoom ==
  ASSUME ClientInv, [Next]_vars
  PROVE  /\ (offered \subseteq room)'
         /\ (phase \in {"opened", "prepared", "refused"} => offered = {})'
<1>0. /\ offered \subseteq room
      /\ phase \in {"opened", "prepared", "refused"} => offered = {}
    BY DEF ClientInv, OffersArrive
<1>1. CASE Server
    BY <1>0, <1>1 DEF Server, SpacePrepared, MemberPrepared, MemberJoins, MemberLeaves,
       OtherToggles, ServerHears, Offer
<1>2. CASE Connect \/ Break
    BY <1>0, <1>2 DEF Connect, Break
<1>3. CASE Receive \/ Page
    BY <1>0, <1>3, BrowserSteps
<1>4. CASE UNCHANGED vars
    BY <1>0, <1>4 DEF vars, serverVars
<1>5. QED
    BY <1>1, <1>2, <1>3, <1>4 DEF Next

\* A departure on the way is nobody's who is there, or is to come.
LEMMA DeparturesAreFinal ==
  ASSUME ClientInv, [Next]_vars, NEW e \in OnWire', e.kind = "leave"
  PROVE  (e.id \notin room \cup fresh \cup {used})'
<1>0. /\ RoomInOrder
      /\ \A x \in OnWire : x.kind = "leave" => x.id \notin room \cup fresh \cup {used}
      /\ link \in {0, used}
    BY DEF ClientInv, OffersArrive, ClientTypes, WireTypes
<1>1. CASE e \in OnWire
  <2>1. room' \cup fresh' \cup {used'} \subseteq room \cup fresh \cup {used}
    <3>1. CASE Server
        BY <3>1, Connected DEF Server, SpacePrepared, MemberPrepared, MemberJoins,
           MemberLeaves, OtherToggles, ServerHears, Offer
    <3>2. CASE Break
        BY <1>0, <3>2 DEF Break
    <3>3. CASE Receive \/ Page
        BY <3>3, BrowserSteps
    <3>4. CASE UNCHANGED vars
        BY <3>4 DEF vars, serverVars, wireVars
    <3>5. ~Connect
        BY <1>1, OthersAddNothing
    <3>6. QED
        BY <3>1, <3>2, <3>3, <3>4, <3>5 DEF Next
  <2>2. QED
      BY <1>0, <1>1, <2>1
<1>2. CASE e \notin OnWire
  <2>1. Server
      BY <1>2, OthersAddNothing DEF Next
  <2>2. MemberLeaves(e.id) /\ phase = "registered"
      BY <1>2, <2>1, ServerAdds
  <2>3. /\ e.id \in room /\ e.id # link /\ room' = room \ {e.id}
        /\ UNCHANGED <<fresh, used>> /\ link = used
      BY <2>2, Connected DEF MemberLeaves
  <2>4. QED
      BY <1>0, <2>3 DEF RoomInOrder
<1>3. QED
    BY <1>1, <1>2

\* Handlers wait in the order of their connections.
LEMMA HandlersInOrder ==
  ASSUME ClientInv, [Next]_vars
  PROVE  /\ (\A i, j \in DOMAIN deferred : i < j => deferred[i].session <= deferred[j].session)'
         /\ (\A i \in DOMAIN deferred : deferred[i].session <= used)'
<1>0. /\ \A i, j \in DOMAIN deferred : i < j => deferred[i].session <= deferred[j].session
      /\ \A i \in DOMAIN deferred : deferred[i].session <= used
      /\ deferred \in Seq([id : Id \cup {Self}, session : Session])
      /\ used \in Nat
    BY DEF ClientInv, OffersArrive, ClientTypes, PageTypes, WireTypes
<1>1. CASE deferred' = deferred /\ used' = used
    BY <1>0, <1>1
<1>2. CASE Connect
  <2>1. deferred' = deferred /\ used' = used + 1
      BY <1>2 DEF Connect, clientVars, mediaVars
  <2>2. ASSUME NEW i \in DOMAIN deferred PROVE deferred[i].session <= used + 1
    <3>0. i \in 1 .. Len(deferred)
        BY <1>0
    <3>1. deferred[i] \in [id : Id \cup {Self}, session : Session]
        BY <1>0, <3>0, Element
    <3>2. deferred[i].session \in Nat
        BY <3>1
    <3>3. QED
        BY <1>0, <3>2
  <2>3. QED
      BY <1>0, <2>1, <2>2
<1>3. CASE HandleTransportParams
  <2>1. down # <<>> /\ Arrived.kind = "params" /\ used' = used
      BY <1>3 DEF HandleTransportParams, Takes
  <2>2. \/ deferred' = deferred
        \/ deferred' = Append(deferred, Handler(Arrived.id))
      BY <1>3 DEF HandleTransportParams
  <2>3. CASE deferred' = Append(deferred, Handler(Arrived.id))
    <3>1. Arrived.id \in Id /\ used \in Session
        BY <2>1, Arrives, Messages
    <3>2. /\ Handler(Arrived.id) \in [id : Id \cup {Self}, session : Session]
          /\ Handler(Arrived.id).session = used
        BY <3>1 DEF Handler
    <3>3. /\ DOMAIN deferred = 1 .. Len(deferred) /\ Len(deferred) \in Nat
          /\ DOMAIN deferred' = 1 .. Len(deferred) + 1
          /\ deferred'[Len(deferred) + 1] = Handler(Arrived.id)
          /\ \A i \in 1 .. Len(deferred) : deferred'[i] = deferred[i]
        BY <1>0, <2>3, <3>2, Appended
    <3>4. ASSUME NEW i \in DOMAIN deferred' PROVE deferred'[i].session <= used
      <4>1. CASE i = Len(deferred) + 1
          BY <1>0, <3>2, <3>3, <4>1
      <4>2. CASE i # Len(deferred) + 1
          BY <1>0, <3>3, <4>2
      <4>3. QED
          BY <4>1, <4>2
    <3>5. ASSUME NEW i \in DOMAIN deferred', NEW j \in DOMAIN deferred', i < j
          PROVE  deferred'[i].session <= deferred'[j].session
      <4>1. i \in 1 .. Len(deferred)
          BY <3>3, <3>5
      <4>2. CASE j = Len(deferred) + 1
          BY <3>2, <3>3, <3>4, <4>2
      <4>3. CASE j # Len(deferred) + 1
          BY <1>0, <3>3, <3>5, <4>1, <4>3
      <4>4. QED
          BY <4>2, <4>3
    <3>6. QED
        BY <2>1, <3>4, <3>5
  <2>4. QED
      BY <1>1, <2>1, <2>2, <2>3
<1>4. CASE FactoryReady
  <2>1. used' = used /\ deferred' \in {deferred, <<>>}
      BY <1>4 DEF FactoryReady, wireVars
  <2>2. CASE deferred' = <<>>
      BY <2>2
  <2>3. QED
      BY <1>1, <2>1, <2>2
<1>5. CASE \/ Server \/ Break \/ GrantMedia \/ Toggle \/ LeavePage \/ UNCHANGED vars
           \/ (Receive /\ ~HandleTransportParams)
  <2>1. deferred' = deferred /\ used' = used
      BY <1>5 DEF Server, SpacePrepared, MemberPrepared, MemberJoins, MemberLeaves,
         OtherToggles, ServerHears, Offer, Break, GrantMedia, Toggle, LeavePage, Cleanup,
         Receive, HandleConnect, HandleConnectionSuccessful, HandleConnectionFailed,
         HandleDisconnect, HandleSpaceInit, HandleMemberJoin, HandleMemberLeave,
         HandleMemberStateUpdate, vars, clientVars, wireVars, mediaVars
  <2>2. QED
      BY <1>1, <2>1
<1>6. QED
    BY <1>2, <1>3, <1>4, <1>5 DEF Next, Page

\* An offer is on its way or taken.
Answered(id) == Comes(id) \/ (initReceived /\ Taken(id))

\* What was so stays so while the browser keeps its transports and handlers.
LEMMA AnsweredStays ==
  ASSUME ClientInv, NEW id \in Id, Answered(id),
         \A e \in OnWire : e.kind = "params" => e \in OnWire',
         initReceived => UNCHANGED <<initReceived, selfId, used, isReady, deferred>>
                         /\ transports'[Handler(id).id] = transports[Handler(id).id]
  PROVE  Answered(id)'
<1>1. CASE Comes(id)
  <2>1. PICK e \in OnWire : e.kind = "params" /\ e.id = id
      BY <1>1 DEF Comes
  <2>2. e \in OnWire'
      BY <2>1
  <2>3. QED
      BY <2>1, <2>2 DEF Comes, Answered
<1>2. CASE initReceived /\ Taken(id)
  <2>1. Handler(id)' = Handler(id)
      BY <1>2 DEF Handler
  <2>2. QED
      BY <1>2, <2>1 DEF Taken, Answered
<1>3. QED
    BY <1>1, <1>2 DEF Answered

\* Whom an offer is for is known when it arrives, on the present connection.
LEMMA OfferMeetsMember ==
  ASSUME ClientInv, HandleTransportParams
  PROVE  /\ Arrived.id \in Ids(known) \cup {selfId} /\ Arrived.id \in Id
         /\ initReceived /\ selfId = used /\ used \in Session
<1>1. down # <<>> /\ Arrived.kind = "params"
    BY DEF HandleTransportParams, Takes
<1>2. Heard = "registered"
    BY <1>1, Arrives DEF Fits
<1>3. initReceived /\ selfId = used /\ used \in Session
    BY <1>1, <1>2, Arrives DEF Heard, ClientInv, IdIsCurrent
<1>4. PICK copy \in [0 .. Len(down) -> SUBSET Entry] : Replay(copy)
    BY DEF ClientInv, CopyCatchesUp
<1>5. 1 \in DOMAIN down /\ down[1] = Arrived /\ Arrived \in Message
    BY <1>1, Arrives
<1>6. down[1].id \in Ids(copy[0]) \cup {used} /\ copy[0] = known
    BY <1>1, <1>4, <1>5 DEF Replay
<1>7. QED
    BY <1>1, <1>3, <1>5, <1>6, Messages

\* It is taken: a transport is made, or its handler is kept.
LEMMA OfferIsTaken ==
  ASSUME ClientInv, HandleTransportParams, phase = "registered", ~Stuck',
         NEW id \in offered
  PROVE  Answered(id)'
<1>0. /\ deferred \in Seq([id : Id \cup {Self}, session : Session])
      /\ transports \in [Id \cup {Self} -> 0 .. used] /\ offered \subseteq Id
    BY DEF ClientInv, ClientTypes, PageTypes, ServerTypes
<1>1. /\ Arrived.id \in Ids(known) \cup {selfId} /\ Arrived.id \in Id
      /\ initReceived /\ selfId = used /\ used \in Session
    BY OfferMeetsMember
<1>2. /\ down # <<>> /\ down' = Tail(down) /\ Arrived.kind = "params"
      /\ UNCHANGED <<initReceived, selfId, used, isReady>>
    BY DEF HandleTransportParams, Takes, viewVars
<1>3. OnWire \subseteq OnWire' \cup {Arrived}
    BY <1>2, WireIsTaken
<1>h. /\ \A i \in Id : Handler(i)' = Handler(i)
      /\ \A i \in Id : Handler(i) \in [id : Id \cup {Self}, session : Session]
    BY <1>1, <1>2 DEF Handler
<1>s. ~Stuck
    BY <1>1, <1>2 DEF HandleTransportParams, Stuck
<1>4. Answered(id)
    BY <1>s DEF ClientInv, OffersArrive, Answered
<1>5. CASE isReady
  <2>1. transports' = [transports EXCEPT ![Handler(Arrived.id).id] = used]
      BY <1>1, <1>5 DEF HandleTransportParams
  <2>2. \A i \in Id : Handler(i).id \in Id \cup {Self}
      BY <1>h
  <2>3. \A i \in Id : transports[Handler(i).id] = used => transports'[Handler(i).id] = used
      BY <1>0, <2>1, <2>2
  <2>4. transports'[Handler(Arrived.id).id] = used
      BY <1>0, <1>1, <2>1, <2>2
  <2>5. CASE Comes(id) /\ id # Arrived.id
    <3>1. Comes(id)'
        BY <1>3, <2>5 DEF Comes
    <3>2. QED
        BY <3>1 DEF Answered
  <2>6. CASE id = Arrived.id \/ Taken(id)
    <3>1. transports'[Handler(id).id] = used
        BY <1>0, <1>5, <2>3, <2>4, <2>6 DEF Taken
    <3>2. QED
        BY <1>0, <1>1, <1>2, <1>5, <1>h, <3>1 DEF Taken, Answered
  <2>7. QED
      BY <1>4, <2>5, <2>6 DEF Answered
<1>6. CASE ~isReady
  <2>1. deferred' = Append(deferred, Handler(Arrived.id))
      BY <1>1, <1>6 DEF HandleTransportParams
  <2>2. /\ DOMAIN deferred = 1 .. Len(deferred) /\ Len(deferred) \in Nat
        /\ DOMAIN deferred' = 1 .. Len(deferred) + 1
        /\ deferred'[Len(deferred) + 1] = Handler(Arrived.id)
        /\ \A i \in 1 .. Len(deferred) : deferred'[i] = deferred[i]
      BY <1>0, <1>1, <1>h, <2>1, Appended
  <2>3. CASE Comes(id) /\ id # Arrived.id
    <3>1. Comes(id)'
        BY <1>3, <2>3 DEF Comes
    <3>2. QED
        BY <3>1 DEF Answered
  <2>4. CASE id = Arrived.id
    <3>1. Len(deferred) + 1 \in DOMAIN deferred'
        BY <2>2
    <3>2. QED
        BY <1>1, <1>2, <1>6, <1>h, <2>2, <2>4, <3>1 DEF Taken, Answered
  <2>5. CASE Taken(id)
    <3>1. PICK i \in DOMAIN deferred : deferred[i] = Handler(id)
        BY <1>6, <2>5 DEF Taken
    <3>2. i \in DOMAIN deferred' /\ deferred'[i] = Handler(id)
        BY <2>2, <3>1
    <3>3. QED
        BY <1>0, <1>1, <1>2, <1>6, <1>h, <3>2 DEF Taken, Answered
  <2>6. QED
      BY <1>4, <2>3, <2>4, <2>5 DEF Answered
<1>7. QED
    BY <1>5, <1>6

\* When the factory is ready every handler that waited runs.
LEMMA WaitingAreRun ==
  ASSUME ClientInv, FactoryReady, phase = "registered", ~Stuck', NEW id \in offered
  PROVE  Answered(id)'
<1>0. /\ deferred \in Seq([id : Id \cup {Self}, session : Session])
      /\ used \in Nat /\ id \in Id
    BY DEF ClientInv, ClientTypes, PageTypes, WireTypes, ServerTypes
<1>1. PICK n \in 0 .. Len(deferred) :
        /\ transports' = [i \in Id \cup {Self} |-> LastSession(i, n)]
        /\ deferred' = IF n = Len(deferred) THEN <<>> ELSE deferred
    BY DEF FactoryReady
<1>2. /\ ~isReady /\ isReady' /\ UNCHANGED <<down, used, initReceived, selfId>>
    BY DEF FactoryReady, wireVars, viewVars
<1>3. deferred' = <<>>
    BY <1>2 DEF Stuck
<1>4. n = Len(deferred)
  <2>1. n # Len(deferred) => deferred = <<>>
      BY <1>1, <1>3
  <2>2. deferred = <<>> => Len(deferred) = 0
      BY <1>0
  <2>3. QED
      BY <1>1, <2>1, <2>2
<1>5. Answered(id)
    BY <1>2 DEF ClientInv, OffersArrive, Answered, Stuck
<1>6. CASE Comes(id)
    BY <1>2, <1>6 DEF Comes, OnWire, Answered
<1>7. CASE initReceived /\ Taken(id)
  <2>1. PICK i \in DOMAIN deferred : deferred[i] = Handler(id)
      BY <1>2, <1>7 DEF Taken
  <2>2. i \in 1 .. n /\ Handler(id).session = used
        /\ Handler(id).id \in Id \cup {Self}
      BY <1>0, <1>4, <2>1 DEF Handler
  <2>3. LastSession(Handler(id).id, n) = used
    <3>1. /\ LastSession(Handler(id).id, n) \in 0 .. used
          /\ deferred[i].session <= LastSession(Handler(id).id, n)
        BY <2>1, <2>2, LastSessionIs
    <3>2. deferred[i].session = used
        BY <2>1, <2>2
    <3>3. QED
        BY <1>0, <3>1, <3>2
  <2>4. transports'[Handler(id).id] = used
      BY <1>1, <2>2, <2>3
  <2>5. Handler(id)' = Handler(id)
      BY <1>2 DEF Handler
  <2>6. QED
      BY <1>2, <1>7, <2>4, <2>5 DEF Taken, Answered
<1>8. QED
    BY <1>5, <1>6, <1>7 DEF Answered

LEMMA EveryOfferAnswered ==
  ASSUME ClientInv, [Next]_vars, phase' = "registered", ~Stuck', NEW id \in offered'
  PROVE  Answered(id)'
<1>0. /\ ServerTypes /\ offered \subseteq room
      /\ phase \in {"opened", "prepared", "refused"} => offered = {}
      /\ transports \in [Id \cup {Self} -> 0 .. used]
    BY DEF ClientInv, OffersArrive, ClientTypes, PageTypes
<1>1. CASE Server
  <2>1. UNCHANGED <<initReceived, selfId, used, isReady, deferred, transports>>
      BY <1>1 DEF Server, SpacePrepared, MemberPrepared, MemberJoins, MemberLeaves,
         OtherToggles, ServerHears, Offer, clientVars, viewVars, mediaVars
  <2>2. OnWire \subseteq OnWire'
      BY <1>1, ServerAdds
  <2>3. CASE id \in offered
    <3>1. phase = "registered"
        BY <1>0, <1>1, <2>3 DEF Server, SpacePrepared, MemberPrepared, MemberJoins,
           MemberLeaves, OtherToggles, ServerHears, Offer
    <3>2. Answered(id) /\ id \in Id
        BY <1>0, <2>1, <2>3, <3>1 DEF ClientInv, OffersArrive, Answered, Stuck,
           ServerTypes
    <3>3. QED
        BY <2>1, <2>2, <3>2, AnsweredStays
  <2>4. CASE id \notin offered
    <3>1. PICK i \in Id : Offer(i)
        BY <1>1, <2>4 DEF Server, SpacePrepared, MemberPrepared, MemberJoins, MemberLeaves,
           OtherToggles, ServerHears
    <3>2. i = id /\ down' = Append(down, Event("params", id, FALSE))
        BY <2>4, <3>1 DEF Offer, Broadcast
    <3>3. "params" \in Kind \ {"init", "disconnect"} /\ FALSE \in BOOLEAN
        BY Kinds
    <3>4. /\ Event("params", id, FALSE) \in Message
          /\ Event("params", id, FALSE).kind = "params" /\ Event("params", id, FALSE).id = id
        BY <3>2, <3>3, Events
    <3>5. Event("params", id, FALSE) \in OnWire'
        BY <3>2, <3>4, WireGains
    <3>6. QED
        BY <3>4, <3>5 DEF Comes, Answered
  <2>5. QED
      BY <2>3, <2>4
<1>2. CASE Connect \/ Break \/ HandleConnectionFailed \/ LeavePage
    BY <1>2 DEF Connect, Break, HandleConnectionFailed, LeavePage, Cleanup
<1>3. ASSUME UNCHANGED <<offered, phase>>, ~Stuck
      PROVE  id \in offered /\ id \in Id /\ id \in room /\ Answered(id) /\ phase = "registered"
    BY <1>0, <1>3 DEF ClientInv, OffersArrive, Answered, ServerTypes
<1>t. ASSUME down # <<>>, down' = Tail(down), Arrived.kind # "params"
      PROVE  \A e \in OnWire : e.kind = "params" => e \in OnWire'
    BY <1>t, WireIsTaken
<1>4. CASE HandleConnect \/ HandleConnectionSuccessful \/ HandleMemberJoin
           \/ HandleMemberStateUpdate
  <2>1. /\ down # <<>> /\ down' = Tail(down) /\ Arrived.kind # "params"
        /\ UNCHANGED <<offered, phase, initReceived, selfId, used, isReady, deferred,
                       transports>>
      BY <1>4 DEF HandleConnect, HandleConnectionSuccessful, HandleMemberJoin,
         HandleMemberStateUpdate, Takes, serverVars, viewVars, mediaVars
  <2>2. Answered(id) /\ id \in Id
      BY <1>3, <2>1 DEF Stuck
  <2>3. QED
      BY <1>t, <2>1, <2>2, AnsweredStays
<1>5. CASE HandleDisconnect
  <2>1. down # <<>> /\ Arrived.kind = "disconnect" /\ phase = "registered"
      BY <1>5 DEF HandleDisconnect, Takes, serverVars
  <2>2. 1 \in DOMAIN down /\ down[1] = Arrived
      BY <2>1, Arrives
  <2>3. Len(down) = 1
      BY <2>1, <2>2 DEF ClientInv, WireInOrder
  <2>4. Reached = "closed"
      BY <2>1, <2>2, <2>3 DEF Reached, After
  <2>5. QED
      BY <2>1, <2>4 DEF ClientInv, WireInOrder
<1>6. CASE HandleSpaceInit
  <2>1. /\ down # <<>> /\ down' = Tail(down) /\ Arrived.kind = "init"
        /\ UNCHANGED <<offered, phase, isReady, deferred>>
      BY <1>6 DEF HandleSpaceInit, Takes, serverVars
  <2>2. ~initReceived
      BY <2>1, Arrives DEF Fits, Heard
  <2>3. Answered(id) /\ id \in Id
      BY <1>3, <2>1 DEF Stuck
  <2>4. QED
      BY <1>t, <2>1, <2>2, <2>3, AnsweredStays
<1>7. CASE HandleMemberLeave
  <2>1. /\ down # <<>> /\ down' = Tail(down) /\ Arrived.kind = "leave"
        /\ UNCHANGED <<offered, phase, initReceived, selfId, used, isReady, deferred>>
        /\ \/ transports' = transports
           \/ transports' = [transports EXCEPT ![Arrived.id] = 0]
      BY <1>7 DEF HandleMemberLeave, Takes, serverVars
  <2>2. Answered(id) /\ id \in Id /\ id \in room
      BY <1>3, <2>1 DEF Stuck
  <2>3. Arrived.id \notin room
      BY <2>1, WireIsTaken DEF ClientInv, OffersArrive
  <2>4. Arrived.id \in Id
      BY <2>1, Arrives, Messages
  <2>5. Handler(id).id \in {id, Self} /\ Arrived.id # Self
      BY <2>4 DEF Handler
  <2>6. transports'[Handler(id).id] = transports[Handler(id).id]
      BY <1>0, <2>1, <2>2, <2>3, <2>5
  <2>7. QED
      BY <1>t, <2>1, <2>2, <2>6, AnsweredStays
<1>8. CASE HandleTransportParams
  <2>1. phase = "registered" /\ id \in offered
      BY <1>8 DEF HandleTransportParams, serverVars
  <2>2. QED
      BY <1>8, <2>1, OfferIsTaken
<1>9. CASE FactoryReady
  <2>1. phase = "registered" /\ id \in offered
      BY <1>9 DEF FactoryReady, serverVars
  <2>2. QED
      BY <1>9, <2>1, WaitingAreRun
<1>10. CASE GrantMedia \/ Toggle \/ UNCHANGED vars
  <2>1. UNCHANGED <<offered, phase, down, initReceived, selfId, used, isReady, deferred,
                    transports>>
      BY <1>10 DEF GrantMedia, Toggle, vars, clientVars, serverVars, wireVars, viewVars,
         mediaVars
  <2>2. Answered(id) /\ id \in Id
      BY <1>3, <2>1 DEF Stuck
  <2>3. OnWire' = OnWire
      BY <2>1 DEF OnWire
  <2>4. QED
      BY <2>1, <2>2, <2>3, AnsweredStays
<1>11. QED
    BY <1>1, <1>2, <1>4, <1>5, <1>6, <1>7, <1>8, <1>9, <1>10 DEF Next, Receive, Page

LEMMA OffersStep ==
  ASSUME ClientInv, [Next]_vars
  PROVE  OffersArrive'
<1>1. ASSUME phase' = "registered" /\ ~Stuck', NEW id \in offered'
      PROVE  (Comes(id) \/ (initReceived /\ Taken(id)))'
    BY <1>1, EveryOfferAnswered DEF Answered
<1>2. ASSUME NEW e \in OnWire', e.kind = "leave"
      PROVE  (e.id \notin room \cup fresh \cup {used})'
    BY <1>2, DeparturesAreFinal
<1>3. QED
    BY <1>1, <1>2, OfferedAreInRoom, HandlersInOrder DEF OffersArrive

-----------------------------------------------------------------------------
(***************************************************************************)
(* The invariant                                                           *)
(***************************************************************************)

LEMMA ClientInvInit ==
  ASSUME Init PROVE ClientInv
<1> USE DEF Init
<1>1. ClientTypes
  <2>1. ServerTypes
      BY DEF ServerTypes
  <2>2. WireTypes
    <3>1. <<>> \in Seq(Message) /\ <<>> \in Seq(BOOLEAN)
        OBVIOUS
    <3>2. QED
        BY <3>1 DEF WireTypes
  <2>3. ViewTypes
      BY DEF ViewTypes
  <2>4. PageTypes
    <3>1. [id \in Id \cup {Self} |-> 0] \in [Id \cup {Self} -> 0 .. 0]
        OBVIOUS
    <3>2. <<>> \in Seq([id : Id \cup {Self}, session : Session])
        OBVIOUS
    <3>3. QED
        BY <3>1, <3>2 DEF PageTypes
  <2>5. QED
      BY <2>1, <2>2, <2>3, <2>4 DEF ClientTypes
<1>2. /\ down = <<>> /\ DOMAIN down = {} /\ Len(down) = 0 /\ OnWire = {}
      /\ DOMAIN deferred = {}
    BY DEF OnWire
<1>3. WireInOrder /\ IdIsCurrent /\ selfId \notin Ids(known)
    BY <1>2 DEF WireInOrder, Reached, Heard, IdIsCurrent, Ids
<1>4. RoomInOrder
  <2>1. \A id \in Id : ~muted[id]
      OBVIOUS
  <2>2. 0 \notin Other
      OBVIOUS
  <2>3. QED
      BY <2>1, <2>2 DEF RoomInOrder, Earlier
<1>5. CopyCatchesUp
  <2>1. PICK copy \in [0 .. Len(down) -> SUBSET Entry] : copy[0] = {}
    <3>1. [i \in 0 .. Len(down) |-> {}] \in [0 .. Len(down) -> SUBSET Entry]
        OBVIOUS
    <3>2. [i \in 0 .. Len(down) |-> {}][0] = {}
        BY <1>2
    <3>3. QED
        BY <3>1, <3>2
  <2>2. Proper(copy[0]) /\ UpToDate(copy[0])
      BY <2>1 DEF Proper, UpToDate
  <2>3. copy[0] = known /\ UpToDate(copy[Len(down)])
      BY <1>2, <2>1, <2>2
  <2>4. \A i \in 0 .. Len(down) : Proper(copy[i])
      BY <1>2, <2>2
  <2>5. Replay(copy)
      BY <1>2, <2>3, <2>4 DEF Replay
  <2>6. QED
      BY <2>5 DEF CopyCatchesUp
<1>6. PressesArrive
    BY <1>2 DEF PressesArrive
<1>7. OffersArrive
    BY <1>2 DEF OffersArrive
<1>8. QED
    BY <1>1, <1>3, <1>4, <1>5, <1>6, <1>7 DEF ClientInv

LEMMA ClientTypesStep ==
  ASSUME ClientInv, [Next]_vars PROVE ClientTypes'
<1>1. CASE UNCHANGED vars
    BY <1>1 DEF ClientInv, ClientTypes, ServerTypes, WireTypes, ViewTypes, PageTypes, vars,
       serverVars, wireVars, clientVars, viewVars, mediaVars, pageVars
<1>2. QED
    BY <1>1, ServerTypesKept, ReceiveTypesKept, PageTypesKept DEF Next

LEMMA ClientInvStep ==
  ASSUME ClientInv, [Next]_vars PROVE ClientInv'
<1>1. (selfId \notin Ids(known))'
    BY SelfStep
<1>2. QED
    BY <1>1, ClientTypesStep, WireStep, RoomStep, CopyStep, PressStep, OffersStep
       DEF ClientInv

\* The inductive invariant: whatever connections are made and broken, the
\* events on the way lead from what the browser has to what the server has.
THEOREM ClientInvariance == Spec => []ClientInv
<1>1. Init => ClientInv
    BY ClientInvInit
<1>2. ClientInv /\ [Next]_vars => ClientInv'
    BY ClientInvStep
<1>3. QED
    BY <1>1, <1>2, PTL DEF Spec

\* The server, the wire and the browser stay within their types: in
\* particular the browser has one entry for a member, and none for itself.
THEOREM ClientTypesHold == Spec => []ClientTypeOK
<1>1. ClientInv => ClientTypeOK
  <2> SUFFICES ASSUME ClientInv PROVE ClientTypeOK
      OBVIOUS
  <2>1. \A e, f \in known : e.id = f.id => e = f
      BY KnownAreEarlier
  <2>2. selfId \notin Ids(known) /\ offered \subseteq room
      BY DEF ClientInv, OffersArrive
  <2>3. QED
      BY <2>1, <2>2 DEF ClientInv, ClientTypes, ServerTypes, WireTypes, ViewTypes,
         PageTypes, ClientTypeOK
<1>2. QED
    BY <1>1, ClientInvariance, PTL

\* A browser that has heard everything knows everybody in the room with the
\* state the server has for them, and on its first connection nobody else.
THEOREM CopyMatchesRoom == Spec => []ViewMatchesRoom
<1>1. ClientInv => ViewMatchesRoom
  <2> SUFFICES ASSUME ClientInv, Settled PROVE
          /\ {[id |-> id, muted |-> muted[id]] : id \in room \ {link}} \subseteq known
          /\ used = 1 => Ids(known) = room \ {link}
      BY DEF ViewMatchesRoom
  <2>1. PICK copy \in [0 .. Len(down) -> SUBSET Entry] : Replay(copy)
      BY DEF ClientInv, CopyCatchesUp
  <2>2. Len(down) = 0 /\ phase = "registered"
      BY DEF Settled
  <2>3. UpToDate(known)
      BY <2>1, <2>2 DEF Replay
  <2>4. QED
      BY <2>2, <2>3 DEF UpToDate
<1>2. QED
    BY <1>1, ClientInvariance, PTL

\* A browser that shows the space knows its own id on the present connection.
THEOREM OwnIdIsCurrent == Spec => []IdIsCurrent
<1>1. ClientInv => IdIsCurrent
    BY DEF ClientInv
<1>2. QED
    BY <1>1, ClientInvariance, PTL

\* A browser that has heard everything has a transport, or keeps a handler, for
\* every offer of the present connection.
THEOREM OffersTaken == Spec => []OffersAreTaken
<1>1. ClientInv => OffersAreTaken
  <2> SUFFICES ASSUME ClientInv, Settled, ~Stuck, NEW id \in offered
               PROVE  IF isReady THEN transports[Handler(id).id] = used
                                 ELSE \E i \in DOMAIN deferred : deferred[i] = Handler(id)
      BY DEF OffersAreTaken
  <2>1. phase = "registered" /\ ~Comes(id)
      BY DEF Settled, Comes, OnWire
  <2>2. Taken(id)
      BY <2>1 DEF ClientInv, OffersArrive
  <2>3. QED
      BY <2>2 DEF Taken
<1>2. QED
    BY <1>1, ClientInvariance, PTL

\* On the first connection the last press of the button decides, for the
\* microphone, for the page and, once it has arrived, for the server.
THEOREM PressDecides == Spec => []LastPressDecides
<1>1. ClientInv => LastPressDecides
  <2> SUFFICES ASSUME ClientInv, used = 1, initReceived
               PROVE  /\ track = "on" => ~selfMuted
                      /\ track = "off" => selfMuted
                      /\ Settled /\ up = <<>> => muted[link] = selfMuted
      BY DEF LastPressDecides
  <2>1. Settled => phase = "registered" /\ link = used
      BY Connected DEF Settled
  <2>2. Settled /\ up = <<>> => muted[link] = selfMuted
      BY <2>1 DEF ClientInv, PressesArrive, LastIsWritten
  <2>3. QED
      BY <2>2 DEF ClientInv, PressesArrive
<1>2. QED
    BY <1>1, ClientInvariance, PTL

=============================================================================
