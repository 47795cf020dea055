--------------------------- MODULE JoinPreflight ---------------------------
(***************************************************************************)
(* What a browser is told before it connects: whether its space exists and *)
(* has ended, and which signaling server to open a channel to.  The HTTP   *)
(* server passes both questions to the coordinator, which answers a join   *)
(* with the next of its registered servers, in turn.                       *)
(*                                                                         *)
(* The status of a space is SpaceService's affair and may be another one   *)
(* for each question: the operators take it as a parameter.  Of it only    *)
(* "absent", "open" (initialized or running) and "ended" are told apart.   *)
(***************************************************************************)
EXTENDS Naturals, Sequences, SequencesExt

CONSTANTS
  Server,    \* signaling servers, each with one id and one URL
  Refused,   \* a join request was answered 404
  MaxPicks   \* bound: joins that are given a server

ASSUME PreflightAssumption == Refused \notin Server /\ MaxPicks \in Nat

VARIABLES
  servers,   \* ChannelPreAllocator._servers
  counter,   \* RoundRobinStrategy._counter
  given      \* history: servers given to joins since the list last changed

preflightVars == <<servers, counter, given>>

SpaceStatus == {"absent", "open", "ended"}

PreflightTypeOK ==
  /\ servers \in Seq(Server) /\ IsInjective(servers)
  /\ counter \in Nat
  /\ given \in Seq(Server)

PreflightInit == servers = <<>> /\ counter = 0 /\ given = <<>>

-----------------------------------------------------------------------------
(***************************************************************************)
(* Signaling servers register and deregister with the bus, which tells the *)
(* coordinator: its constructor subscribed before.                         *)
(***************************************************************************)
OnServerConnected(srv) == servers' = Append(servers, srv)

\* The entries of srv are filtered out: there is one.
OnServerDisconnected(srv) ==
  \E i \in DOMAIN servers : servers[i] = srv /\ servers' = RemoveAt(servers, i)

RegisterSignalingServer(srv) ==
  /\ srv \notin Range(servers)
  /\ OnServerConnected(srv)
  /\ given' = <<>>
  /\ UNCHANGED counter

DeregisterSignalingServer(srv) ==
  /\ srv \in Range(servers)
  /\ OnServerDisconnected(srv)
  /\ given' = <<>>
  /\ UNCHANGED counter

-----------------------------------------------------------------------------
(***************************************************************************)
(* The two questions                                                       *)
(***************************************************************************)

\* GET /space
ReadSpace(status) == IF status = "absent" THEN "missing" ELSE status

Joinable(status) == status = "open"

\* Mutant: every other request finds the server that had the last one.
PickEverySecond(ids, n) == ids[((n \div 2) % Len(ids)) + 1]

\* RoundRobinStrategy.pick(), its n-th call.
Picked(ids, n) == ids[(n % Len(ids)) + 1]

\* GET /space/try-join
TryJoinSpace(status, answer) ==
  \/ /\ Joinable(status) /\ servers # <<>>
     /\ counter < MaxPicks
     /\ answer = Picked(servers, counter)
     /\ counter' = counter + 1
     /\ given' = Append(given, answer)
     /\ UNCHANGED servers
  \/ /\ ~Joinable(status) \/ servers = <<>>
     /\ answer = Refused
     /\ UNCHANGED preflightVars

\* Another browser asks.
OtherJoins == \E srv \in Server : TryJoinSpace("open", srv)

PreflightNext ==
  \/ OtherJoins
  \/ \E srv \in Server :
       RegisterSignalingServer(srv) \/ DeregisterSignalingServer(srv)

-----------------------------------------------------------------------------
\* Among as many joins in a row as there are servers none is sent where another
\* was: as long as the list stays the same each server has its turn, whoever
\* asks and wherever the counter stood when the list last changed.
JoinsTakeTurns ==
  \A i, j \in DOMAIN given :
    i < j /\ j - i < Len(servers) => given[i] # given[j]

=============================================================================
