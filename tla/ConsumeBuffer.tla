--------------------------- MODULE ConsumeBuffer ---------------------------
(***************************************************************************)
(* What a worker promises about consume requests, without routers, buffers *)
(* or media I/O: a request may be refused when it is made; one that is     *)
(* taken on is answered once, never before its producer exists and always  *)
(* some time after.                                                        *)
(***************************************************************************)
CONSTANTS
  Request,    \* consume requests
  Producer,   \* what they consume from
  SourceOf    \* the producer of each request

VARIABLES
  exists,     \* producers that exist
  waiting,    \* requests taken on and not answered
  answered    \* requests answered

vars == <<exists, waiting, answered>>

Init == exists = {} /\ waiting = {} /\ answered = {}

Produce(p) ==
  /\ exists' = exists \cup {p}
  /\ UNCHANGED <<waiting, answered>>

TakeOn(r) ==
  /\ r \notin waiting \cup answered
  /\ waiting' = waiting \cup {r}
  /\ UNCHANGED <<exists, answered>>

Refuse(r) ==
  /\ r \notin waiting \cup answered
  /\ answered' = answered \cup {r}
  /\ UNCHANGED <<exists, waiting>>

Answer(r) ==
  /\ r \in waiting
  /\ SourceOf[r] \in exists
  /\ waiting' = waiting \ {r}
  /\ answered' = answered \cup {r}
  /\ UNCHANGED exists

Next ==
  \/ \E p \in Producer : Produce(p)
  \/ \E r \in Request : TakeOn(r) \/ Refuse(r) \/ Answer(r)

Spec == Init /\ [][Next]_vars /\ \A r \in Request : WF_vars(Answer(r))

=============================================================================
