------------------------------ MODULE Presence ------------------------------
(***************************************************************************)
(* What the signaling servers promise their clients.  A place is a space   *)
(* as one server shows it.  Clients enter and leave places and change      *)
(* their own state one at a time, and after each such step every listening *)
(* client of the place knows exactly who is there and in which state.      *)
(* There is nothing in between.                                            *)
(*                                                                         *)
(* Whoever opens a place may find strangers in it, clients of the space    *)
(* who are on another server.  What becomes of them is not heard of.       *)
(* A client that went away while it was being let in is present without    *)
(* listening.                                                              *)
(***************************************************************************)
CONSTANTS Client, Place

VARIABLES
  present,    \* who is in each place
  strangers,  \* who was in the space on another server
  listening,  \* those that hear of it
  flag,       \* the state each client shows the others
  knows       \* what each client knows of its place

vars == <<present, strangers, listening, flag, knows>>

Nothing == [c \in {} |-> FALSE]

Init ==
  /\ present = [p \in Place |-> {}]
  /\ strangers = [p \in Place |-> {}]
  /\ listening = {}
  /\ flag = [c \in Client |-> FALSE]
  /\ knows = [c \in Client |-> Nothing]

PlaceOf(c) == CHOOSE p \in Place : c \in present[p]

Company(c) == present[PlaceOf(c)] \cup strangers[PlaceOf(c)]

\* Everyone listening knows the state of affairs.
Informed == knows = [c \in Client |->
                       IF c \in listening
                         THEN [d \in Company(c) |->
                                 d \in present[PlaceOf(c)] /\ flag[d]]
                         ELSE Nothing]

Enter(c, p) ==
  /\ \A q \in Place : c \notin present[q]
  /\ present' = [present EXCEPT ![p] = @ \cup {c}]
  /\ strangers' \in [Place -> SUBSET Client]
  /\ \A q \in Place : q # p \/ present[q] # {} => strangers'[q] = strangers[q]
  /\ listening' \in {listening, listening \cup {c}}
  /\ flag' = [flag EXCEPT ![c] = FALSE]

Leave(c, p) ==
  /\ c \in present[p] \cap listening
  /\ present' = [present EXCEPT ![p] = @ \ {c}]
  /\ listening' = listening \ {c}
  /\ flag' = [flag EXCEPT ![c] = FALSE]
  /\ UNCHANGED strangers

Change(c, v) ==
  /\ c \in listening
  /\ flag' = [flag EXCEPT ![c] = v]
  /\ UNCHANGED <<present, strangers, listening>>

Next ==
  /\ \E c \in Client :
       \/ \E p \in Place : Enter(c, p) \/ Leave(c, p)
       \/ \E v \in BOOLEAN : Change(c, v)
  /\ Informed'

Spec == Init /\ [][Next]_vars

=============================================================================
