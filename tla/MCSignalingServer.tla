------------------------- MODULE MCSignalingServer -------------------------
(***************************************************************************)
(* Symmetry for the safety runs of SignalingServer: clients, servers and   *)
(* spaces are each interchangeable as long as no space is Scheduled.       *)
(***************************************************************************)
EXTENDS SignalingServer, TLC

Interchangeable ==
  Permutations(Client) \cup Permutations(Server) \cup Permutations(Space)

=============================================================================
