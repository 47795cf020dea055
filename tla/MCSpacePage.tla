---------------------------- MODULE MCSpacePage ----------------------------
(***************************************************************************)
(* Symmetry for the safety run of SpacePage: spaces and signaling servers  *)
(* are each interchangeable, since no operator chooses among them.         *)
(***************************************************************************)
EXTENDS SpacePage, TLC

Interchangeable == Permutations(Space) \cup Permutations(Server)

=============================================================================
