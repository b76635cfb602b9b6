------------------------------- MODULE MCRaft -------------------------------
(* Instances of Raft for TLC.  Nodes and requests are interchangeable: the  *)
(* code compares ids only for equality.                                     *)
EXTENDS RaftRefinement, TLC

Symmetry == Permutations(Server) \cup Permutations(Request)
=============================================================================
