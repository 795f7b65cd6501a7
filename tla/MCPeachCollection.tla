-------------------------- MODULE MCPeachCollection --------------------------
(***************************************************************************)
(* Three handler threads insert into one collection, at most a few records *)
(* each; the threads are interchangeable.                                  *)
(***************************************************************************)
EXTENDS PeachCollection, TLC

Symmetry == Permutations(Threads)

=============================================================================
